----------------------- MODULE SpendingOperationProofs -----------------------
(* Proofs about SpendingOperation, for any number of tabs, operations and   *)
(* payments and any bounds: its type invariant, the lock discipline that    *)
(* makes every write of a record current, that no operation is submitted    *)
(* twice, that nothing unfinished is lost, and that the owner keeps what    *)
(* PaymentPromise promises.                                                 *)
EXTENDS SpendingOperation, TLAPS

(* The places at which a tab works on a record it has in memory. *)
Holding == {"advance", "lookup", "retained", "evidence"} \cup Calls

(* The places between records. *)
Between == {"idle", "locking", "sync", "replace"}

(* A tab that waits for the lock, or left a record, has none in memory; a  *)
(* tab that advances an operation has its id and its record.               *)
Working ==
    \A t \in Tabs :
        /\ pc[t] \in Between => copy[t] = NoRec
        /\ pc[t] \in Holding => copy[t] # NoRec
        /\ pc[t] \notin Between => cur[t] \in Ops
        /\ pc[t] = "locking" /\ mode[t] = "send" => cur[t] \in Ops
        /\ pc[t] \in {"replace", "abort"} => mode[t] = "reserve"
        /\ mode[t] = "reserve" => want[t] \in Payments

(* The stage of the record a tab waits with. *)
StageAt(place) ==
    CASE place = "reserve" -> {"pre-reserve"}
      [] place = "abort" -> {"reserved"}
      [] place = "authorize" -> {"reserved"}
      [] place \in {"submit", "lookup"} -> {"authorized"}
      [] place = "checkpoints" -> {"operator-submitted"}
      [] place \in {"retained", "finalize"} -> {"checkpoints-authorized"}
      [] place = "receipt" -> {"operator-finalized"}
      [] OTHER -> Stages

StageIsExpected ==
    \A t \in Tabs : copy[t] # NoRec => copy[t].stage \in StageAt(pc[t])

(* Every submitted operation was generated, and its record says so. *)
AttemptIsRecorded ==
    \A o \in Ops :
        /\ journal[o] # NoRec => o \in used
        /\ submits[o] > 0 => o \in used
        /\ submits[o] > 0 /\ journal[o] # NoRec => journal[o].attempted

(* A confirmed record, and a view of one, are of a finalized operation. *)
ConfirmedIsSeen ==
    \A t \in Tabs :
        /\ pc[t] = "apply" /\ copy[t] # NoRec /\ copy[t].receipt =>
              view[t].state \in {"error", "finalized"}
        /\ pc[t] = "apply" /\ view[t].state = "finalized" =>
              guardian[cur[t]] = "finalized"

FinalAtOperator ==
    \A o \in Ops : guardian[o] = "finalized" => operator[o] = "finalized"

IInv ==
    /\ TypeOK /\ Working /\ CopyIsCurrent /\ StageIsExpected
    /\ AttemptIsRecorded /\ SubmittedOnce
    /\ ConfirmedIsSeen /\ FinalAtOperator /\ ConfirmedIsFinal

-------------------------------------------------------------------------------
(* What the moves of a tab do to its locals *)

LEMMA ForgetTyped ==
    ASSUME TabTypeOK, NEW t \in Tabs, Forget(t), lock' \in {lock, NoTab}
    PROVE  TabTypeOK'
  BY DEF TabTypeOK, Forget, Places, Modes, NoView, Views, ViewStates, Failures

(* Going on with the same operation keeps the locals typed. *)
LEMMA GotoTyped ==
    ASSUME TabTypeOK, NEW t \in Tabs, NEW place \in Places, Goto(t, place),
           copy' \in [Tabs -> PersistedVtxoSpend \cup {NoRec}]
    PROVE  TabTypeOK'
  BY DEF TabTypeOK, Goto, NoView, Views, ViewStates, Failures

(* Going on with the next record keeps the locals typed. *)
LEMMA LoopTyped ==
    ASSUME TabTypeOK, NEW t \in Tabs, NEW place \in Places, Loop(t, place)
    PROVE  TabTypeOK'
  BY DEF TabTypeOK, Loop, NoView, Views, ViewStates, Failures

(* Ending the work on one operation keeps the locals typed. *)
LEMMA EndTurnTyped ==
    ASSUME TabTypeOK, NEW t \in Tabs, EndTurn(t)
    PROVE  TabTypeOK'
  <1>1. "sync" \in Places
    BY DEF Places
  <1> QED
    BY <1>1, ForgetTyped, LoopTyped DEF EndTurn, Release

(* Entering an entry point keeps the types. *)
LEMMA StartingTyped ==
    ASSUME IInv, NEW t \in Tabs, Starting(t) PROVE TypeOK'
  <1>1. /\ {"idle", "locking", "sync", "retire"} \subseteq Places
        /\ {"reserve", "send", "reconcile", "acknowledge"} \subseteq Modes
    BY DEF Places, Modes
  <1>2. StoreTypeOK /\ TabTypeOK /\ ServiceTypeOK
    BY DEF IInv, TypeOK
  <1>3. CASE StartReserve(t)
    <2>1. PICK p \in Payments, ids \in {{}, AbortableOps} :
             /\ want' = [want EXCEPT ![t] = p]
             /\ agreed' = [agreed EXCEPT ![t] = ids]
      BY <1>3 DEF StartReserve
    <2>2. ids \in SUBSET Ops
      BY <2>1 DEF AbortableOps, Open, Stored
    <2>3. want' \in [Tabs -> Payments \cup {NoPayment}] /\ agreed' \in [Tabs -> SUBSET Ops]
      BY <1>2, <2>1, <2>2 DEF TabTypeOK
    <2> QED
      BY <1>1, <1>2, <1>3, <2>3 DEF TypeOK, StartReserve, StoreTypeOK, TabTypeOK,
        ServiceTypeOK, store, services
  <1>4. CASE reconcilePersistedVtxoSpend(t)
    BY <1>1, <1>2, <1>4 DEF TypeOK, reconcilePersistedVtxoSpend, StoreTypeOK, TabTypeOK,
      ServiceTypeOK, store, services, Stored
  <1>5. ASSUME NEW o \in Ops, StartSend(t, o) PROVE TypeOK'
    BY <1>1, <1>2, <1>5 DEF TypeOK, StartSend, StoreTypeOK, TabTypeOK, ServiceTypeOK,
      store, services, Stored
  <1>6. ASSUME NEW o \in Ops, acknowledgeSpendingVtxoRecovery(t, o) PROVE TypeOK'
    BY <1>1, <1>2, <1>6 DEF TypeOK, acknowledgeSpendingVtxoRecovery, StoreTypeOK, TabTypeOK,
      ServiceTypeOK, store, services, Stored
  <1> QED
    BY <1>3, <1>4, <1>5, <1>6 DEF Starting

(* The updates a tab makes of a record are records again. *)
LEMMA UpdatesTyped ==
    ASSUME NEW r \in PersistedVtxoSpend, NEW s \in Stages
    PROVE  /\ [r EXCEPT !.stage = s] \in PersistedVtxoSpend
           /\ [r EXCEPT !.stage = s, !.proof = TRUE] \in PersistedVtxoSpend
           /\ [r EXCEPT !.stage = s, !.operatorArk = TRUE] \in PersistedVtxoSpend
           /\ [r EXCEPT !.attempted = TRUE] \in PersistedVtxoSpend
           /\ [r EXCEPT !.receipt = TRUE] \in PersistedVtxoSpend
  BY DEF PersistedVtxoSpend

(* A record with a Guardian view laid on it is a record. *)
LEMMA AppliedTyped ==
    ASSUME NEW r \in PersistedVtxoSpend, NEW v \in Views
    PROVE  AppliedView(r, v) \in PersistedVtxoSpend
  <1> DEFINE floor == stageFloorFromOperationView(v.state)
  <1>1. floor \in Stages
    BY DEF stageFloorFromOperationView, Stages
  <1>2. laterVtxoSpendStage(r.stage, floor) \in Stages
    BY <1>1 DEF laterVtxoSpendStage, PersistedVtxoSpend
  <1>3. (r.proof \/ v.proof) \in BOOLEAN /\ (v.state = "finalized") \in BOOLEAN
    OBVIOUS
  <1>4. \A s \in Stages, proof \in BOOLEAN, receipt \in BOOLEAN :
          [r EXCEPT !.stage = s, !.proof = proof, !.receipt = receipt] \in PersistedVtxoSpend
    BY DEF PersistedVtxoSpend
  <1> QED
    BY <1>2, <1>3, <1>4, Zenon DEF AppliedView

(* Every answer to a lookup is a view. *)
LEMMA ViewTyped ==
    ASSUME ServiceTypeOK, NEW o \in Ops, NEW v \in ViewsOf(o) \cup {NoView}
    PROVE  v \in Views
  <1> DEFINE states == CASE guardian[o] = "none" -> {"unknown"}
                         [] guardian[o] = "aborted" -> {"unknown", "expired", "aborted"}
                         [] guardian[o] \in {"signed", "submitted"} -> {guardian[o], "unresolved"}
                         [] OTHER -> {guardian[o]}
             proofs == IF guardian[o] \in {"signed", "submitted", "finalized"}
                       THEN BOOLEAN ELSE {FALSE}
  <1>1. states \subseteq ViewStates
    BY DEF ServiceTypeOK, GuardianStates, ViewStates, Failures
  <1>2. proofs \subseteq BOOLEAN
    OBVIOUS
  <1>3. ViewsOf(o) = [state : states, proof : proofs]
    BY DEF ViewsOf
  <1>4. NoView \in Views
    BY DEF NoView, Views, ViewStates, Failures
  <1> HIDE DEF states, proofs
  <1> QED
    BY <1>1, <1>2, <1>3, <1>4 DEF Views

(* Synchronising a record with the Guardian keeps the types. *)
LEMMA SynchronisingTyped ==
    ASSUME IInv, NEW t \in Tabs, Synchronising(t) PROVE TypeOK'
  <1> USE DEF IInv, TypeOK, StoreTypeOK, ServiceTypeOK, services, store
  <1>1. CASE FetchNext(t)
    <2>1. PICK o \in todo[t] : \E v \in ViewsOf(o) \cup {NoView} : view' = [view EXCEPT ![t] = v]
      BY <1>1 DEF FetchNext
    <2>2. o \in Ops
      BY <2>1 DEF TabTypeOK
    <2>3. view' \in [Tabs -> Views]
      BY <2>1, <2>2, ViewTyped DEF TabTypeOK
    <2> QED
      BY <1>1, <2>3 DEF FetchNext, TabTypeOK, Places
  <1>2. CASE ReconcileDone(t)
    BY <1>2, ForgetTyped DEF ReconcileDone, Release
  <1>3. CASE fetchVtxoOperation(t)
    <2>1. cur[t] \in Ops
      BY <1>3 DEF fetchVtxoOperation, Working, Between
    <2>2. view' \in [Tabs -> Views]
      BY <1>3, <2>1, ViewTyped DEF fetchVtxoOperation, TabTypeOK
    <2> QED
      BY <1>3, <2>2 DEF fetchVtxoOperation, TabTypeOK, Places
  <1>4. CASE ViewMissing(t)
    <2>1. "sync" \in Places
      BY DEF Places
    <2>2. cur[t] \in Ops
      BY <1>4 DEF ViewMissing, Working, Between
    <2>3. TabTypeOK'
      BY <1>4, <2>1, ForgetTyped, LoopTyped DEF ViewMissing, Release
    <2> QED
      BY <1>4, <2>2, <2>3 DEF ViewMissing, clearPersistedVtxoSpend
  <1>5. CASE requireReviewedVtxoReservation(t)
    BY <1>5, ForgetTyped DEF requireReviewedVtxoReservation, Release
  <1>6. CASE ViewRefused(t)
    BY <1>6, EndTurnTyped DEF ViewRefused
  <1>7. CASE ViewAborted(t)
    <2>1. "sync" \in Places
      BY DEF Places
    <2>2. cur[t] \in Ops
      BY <1>7 DEF ViewAborted, Working, Between
    <2> QED
      BY <1>7, <2>1, <2>2, LoopTyped DEF ViewAborted, clearPersistedVtxoSpend
  <1>8. CASE applyVtxoOperationView(t)
    <2> DEFINE r == AppliedView(copy[t], view[t])
    <2>1. r \in PersistedVtxoSpend
      BY <1>8, AppliedTyped DEF applyVtxoOperationView, TabTypeOK
    <2>2. "sync" \in Places /\ AfterView(t) \in Places
      BY DEF Places, AfterView
    <2>3. CASE mode[t] = "reserve"
      <3> HIDE DEF r
      <3> QED
        BY <1>8, <2>1, <2>2, <2>3, LoopTyped DEF applyVtxoOperationView, persistVtxoSpend, r
    <2>4. CASE mode[t] # "reserve"
      <3>1. copy' = [copy EXCEPT ![t] = r] /\ Goto(t, AfterView(t))
        BY <1>8, <2>4 DEF applyVtxoOperationView
      <3>2. copy' \in [Tabs -> PersistedVtxoSpend \cup {NoRec}]
        BY <2>1, <3>1 DEF TabTypeOK
      <3> QED
        BY <1>8, <2>1, <2>2, <3>1, <3>2, GotoTyped DEF applyVtxoOperationView, persistVtxoSpend
    <2> QED
      BY <2>3, <2>4
  <1> QED
    BY <1>1, <1>2, <1>3, <1>4, <1>5, <1>6, <1>7, <1>8 DEF Synchronising

(* A posted request is a request about an operation. *)
LEMMA PostTyped ==
    ASSUME ServiceTypeOK, NEW call \in Calls, NEW o \in Ops, Post(call, o)
    PROVE  net' \subseteq [call : Calls, op : Ops]
  BY DEF Post, ServiceTypeOK

(* Sending a request and waiting for it keeps the types. *)
LEMMA SendTyped ==
    ASSUME TabTypeOK, ServiceTypeOK, NEW t \in Tabs, NEW call \in Calls,
           cur[t] \in Ops, Send(t, call),
           copy' \in [Tabs -> PersistedVtxoSpend \cup {NoRec}]
    PROVE  TabTypeOK' /\ net' \subseteq [call : Calls, op : Ops]
  <1>1. call \in Places
    BY DEF Places
  <1> QED
    BY <1>1, PostTyped, GotoTyped DEF Send

(* Preparing a reservation keeps the types. *)
LEMMA ReservingTyped ==
    ASSUME IInv, NEW t \in Tabs, Reserving(t) PROVE TypeOK'
  <1> USE DEF IInv, TypeOK, StoreTypeOK, ServiceTypeOK, services, store
  <1>a. {"sync", "advance", "replace", "abort", "reserve"} \subseteq Places
    BY DEF Places, Calls
  <1>b. {"abort", "reserve"} \subseteq Calls
    BY DEF Calls
  <1>1. CASE PrepareRefused(t)
    BY <1>1, ForgetTyped DEF PrepareRefused, Release
  <1>2. CASE PrepareResume(t)
    <2>1. PICK m \in Open : IF journal[m].stage = "pre-reserve"
          THEN /\ cur' = [cur EXCEPT ![t] = m]
               /\ copy' = [copy EXCEPT ![t] = journal[m]]
               /\ pc' = [pc EXCEPT ![t] = "advance"]
               /\ UNCHANGED <<lock, mode, want, agreed, view, todo, answered>>
          ELSE Release(t)
      BY <1>2 DEF PrepareResume
    <2>2. m \in Ops
      BY DEF Open, Stored
    <2>3. CASE journal[m].stage = "pre-reserve"
      BY <1>2, <1>a, <2>1, <2>2, <2>3 DEF PrepareResume, TabTypeOK
    <2>4. CASE journal[m].stage # "pre-reserve"
      BY <1>2, <2>1, <2>4, ForgetTyped DEF PrepareResume, Release
    <2> QED
      BY <2>3, <2>4
  <1>3. CASE PrepareReplace(t)
    BY <1>3, <1>a DEF PrepareReplace, TabTypeOK, AbortableOps, Open, Stored
  <1>4. CASE AbortPreReserved(t)
    BY <1>4 DEF AbortPreReserved, TabTypeOK, clearPersistedVtxoSpend
  <1>5. CASE SendAbort(t)
    <2>1. PICK o \in todo[t] : /\ journal[o] # NoRec
                               /\ cur' = [cur EXCEPT ![t] = o]
                               /\ copy' = [copy EXCEPT ![t] = journal[o]]
                               /\ todo' = [todo EXCEPT ![t] = @ \ {o}]
                               /\ Post("abort", o)
      BY <1>5 DEF SendAbort
    <2>2. o \in Ops
      BY DEF TabTypeOK
    <2> QED
      BY <1>5, <1>a, <1>b, <2>1, <2>2, PostTyped DEF SendAbort, TabTypeOK
  <1>6. CASE abortPersistedVtxoSpend(t)
    <2>1. cur[t] \in Ops
      BY <1>6 DEF abortPersistedVtxoSpend, Working, Between
    <2> QED
      BY <1>6, <1>a, <2>1, LoopTyped DEF abortPersistedVtxoSpend, clearPersistedVtxoSpend
  <1>7. CASE preReserveVtxoSpend(t)
    <2>1. NewRecord(want[t]) \in PersistedVtxoSpend
      BY <1>7 DEF preReserveVtxoSpend, Beginning, Deciding, Working, NewRecord,
        PersistedVtxoSpend, Stages
    <2> QED
      BY <1>7, <1>a, <2>1 DEF preReserveVtxoSpend, persistVtxoSpend, TabTypeOK
  <1>8. CASE JournalFull(t)
    BY <1>8, ForgetTyped DEF JournalFull, Release
  <1>9. CASE SendReserve(t)
    <2>1. cur[t] \in Ops
      BY <1>9 DEF SendReserve, Working, Between
    <2> QED
      BY <1>9, <1>b, <2>1, SendTyped DEF SendReserve, TabTypeOK
  <1>10. CASE reservePersistedVtxoSpend(t)
    <2>1. cur[t] \in Ops /\ copy[t] \in PersistedVtxoSpend
      BY <1>10 DEF reservePersistedVtxoSpend, Working, Between, Holding, Calls, TabTypeOK
    <2>2. [copy[t] EXCEPT !.stage = "reserved"] \in PersistedVtxoSpend
      BY <2>1, UpdatesTyped DEF Stages
    <2> QED
      BY <1>10, <2>1, <2>2, ForgetTyped DEF reservePersistedVtxoSpend, persistVtxoSpend, Release
  <1> QED
    BY <1>1, <1>2, <1>3, <1>4, <1>5, <1>6, <1>7, <1>8, <1>9, <1>10 DEF Reserving

(* Storing an updated record keeps the types. *)
LEMMA KeepTyped ==
    ASSUME StoreTypeOK, TabTypeOK, NEW t \in Tabs, cur[t] \in Ops,
           NEW r \in PersistedVtxoSpend, Keep(t, r)
    PROVE  /\ journal' \in [Ops -> PersistedVtxoSpend \cup {NoRec}]
           /\ copy' \in [Tabs -> PersistedVtxoSpend \cup {NoRec}]
  BY DEF StoreTypeOK, TabTypeOK, Keep, persistVtxoSpend

(* Advancing an operation keeps the types. *)
LEMMA AdvancingTyped ==
    ASSUME IInv, NEW t \in Tabs, Advancing(t) PROVE TypeOK'
  <1> USE DEF IInv, TypeOK, StoreTypeOK, ServiceTypeOK, services, store
  <1>a. /\ {"sync", "advance", "retained", "retire", "evidence"} \subseteq Places
        /\ Calls \subseteq Places
    BY DEF Places
  <1>b. {"authorize", "submit", "checkpoints", "finalize", "receipt"} \subseteq Calls
    BY DEF Calls
  <1>c. {"authorized", "operator-submitted", "checkpoints-authorized",
         "operator-finalized"} \subseteq Stages
    BY DEF Stages
  <1>d. pc[t] \notin Between
    BY DEF Advancing, SendAuthorize, authorizeReservedVtxoSpend, advanceAuthorizedVtxoSpend,
      submitAuthorizedVtxoSpendOnce, recoverAuthorizedVtxoSpend, SendCheckpoints,
      authorizeSubmittedVtxoCheckpoints, retainFinalizationRecovery, SendFinalize,
      OperatorFinalizedPersist, SendReceipt, finalizeVaultOperation, RetireReceipt,
      retireFinalizedVtxoSpendLocked, At, Between
  <1>e. cur[t] \in Ops
    BY <1>d DEF Working
  <1>f. pc[t] # "retire" => copy[t] \in PersistedVtxoSpend
    BY DEF Advancing, SendAuthorize, authorizeReservedVtxoSpend, advanceAuthorizedVtxoSpend,
      submitAuthorizedVtxoSpendOnce, recoverAuthorizedVtxoSpend, SendCheckpoints,
      authorizeSubmittedVtxoCheckpoints, retainFinalizationRecovery, SendFinalize,
      OperatorFinalizedPersist, SendReceipt, finalizeVaultOperation, RetireReceipt,
      retireFinalizedVtxoSpendLocked, At, Working, Holding, Calls, TabTypeOK
  <1>g. ASSUME persistOperatorSubmission(t), pc[t] # "retire" PROVE TypeOK'
    <2> DEFINE r == [copy[t] EXCEPT !.stage = "operator-submitted", !.operatorArk = TRUE]
    <2>1. r \in PersistedVtxoSpend
      BY <1>c, <1>f, <1>g, UpdatesTyped
    <2>2. CASE mode[t] = "reconcile"
      BY <1>a, <1>e, <1>g, <2>1, <2>2, LoopTyped DEF persistOperatorSubmission, persistVtxoSpend
    <2>3. CASE mode[t] # "reconcile"
      BY <1>a, <1>e, <1>g, <2>1, <2>3, KeepTyped, GotoTyped
        DEF persistOperatorSubmission, persistVtxoSpend, Keep
    <2> QED
      BY <2>2, <2>3
  <1>1. CASE SendAuthorize(t)
    BY <1>1, <1>b, <1>e, SendTyped DEF SendAuthorize, TabTypeOK
  <1>2. CASE authorizeReservedVtxoSpend(t)
    BY <1>2, <1>a, <1>c, <1>e, <1>f, UpdatesTyped, KeepTyped, GotoTyped
      DEF authorizeReservedVtxoSpend
  <1>3. CASE advanceAuthorizedVtxoSpend(t)
    <2>1. pc[t] # "retire"
      BY <1>3 DEF advanceAuthorizedVtxoSpend, At
    <2>3. submits' \in [Ops -> Nat]
      <3>1. submits \in [Ops -> Nat]
        OBVIOUS
      <3>2. submits' = [submits EXCEPT ![cur[t]] = submits[cur[t]] + 1]
        BY <1>3, Zenon DEF advanceAuthorizedVtxoSpend
      <3>3. submits[cur[t]] + 1 \in Nat
        BY <1>e, <3>1
      <3> QED
        BY <3>1, <3>2, <3>3, Zenon
    <2>2. [copy[t] EXCEPT !.attempted = TRUE] \in PersistedVtxoSpend
      BY <1>c, <1>f, <2>1, UpdatesTyped
    <2>4. /\ journal' \in [Ops -> PersistedVtxoSpend \cup {NoRec}]
          /\ copy' \in [Tabs -> PersistedVtxoSpend \cup {NoRec}]
      BY <1>3, <1>e, <2>2, KeepTyped DEF advanceAuthorizedVtxoSpend
    <2>5. TabTypeOK' /\ net' \subseteq [call : Calls, op : Ops]
      BY <1>3, <1>b, <1>e, <2>4, SendTyped DEF advanceAuthorizedVtxoSpend
    <2> QED
      BY <1>3, <2>3, <2>4, <2>5 DEF advanceAuthorizedVtxoSpend
  <1>4. CASE submitAuthorizedVtxoSpendOnce(t)
    BY <1>4, <1>g DEF submitAuthorizedVtxoSpendOnce
  <1>5. CASE recoverAuthorizedVtxoSpend(t)
    BY <1>5, <1>g DEF recoverAuthorizedVtxoSpend, At
  <1>6. CASE SendCheckpoints(t)
    BY <1>6, <1>b, <1>e, SendTyped DEF SendCheckpoints, TabTypeOK
  <1>7. CASE authorizeSubmittedVtxoCheckpoints(t)
    BY <1>7, <1>a, <1>c, <1>e, <1>f, UpdatesTyped, KeepTyped, GotoTyped
      DEF authorizeSubmittedVtxoCheckpoints
  <1>8. CASE retainFinalizationRecovery(t)
    BY <1>8, <1>a, <1>e, GotoTyped DEF retainFinalizationRecovery, TabTypeOK
  <1>9. CASE SendFinalize(t)
    BY <1>9, <1>b, <1>e, SendTyped DEF SendFinalize, TabTypeOK
  <1>10. CASE OperatorFinalizedPersist(t)
    BY <1>10, <1>a, <1>c, <1>e, <1>f, UpdatesTyped, KeepTyped, GotoTyped
      DEF OperatorFinalizedPersist
  <1>11. CASE SendReceipt(t)
    BY <1>11, <1>b, <1>e, SendTyped DEF SendReceipt, TabTypeOK
  <1>12. CASE finalizeVaultOperation(t)
    BY <1>12, <1>a, GotoTyped DEF finalizeVaultOperation, TabTypeOK
  <1>13. CASE RetireReceipt(t)
    <2>1. copy[t] \in PersistedVtxoSpend
      BY <1>13 DEF RetireReceipt, TabTypeOK
    <2> QED
      BY <1>13, <1>a, <1>c, <1>e, <2>1, UpdatesTyped, KeepTyped, GotoTyped DEF RetireReceipt
  <1>14. CASE retireFinalizedVtxoSpendLocked(t)
    BY <1>14, <1>e, EndTurnTyped DEF retireFinalizedVtxoSpendLocked, clearPersistedVtxoSpend
  <1> QED
    BY <1>1, <1>2, <1>3, <1>4, <1>5, <1>6, <1>7, <1>8, <1>9, <1>10, <1>11, <1>12,
       <1>13, <1>14 DEF Advancing

(* The Guardian, the Operator and a capture keep the types. *)
LEMMA ServicesTyped ==
    ASSUME IInv, ServiceStep PROVE TypeOK'
  <1> USE DEF IInv, TypeOK, StoreTypeOK, TabTypeOK, ServiceTypeOK, services, store,
        tabVars, GuardianStates, OperatorStates
  <1>a. ASSUME NEW m \in net, NEW delivered \in BOOLEAN, Answer(m, delivered)
        PROVE  /\ m.op \in Ops
               /\ net' \subseteq [call : Calls, op : Ops]
               /\ StoreTypeOK' /\ TabTypeOK'
               /\ UNCHANGED <<covered, used, submits, crashes>>
    BY <1>a DEF Answer
  <1>1. CASE GuardianReserve
    <2>1. PICK m \in Requests("reserve"), delivered \in BOOLEAN :
            /\ guardian' = [guardian EXCEPT ![m.op] = "reserved"]
            /\ IF guardian[m.op] = "none"
               THEN \E i \in FreeChange \cup {NoOp} : input' = [input EXCEPT ![m.op] = i]
               ELSE UNCHANGED input
            /\ Answer(m, delivered)
            /\ UNCHANGED operator
      BY <1>1, Zenon DEF GuardianReserve
    <2>2. FreeChange \subseteq Ops /\ m \in net
      BY DEF FreeChange, Requests
    <2>3. input' \in [Ops -> Ops \cup {NoOp}]
      <3>1. m.op \in Ops /\ input \in [Ops -> Ops \cup {NoOp}]
        BY <1>a, <2>1, <2>2
      <3>2. CASE guardian[m.op] = "none"
        <4>1. PICK i \in FreeChange \cup {NoOp} : input' = [input EXCEPT ![m.op] = i]
          BY <2>1, <3>2
        <4> QED
          BY <2>2, <3>1, <4>1
      <3>3. CASE guardian[m.op] # "none"
        BY <2>1, <3>1, <3>3
      <3> QED
        BY <3>2, <3>3
    <2> QED
      BY <1>a, <2>1, <2>2, <2>3
  <1>2. CASE GuardianAbort
    BY <1>2, <1>a DEF GuardianAbort, Requests
  <1>3. CASE GuardianAuthorize
    BY <1>3, <1>a DEF GuardianAuthorize, Requests
  <1>4. CASE GuardianCheckpoints
    BY <1>4, <1>a DEF GuardianCheckpoints, Requests
  <1>5. CASE GuardianReceipt
    BY <1>5, <1>a DEF GuardianReceipt, Requests
  <1>6. CASE OperatorSubmit
    BY <1>6, <1>a DEF OperatorSubmit, Requests
  <1>7. CASE OperatorFinalize
    BY <1>7, <1>a DEF OperatorFinalize, Requests
  <1>8. CASE LoseRequest
    BY <1>8 DEF LoseRequest
  <1>9. CASE GuardianExpire
    BY <1>9 DEF GuardianExpire
  <1>10. CASE GuardianObserve
    BY <1>10 DEF GuardianObserve
  <1>11. CASE captureVaultRecoveryFile
    BY <1>11 DEF captureVaultRecoveryFile, UnspentChange
  <1> QED
    BY <1>1, <1>2, <1>3, <1>4, <1>5, <1>6, <1>7, <1>8, <1>9, <1>10, <1>11 DEF ServiceStep

(* Every step keeps the types. *)
LEMMA NextTyped ==
    ASSUME IInv, [Next]_vars PROVE TypeOK'
  <1> USE DEF IInv, TypeOK, StoreTypeOK, ServiceTypeOK, services, store
  <1>1. ASSUME NEW t \in Tabs, withVtxoSendLock(t) PROVE TypeOK'
    <2>1. mode[t] = "send" => cur[t] \in Ops
      BY <1>1 DEF withVtxoSendLock, Working
    <2> QED
      BY <1>1, <2>1 DEF withVtxoSendLock, TabTypeOK, Places, Stored
  <1>2. ASSUME NEW t \in Tabs, GiveUp(t) PROVE TypeOK'
    BY <1>2, EndTurnTyped DEF GiveUp
  <1>3. ASSUME NEW t \in Tabs, CallFails(t) PROVE TypeOK'
    <2>1. "lookup" \in Places
      BY DEF Places
    <2> QED
      BY <1>3, <2>1, EndTurnTyped, GotoTyped DEF CallFails, TabTypeOK
  <1>4. ASSUME NEW t \in Tabs, Crash(t) PROVE TypeOK'
    BY <1>4, ForgetTyped DEF Crash
  <1>5. CASE UNCHANGED vars
    BY <1>5 DEF vars, TabTypeOK
  <1> QED
    BY <1>1, <1>2, <1>3, <1>4, <1>5, StartingTyped, SynchronisingTyped, ReservingTyped,
       AdvancingTyped, ServicesTyped DEF Next, TabStep

-------------------------------------------------------------------------------
(* The critical section: who holds the lock, and what it has in memory *)

Owned == Working /\ CopyIsCurrent /\ StageIsExpected

(* While a tab is in the critical section, no other tab has a record. *)
LEMMA OthersWait ==
    ASSUME IInv, NEW t \in Tabs, lock = t, NEW u \in Tabs, u # t
    PROVE  pc[u] \in {"idle", "locking"} /\ copy[u] = NoRec
  BY DEF IInv, CopyIsCurrent, Critical, Working, Between, TypeOK, TabTypeOK

(* A tab that returns leaves nothing behind. *)
LEMMA ForgetOwned ==
    ASSUME IInv, NEW t \in Tabs, Forget(t),
           \/ lock = t /\ lock' = NoTab
           \/ lock' = lock /\ journal' = journal
    PROVE  Owned'
  BY OthersWait DEF Owned, IInv, TypeOK, TabTypeOK, Forget, Working, CopyIsCurrent, StageIsExpected,
    Critical, Between, Holding, Calls, Places

(* A tab that goes on to the next record has none in memory. *)
LEMMA LoopOwned ==
    ASSUME IInv, NEW t \in Tabs, lock = t, NEW place \in {"sync", "replace"},
           place = "replace" => mode[t] = "reserve", Loop(t, place)
    PROVE  Owned'
  BY OthersWait DEF Owned, IInv, TypeOK, TabTypeOK, Loop, Working, CopyIsCurrent, StageIsExpected,
    Critical, Between, Holding, Calls, Places

(* A tab that ends its work on an operation has no record in memory. *)
LEMMA EndTurnOwned ==
    ASSUME IInv, NEW t \in Tabs, lock = t, EndTurn(t)
    PROVE  Owned'
  BY ForgetOwned, LoopOwned DEF EndTurn, Release

(* Moving on with a record that is the stored one, at the stage expected   *)
(* of the next place.                                                      *)
LEMMA GotoOwned ==
    ASSUME IInv, NEW t \in Tabs, lock = t, NEW place \in Critical \ Between,
           place = "abort" => mode[t] = "reserve",
           Goto(t, place), cur[t] \in Ops, NEW r, r # NoRec,
           copy' = [copy EXCEPT ![t] = r], journal'[cur[t]] = r,
           r.stage \in StageAt(place)
    PROVE  Owned'
  <1>1. \A u \in Tabs \ {t} : /\ pc'[u] \in {"idle", "locking"} /\ copy'[u] = NoRec
                              /\ mode'[u] = mode[u] /\ want'[u] = want[u] /\ cur'[u] = cur[u]
                              /\ pc'[u] = pc[u]
    BY OthersWait DEF IInv, TypeOK, TabTypeOK, Goto
  <1>2. /\ pc'[t] = place /\ copy'[t] = r /\ lock' = t /\ cur'[t] = cur[t]
        /\ mode'[t] = mode[t] /\ want'[t] = want[t]
    BY DEF IInv, TypeOK, TabTypeOK, Goto
  <1>3. Working'
    BY <1>1, <1>2 DEF IInv, Working, Between, Holding, Calls
  <1>4. CopyIsCurrent'
    BY <1>1, <1>2 DEF CopyIsCurrent, Critical
  <1>5. StageIsExpected'
    BY <1>1, <1>2 DEF StageIsExpected
  <1> QED
    BY <1>3, <1>4, <1>5 DEF Owned

(* What a step of a tab may do to the journal: nothing, clear a record, add *)
(* a new operation, or write back its own record with more evidence in it;  *)
(* a receipt is added only for an operation the Guardian finalized.         *)
WritesBack(t, r) ==
    /\ copy[t] # NoRec /\ journal[cur[t]] = copy[t] /\ cur[t] \in Ops
    /\ r \in PersistedVtxoSpend /\ Grows(copy[t], r)
    /\ r.receipt => copy[t].receipt \/ guardian[cur[t]] = "finalized"
    /\ journal' = [journal EXCEPT ![cur[t]] = r]
    /\ used' = used

JournalStep(t) ==
    \/ journal' = journal /\ used' = used
    \/ used' = used /\ \E o \in Ops : journal' = [journal EXCEPT ![o] = NoRec]
    \/ \E o \in Ops \ used, p \in Payments :
          used' = used \cup {o} /\ journal' = [journal EXCEPT ![o] = NewRecord(p)]
    \/ \E r \in PersistedVtxoSpend : WritesBack(t, r)

(* A tab at any place but the first two holds the lock. *)
LEMMA Locked ==
    ASSUME IInv, NEW t \in Tabs, pc[t] \notin {"idle", "locking"}
    PROVE  lock = t
  BY DEF IInv, TypeOK, TabTypeOK, CopyIsCurrent, Critical

(* While the lock is free, no tab is inside the critical section. *)
LEMMA NoneInside ==
    ASSUME IInv, lock = NoTab, NEW u \in Tabs
    PROVE  pc[u] \in {"idle", "locking"} /\ copy[u] = NoRec
  BY NullAssumption DEF IInv, CopyIsCurrent, Critical, Working, Between, TypeOK, TabTypeOK

(* Entering takes the free lock, and the record loaded is the stored one. *)
LEMMA StartingOwned ==
    ASSUME IInv, NEW t \in Tabs, Starting(t) PROVE Owned' /\ JournalStep(t)
  <1> USE DEF IInv, TypeOK, TabTypeOK, store, services, Owned, Working, CopyIsCurrent,
        StageIsExpected, Critical, Between, Holding, Calls, Places, JournalStep
  <1>1. CASE StartReserve(t)
    BY <1>1 DEF StartReserve
  <1>2. CASE reconcilePersistedVtxoSpend(t)
    BY <1>2, NoneInside DEF reconcilePersistedVtxoSpend
  <1>3. ASSUME NEW o \in Ops, StartSend(t, o) PROVE Owned' /\ JournalStep(t)
    BY <1>3 DEF StartSend
  <1>4. ASSUME NEW o \in Ops, acknowledgeSpendingVtxoRecovery(t, o)
        PROVE  Owned' /\ JournalStep(t)
    <2>1. copy'[t] # NoRec => copy'[t].stage \in StageAt("retire")
      BY <1>4 DEF acknowledgeSpendingVtxoRecovery, StoreTypeOK, PersistedVtxoSpend, StageAt
    <2> QED
      BY <1>4, <2>1, NoneInside DEF acknowledgeSpendingVtxoRecovery
  <1> QED
    BY <1>1, <1>2, <1>3, <1>4 DEF Starting

(* A tab that applies a view writes back the record it has loaded. *)
LEMMA SynchronisingOwned ==
    ASSUME IInv, NEW t \in Tabs, Synchronising(t) PROVE Owned' /\ JournalStep(t)
  <1> USE DEF store, services
  <1>a. pc[t] \in {"sync", "fetch", "apply"}
    BY DEF Synchronising, FetchNext, ReconcileDone, fetchVtxoOperation, ViewMissing,
      requireReviewedVtxoReservation, ViewRefused, ViewAborted, applyVtxoOperationView
  <1>b. lock = t
    BY <1>a, Locked
  <1>c. pc[t] = "apply" => cur[t] \in Ops
    BY DEF IInv, Working, Between
  <1>1. CASE FetchNext(t)
    <2>1. PICK o \in todo[t] : /\ cur' = [cur EXCEPT ![t] = o]
                               /\ copy' = [copy EXCEPT ![t] = journal[o]]
      BY <1>1 DEF FetchNext
    <2>2. o \in Ops
      BY DEF IInv, TypeOK, TabTypeOK
    <2>3. journal[o] # NoRec => journal[o].stage \in StageAt("apply")
      BY <2>2 DEF IInv, TypeOK, StoreTypeOK, PersistedVtxoSpend, StageAt
    <2> QED
      BY <1>1, <1>b, <2>1, <2>2, <2>3 DEF FetchNext, IInv, TypeOK, TabTypeOK, Owned, Working,
        CopyIsCurrent, StageIsExpected, Critical, Between, Holding, Calls, Places, JournalStep
  <1>2. CASE ReconcileDone(t)
    BY <1>2, <1>b, ForgetOwned DEF ReconcileDone, Release, JournalStep
  <1>3. CASE fetchVtxoOperation(t)
    <2>1. copy[t] # NoRec => copy[t].stage \in StageAt("apply")
      BY <1>3 DEF fetchVtxoOperation, IInv, StageIsExpected, StageAt
    <2> QED
      BY <1>3, <1>b, <2>1 DEF fetchVtxoOperation, IInv, TypeOK, TabTypeOK, Owned, Working,
        CopyIsCurrent, StageIsExpected, Critical, Between, Holding, Calls, Places, JournalStep
  <1>4. CASE ViewMissing(t)
    <2>1. Owned'
      BY <1>4, <1>b, ForgetOwned, LoopOwned DEF ViewMissing, Release
    <2> QED
      BY <1>4, <1>c, <2>1 DEF ViewMissing, clearPersistedVtxoSpend, JournalStep
  <1>5. CASE requireReviewedVtxoReservation(t)
    BY <1>5, <1>b, ForgetOwned DEF requireReviewedVtxoReservation, Release, JournalStep
  <1>6. CASE ViewRefused(t)
    BY <1>6, <1>b, EndTurnOwned DEF ViewRefused, JournalStep
  <1>7. CASE ViewAborted(t)
    <2>1. Owned'
      BY <1>7, <1>b, LoopOwned DEF ViewAborted
    <2> QED
      BY <1>7, <1>c, <2>1 DEF ViewAborted, clearPersistedVtxoSpend, JournalStep
  <1>8. CASE applyVtxoOperationView(t)
    <2> DEFINE r == AppliedView(copy[t], view[t])
    <2>1. copy[t] \in PersistedVtxoSpend /\ view[t] \in Views /\ cur[t] \in Ops
      BY <1>8, <1>c DEF applyVtxoOperationView, IInv, TypeOK, TabTypeOK
    <2>2. r \in PersistedVtxoSpend /\ r # NoRec /\ r.stage \in Stages
      BY <2>1, AppliedTyped, RecordAssumption DEF PersistedVtxoSpend
    <2>3. journal[cur[t]] = copy[t]
      BY <1>8 DEF applyVtxoOperationView, IInv, CopyIsCurrent
    <2>4. journal' = [journal EXCEPT ![cur[t]] = r] /\ used' = used
      BY <1>8 DEF applyVtxoOperationView, persistVtxoSpend
    <2>5. WritesBack(t, r)
      <3>1. copy[t].receipt => view[t].state = "finalized"
        BY <1>8 DEF applyVtxoOperationView, IInv, ConfirmedIsSeen
      <3>2. view[t].state = "finalized" => guardian[cur[t]] = "finalized"
        BY <1>8 DEF applyVtxoOperationView, IInv, ConfirmedIsSeen
      <3>3. Grows(copy[t], r)
        <4>1. CASE copy[t].stage = "pre-reserve"
          BY <2>1, <4>1 DEF AppliedView, Grows, PersistedVtxoSpend, Stages, VTXO_SPEND_STAGE_RANK
        <4>2. CASE copy[t].stage # "pre-reserve"
          BY <2>1, <3>1, <4>2 DEF AppliedView, Grows, PersistedVtxoSpend, Stages, Views,
            VTXO_SPEND_STAGE_RANK, laterVtxoSpendStage, stageFloorFromOperationView
        <4> QED
          BY <4>1, <4>2
      <3>4. r.receipt => copy[t].receipt \/ view[t].state = "finalized"
        BY <2>1 DEF AppliedView, PersistedVtxoSpend
      <3>5. copy[t] # NoRec
        BY <2>1, RecordAssumption
      <3> HIDE DEF r
      <3> QED
        BY <2>1, <2>2, <2>3, <2>4, <3>2, <3>3, <3>4, <3>5, Zenon DEF WritesBack
    <2>6. JournalStep(t)
      BY <2>2, <2>5 DEF JournalStep
    <2>7. CASE mode[t] = "reserve"
      BY <1>8, <1>b, <2>6, <2>7, LoopOwned DEF applyVtxoOperationView
    <2>8. CASE mode[t] # "reserve"
      <3>1. AfterView(t) \in (Critical \ Between) \ {"abort"} /\ StageAt(AfterView(t)) = Stages
        BY DEF AfterView, Critical, Between, Places, StageAt
      <3>2. copy' = [copy EXCEPT ![t] = r] /\ Goto(t, AfterView(t))
        BY <1>8, <2>8 DEF applyVtxoOperationView
      <3>3. journal'[cur[t]] = r
        BY <2>1, <2>4 DEF IInv, TypeOK, StoreTypeOK
      <3> HIDE DEF r
      <3> QED
        BY <1>b, <2>1, <2>2, <2>6, <3>1, <3>2, <3>3, GotoOwned
    <2> QED
      BY <2>7, <2>8
  <1> QED
    BY <1>1, <1>2, <1>3, <1>4, <1>5, <1>6, <1>7, <1>8 DEF Synchronising

(* A request about the record in memory is waited for with that record. *)
LEMMA SendOwned ==
    ASSUME IInv, NEW t \in Tabs, lock = t, NEW call \in Calls \ {"abort"},
           Send(t, call), cur[t] \in Ops, copy[t] # NoRec, copy' = copy, journal' = journal,
           copy[t].stage \in StageAt(call)
    PROVE  Owned'
  <1>1. call \in Critical \ Between
    BY DEF Calls, Critical, Places, Between
  <1>2. copy' = [copy EXCEPT ![t] = copy[t]] /\ journal'[cur[t]] = copy[t]
    BY DEF IInv, TypeOK, TabTypeOK, CopyIsCurrent
  <1> QED
    BY <1>1, <1>2, GotoOwned DEF Send

(* A preparation changes only the records it owns or creates. *)
LEMMA ReservingOwned ==
    ASSUME IInv, NEW t \in Tabs, Reserving(t) PROVE Owned' /\ JournalStep(t)
  <1> USE DEF store, services
  <1>a. pc[t] \in {"sync", "replace", "abort", "advance", "reserve"}
    BY DEF Reserving, PrepareRefused, PrepareResume, PrepareReplace, AbortPreReserved, SendAbort,
      abortPersistedVtxoSpend, preReserveVtxoSpend, JournalFull, SendReserve,
      reservePersistedVtxoSpend, Deciding, Beginning
  <1>b. lock = t
    BY <1>a, Locked
  <1>c. pc[t] \in {"abort", "advance", "reserve"} =>
          /\ cur[t] \in Ops /\ copy[t] # NoRec /\ copy[t] \in PersistedVtxoSpend
          /\ journal[cur[t]] = copy[t]
    BY DEF IInv, Working, Between, Holding, Calls, CopyIsCurrent, TypeOK, TabTypeOK
  <1>d. {"abort", "reserve"} \subseteq Calls
    BY DEF Calls
  <1>e. pc[t] = "replace" => mode[t] = "reserve"
    BY DEF IInv, Working
  <1>1. CASE PrepareRefused(t)
    BY <1>1, <1>b, ForgetOwned DEF PrepareRefused, Release, JournalStep
  <1>2. CASE PrepareResume(t)
    <2>1. PICK m \in Open : IF journal[m].stage = "pre-reserve"
          THEN /\ cur' = [cur EXCEPT ![t] = m]
               /\ copy' = [copy EXCEPT ![t] = journal[m]]
               /\ pc' = [pc EXCEPT ![t] = "advance"]
               /\ UNCHANGED <<lock, mode, want, agreed, view, todo, answered>>
          ELSE Release(t)
      BY <1>2 DEF PrepareResume
    <2>2. m \in Ops /\ journal[m] # NoRec
      BY DEF Open, Stored
    <2>3. CASE journal[m].stage = "pre-reserve"
      <3>1. journal[m].stage \in StageAt("advance")
        BY <2>3 DEF StageAt, Stages
      <3> QED
        BY <1>2, <1>b, <2>1, <2>2, <2>3, <3>1, OthersWait DEF PrepareResume, IInv, TypeOK,
          TabTypeOK, Owned, Working, CopyIsCurrent, StageIsExpected, Critical, Between, Holding,
          Calls, Places, JournalStep
    <2>4. CASE journal[m].stage # "pre-reserve"
      BY <1>2, <1>b, <2>1, <2>4, ForgetOwned DEF PrepareResume, Release, JournalStep
    <2> QED
      BY <2>3, <2>4
  <1>3. CASE PrepareReplace(t)
    BY <1>3, <1>b, OthersWait DEF PrepareReplace, Deciding, IInv, TypeOK, TabTypeOK, Owned, Working,
      CopyIsCurrent, StageIsExpected, Critical, Between, Holding, Calls, Places, JournalStep
  <1>4. CASE AbortPreReserved(t)
    <2>1. PICK o \in todo[t] : journal' = [journal EXCEPT ![o] = NoRec]
      BY <1>4 DEF AbortPreReserved, clearPersistedVtxoSpend
    <2>2. o \in Ops
      BY DEF IInv, TypeOK, TabTypeOK
    <2>3. \A u \in Tabs : copy[u] = NoRec
      BY <1>4, <1>b, OthersWait DEF AbortPreReserved, IInv, Working, Between
    <2>4. Owned'
      BY <1>4, <2>3 DEF AbortPreReserved, IInv, Owned, Working, CopyIsCurrent, StageIsExpected
    <2> QED
      BY <1>4, <2>1, <2>2, <2>4 DEF AbortPreReserved, JournalStep
  <1>5. CASE SendAbort(t)
    <2>1. PICK o \in todo[t] : /\ journal[o] # NoRec /\ journal[o].stage = "reserved"
                               /\ cur' = [cur EXCEPT ![t] = o]
                               /\ copy' = [copy EXCEPT ![t] = journal[o]]
      BY <1>5 DEF SendAbort
    <2>2. o \in Ops /\ journal[o].stage \in StageAt("abort")
      BY <2>1 DEF IInv, TypeOK, TabTypeOK, StageAt
    <2> QED
      BY <1>5, <1>b, <2>1, <2>2, OthersWait DEF SendAbort, IInv, TypeOK, TabTypeOK, Owned, Working,
        CopyIsCurrent, StageIsExpected, Critical, Between, Holding, Calls, Places, JournalStep
  <1>6. CASE abortPersistedVtxoSpend(t)
    <2>1. mode[t] = "reserve"
      BY <1>6 DEF abortPersistedVtxoSpend, IInv, Working
    <2>2. Owned'
      BY <1>6, <1>b, <2>1, LoopOwned DEF abortPersistedVtxoSpend
    <2> QED
      BY <1>6, <1>c, <2>2 DEF abortPersistedVtxoSpend, clearPersistedVtxoSpend, JournalStep
  <1>7. CASE preReserveVtxoSpend(t)
    <2> DEFINE r == NewRecord(want[t])
    <2>1. want[t] \in Payments
      BY <1>7 DEF preReserveVtxoSpend, Beginning, Deciding, IInv, Working
    <2>2. PICK o \in Ops \ used : /\ used' = used \cup {o}
                                  /\ cur' = [cur EXCEPT ![t] = o]
                                  /\ journal' = [journal EXCEPT ![o] = r]
      BY <1>7, Zenon DEF preReserveVtxoSpend, persistVtxoSpend
    <2>3. r # NoRec /\ r.stage \in StageAt("advance")
      <3>1. r \in PersistedVtxoSpend /\ r.stage \in Stages
        BY <2>1 DEF NewRecord, PersistedVtxoSpend, Stages
      <3>2. StageAt("advance") = Stages
        BY DEF StageAt
      <3> QED
        BY <3>1, <3>2, RecordAssumption
    <2>4. JournalStep(t)
      BY <2>1, <2>2 DEF JournalStep
    <2> HIDE DEF r
    <2>5. Owned'
      BY <1>7, <1>b, <2>2, <2>3, OthersWait DEF preReserveVtxoSpend, r, IInv, TypeOK, StoreTypeOK,
        TabTypeOK, Owned, Working, CopyIsCurrent, StageIsExpected, Critical, Between, Holding,
        Calls, Places
    <2> QED
      BY <2>4, <2>5
  <1>8. CASE JournalFull(t)
    BY <1>8, <1>b, ForgetOwned DEF JournalFull, Release, JournalStep
  <1>9. CASE SendReserve(t)
    <2>1. copy[t].stage \in StageAt("reserve")
      BY <1>9 DEF SendReserve, StageAt
    <2> QED
      BY <1>9, <1>b, <1>c, <1>d, <2>1, SendOwned DEF SendReserve, JournalStep
  <1>10. CASE reservePersistedVtxoSpend(t)
    <2> DEFINE r == [copy[t] EXCEPT !.stage = "reserved"]
    <2>1. copy[t].stage = "pre-reserve"
      BY <1>10, <1>c DEF reservePersistedVtxoSpend, IInv, StageIsExpected, StageAt
    <2>2. r \in PersistedVtxoSpend
      BY <1>10, <1>c, UpdatesTyped DEF reservePersistedVtxoSpend, Stages
    <2>3. Grows(copy[t], r) /\ (r.receipt => copy[t].receipt)
      BY <1>10, <1>c, <2>1 DEF reservePersistedVtxoSpend, Grows, PersistedVtxoSpend, Stages,
        VTXO_SPEND_STAGE_RANK
    <2> HIDE DEF r
    <2>4. WritesBack(t, r)
      BY <1>10, <1>c, <2>2, <2>3, Zenon DEF reservePersistedVtxoSpend, persistVtxoSpend, WritesBack, r
    <2>5. Owned'
      BY <1>10, <1>b, ForgetOwned DEF reservePersistedVtxoSpend, Release
    <2> QED
      BY <2>2, <2>4, <2>5 DEF JournalStep
  <1> QED
    BY <1>1, <1>2, <1>3, <1>4, <1>5, <1>6, <1>7, <1>8, <1>9, <1>10 DEF Reserving

(* Keeping an updated record and going on with it. *)
LEMMA KeepOwned ==
    ASSUME IInv, NEW t \in Tabs, lock = t, NEW r \in PersistedVtxoSpend,
           cur[t] \in Ops, copy[t] # NoRec, journal[cur[t]] = copy[t],
           Grows(copy[t], r), r.receipt => copy[t].receipt \/ guardian[cur[t]] = "finalized",
           Keep(t, r), used' = used,
           NEW place \in (Critical \ Between) \ {"abort"}, Goto(t, place),
           r.stage \in StageAt(place)
    PROVE  Owned' /\ JournalStep(t)
  <1>1. copy' = [copy EXCEPT ![t] = r] /\ journal'[cur[t]] = r /\ r # NoRec
    BY RecordAssumption DEF Keep, persistVtxoSpend, IInv, TypeOK, StoreTypeOK
  <1>2. WritesBack(t, r)
    BY Zenon DEF WritesBack, Keep, persistVtxoSpend
  <1> QED
    BY <1>1, <1>2, GotoOwned DEF JournalStep

(* Every step of an operation writes back the record it has loaded. *)
LEMMA AdvancingOwned ==
    ASSUME IInv, NEW t \in Tabs, Advancing(t) PROVE Owned' /\ JournalStep(t)
  <1> USE DEF store, services
  <1>a. pc[t] \notin Between
    BY DEF Advancing, SendAuthorize, authorizeReservedVtxoSpend, advanceAuthorizedVtxoSpend,
      submitAuthorizedVtxoSpendOnce, recoverAuthorizedVtxoSpend, SendCheckpoints,
      authorizeSubmittedVtxoCheckpoints, retainFinalizationRecovery, SendFinalize,
      OperatorFinalizedPersist, SendReceipt, finalizeVaultOperation, RetireReceipt,
      retireFinalizedVtxoSpendLocked, At, Between
  <1>b. lock = t /\ cur[t] \in Ops
    BY <1>a, Locked DEF IInv, Working, Between
  <1>c. pc[t] # "retire" => copy[t] # NoRec
    BY DEF Advancing, SendAuthorize, authorizeReservedVtxoSpend, advanceAuthorizedVtxoSpend,
      submitAuthorizedVtxoSpendOnce, recoverAuthorizedVtxoSpend, SendCheckpoints,
      authorizeSubmittedVtxoCheckpoints, retainFinalizationRecovery, SendFinalize,
      OperatorFinalizedPersist, SendReceipt, finalizeVaultOperation, RetireReceipt,
      retireFinalizedVtxoSpendLocked, At, IInv, Working, Holding, Calls
  <1>d. copy[t] # NoRec => /\ copy[t] \in PersistedVtxoSpend
                           /\ journal[cur[t]] = copy[t]
                           /\ copy[t].stage \in StageAt(pc[t])
    BY DEF IInv, TypeOK, TabTypeOK, CopyIsCurrent, StageIsExpected
  <1>e. /\ Calls \subseteq Critical \ Between
        /\ {"advance", "lookup", "retained", "retire", "evidence"} \subseteq
             (Critical \ Between) \ {"abort"}
        /\ {"authorize", "submit", "checkpoints", "finalize", "receipt"} \subseteq Calls \ {"abort"}
    BY DEF Calls, Critical, Between, Places
  <1>f. StageAt("advance") = Stages /\ StageAt("retire") = Stages /\ StageAt("evidence") = Stages
    BY DEF StageAt
  (* an update of the stage, for a record whose stage is not beyond it *)
  <1>g. ASSUME NEW r \in PersistedVtxoSpend, NEW s \in Stages,
               VTXO_SPEND_STAGE_RANK[s] >= VTXO_SPEND_STAGE_RANK[r.stage]
        PROVE  /\ Grows(r, [r EXCEPT !.stage = s])
               /\ Grows(r, [r EXCEPT !.stage = s, !.proof = TRUE])
               /\ Grows(r, [r EXCEPT !.stage = s, !.operatorArk = TRUE])
               /\ [r EXCEPT !.stage = s].receipt = r.receipt
               /\ [r EXCEPT !.stage = s, !.proof = TRUE].receipt = r.receipt
               /\ [r EXCEPT !.stage = s, !.operatorArk = TRUE].receipt = r.receipt
    BY <1>g DEF Grows, PersistedVtxoSpend
  <1>h. /\ VTXO_SPEND_STAGE_RANK["authorized"] >= VTXO_SPEND_STAGE_RANK["reserved"]
        /\ VTXO_SPEND_STAGE_RANK["operator-submitted"] >= VTXO_SPEND_STAGE_RANK["authorized"]
        /\ VTXO_SPEND_STAGE_RANK["checkpoints-authorized"] >= VTXO_SPEND_STAGE_RANK["operator-submitted"]
        /\ VTXO_SPEND_STAGE_RANK["operator-finalized"] >= VTXO_SPEND_STAGE_RANK["checkpoints-authorized"]
        /\ {"authorized", "operator-submitted", "checkpoints-authorized", "operator-finalized"} \subseteq Stages
    BY DEF VTXO_SPEND_STAGE_RANK, Stages
  <1>i. ASSUME persistOperatorSubmission(t), copy[t] # NoRec, copy[t].stage = "authorized"
        PROVE  Owned' /\ JournalStep(t)
    <2> DEFINE r == [copy[t] EXCEPT !.stage = "operator-submitted", !.operatorArk = TRUE]
    <2>1. r \in PersistedVtxoSpend /\ Grows(copy[t], r) /\ r.receipt = copy[t].receipt
      BY <1>d, <1>g, <1>h, <1>i, UpdatesTyped
    <2>2. journal' = [journal EXCEPT ![cur[t]] = r] /\ used' = used
      BY <1>i DEF persistOperatorSubmission, persistVtxoSpend
    <2>3. r.stage \in StageAt("advance")
      BY <2>1, <1>f DEF PersistedVtxoSpend
    <2> HIDE DEF r
    <2>4. CASE mode[t] = "reconcile"
      <3>1. WritesBack(t, r)
        BY <1>b, <1>d, <1>i, <2>1, <2>2, Zenon DEF WritesBack
      <3>2. Owned'
        BY <1>b, <1>i, <2>4, LoopOwned DEF persistOperatorSubmission
      <3> QED
        BY <2>1, <3>1, <3>2 DEF JournalStep
    <2>5. CASE mode[t] # "reconcile"
      <3>1. copy' = [copy EXCEPT ![t] = r] /\ Goto(t, "advance")
        BY <1>i, <2>5 DEF persistOperatorSubmission, r
      <3>2. Keep(t, r)
        BY <2>2, <3>1 DEF Keep, persistVtxoSpend
      <3> QED
        BY <1>b, <1>d, <1>e, <1>i, <2>1, <2>2, <2>3, <3>1, <3>2, KeepOwned
    <2> QED
      BY <2>4, <2>5
  <1>1. CASE SendAuthorize(t)
    BY <1>1, <1>b, <1>c, <1>e, SendOwned DEF SendAuthorize, At, StageAt, JournalStep
  <1>2. CASE authorizeReservedVtxoSpend(t)
    <2> DEFINE r == [copy[t] EXCEPT !.stage = "authorized", !.proof = TRUE]
    <2>1. copy[t] # NoRec /\ copy[t].stage = "reserved"
      BY <1>2, <1>c, <1>d DEF authorizeReservedVtxoSpend, StageAt
    <2>2. r \in PersistedVtxoSpend /\ Grows(copy[t], r) /\ r.receipt = copy[t].receipt
      BY <1>d, <1>g, <1>h, <2>1, UpdatesTyped
    <2>3. r.stage \in StageAt("advance")
      BY <2>2, <1>f DEF PersistedVtxoSpend
    <2>4. Keep(t, r) /\ Goto(t, "advance") /\ used' = used
      BY <1>2 DEF authorizeReservedVtxoSpend
    <2> HIDE DEF r
    <2> QED
      BY <1>b, <1>d, <1>e, <2>1, <2>2, <2>3, <2>4, KeepOwned
  <1>3. CASE advanceAuthorizedVtxoSpend(t)
    <2> DEFINE r == [copy[t] EXCEPT !.attempted = TRUE]
    <2>1. copy[t] # NoRec /\ copy[t].stage = "authorized"
      BY <1>3, <1>c DEF advanceAuthorizedVtxoSpend, At
    <2>2. r \in PersistedVtxoSpend
      BY <1>d, <2>1, UpdatesTyped DEF Stages
    <2>3. Grows(copy[t], r) /\ r.receipt = copy[t].receipt /\ r.stage = "authorized"
      BY <1>d, <2>1 DEF Grows, PersistedVtxoSpend, Stages, VTXO_SPEND_STAGE_RANK
    <2>4. Keep(t, r) /\ Goto(t, "submit") /\ used' = used
      BY <1>3 DEF advanceAuthorizedVtxoSpend, Send
    <2>5. r.stage \in StageAt("submit")
      BY <2>3 DEF StageAt
    <2>6. "submit" \in (Critical \ Between) \ {"abort"}
      BY <1>e
    <2> HIDE DEF r
    <2> QED
      BY <1>b, <1>d, <2>1, <2>2, <2>3, <2>4, <2>5, <2>6, KeepOwned
  <1>4. CASE submitAuthorizedVtxoSpendOnce(t)
    <2>1. copy[t] # NoRec /\ copy[t].stage = "authorized"
      BY <1>4, <1>c, <1>d DEF submitAuthorizedVtxoSpendOnce, StageAt
    <2> QED
      BY <1>4, <1>i, <2>1 DEF submitAuthorizedVtxoSpendOnce
  <1>5. CASE recoverAuthorizedVtxoSpend(t)
    <2>1. copy[t] # NoRec /\ copy[t].stage = "authorized"
      BY <1>5, <1>c, <1>d DEF recoverAuthorizedVtxoSpend, At, StageAt
    <2> QED
      BY <1>5, <1>i, <2>1 DEF recoverAuthorizedVtxoSpend
  <1>6. CASE SendCheckpoints(t)
    BY <1>6, <1>b, <1>c, <1>e, SendOwned DEF SendCheckpoints, At, StageAt, JournalStep
  <1>7. CASE authorizeSubmittedVtxoCheckpoints(t)
    <2> DEFINE r == [copy[t] EXCEPT !.stage = "checkpoints-authorized"]
    <2>1. copy[t] # NoRec /\ copy[t].stage = "operator-submitted"
      BY <1>7, <1>c, <1>d DEF authorizeSubmittedVtxoCheckpoints, StageAt
    <2>2. r \in PersistedVtxoSpend /\ Grows(copy[t], r) /\ r.receipt = copy[t].receipt
      BY <1>d, <1>g, <1>h, <2>1, UpdatesTyped
    <2>3. r.stage \in StageAt("advance")
      BY <2>2, <1>f DEF PersistedVtxoSpend
    <2>4. Keep(t, r) /\ Goto(t, "advance") /\ used' = used
      BY <1>7 DEF authorizeSubmittedVtxoCheckpoints
    <2> HIDE DEF r
    <2> QED
      BY <1>b, <1>d, <1>e, <2>1, <2>2, <2>3, <2>4, KeepOwned
  <1>8. CASE retainFinalizationRecovery(t)
    <2>1. copy[t] # NoRec /\ copy[t].stage \in StageAt("retained")
      BY <1>8, <1>c DEF retainFinalizationRecovery, At, StageAt
    <2>2. copy' = [copy EXCEPT ![t] = copy[t]] /\ journal'[cur[t]] = copy[t]
      BY <1>8, <1>d, <2>1 DEF retainFinalizationRecovery, IInv, TypeOK, TabTypeOK
    <2> QED
      BY <1>8, <1>b, <1>e, <2>1, <2>2, GotoOwned DEF retainFinalizationRecovery, JournalStep
  <1>9. CASE SendFinalize(t)
    <2>1. copy[t] # NoRec /\ copy[t].stage \in StageAt("finalize")
      BY <1>9, <1>c, <1>d DEF SendFinalize, StageAt
    <2> QED
      BY <1>9, <1>b, <1>e, <2>1, SendOwned DEF SendFinalize, JournalStep
  <1>10. CASE OperatorFinalizedPersist(t)
    <2> DEFINE r == [copy[t] EXCEPT !.stage = "operator-finalized"]
    <2>1. copy[t] # NoRec /\ copy[t].stage = "checkpoints-authorized"
      BY <1>10, <1>c, <1>d DEF OperatorFinalizedPersist, StageAt
    <2>2. r \in PersistedVtxoSpend /\ Grows(copy[t], r) /\ r.receipt = copy[t].receipt
      BY <1>d, <1>g, <1>h, <2>1, UpdatesTyped
    <2>3. r.stage \in StageAt("advance")
      BY <2>2, <1>f DEF PersistedVtxoSpend
    <2>4. Keep(t, r) /\ Goto(t, "advance") /\ used' = used
      BY <1>10 DEF OperatorFinalizedPersist
    <2> HIDE DEF r
    <2> QED
      BY <1>b, <1>d, <1>e, <2>1, <2>2, <2>3, <2>4, KeepOwned
  <1>11. CASE SendReceipt(t)
    BY <1>11, <1>b, <1>c, <1>e, SendOwned DEF SendReceipt, At, StageAt, JournalStep
  <1>12. CASE finalizeVaultOperation(t)
    <2>1. copy[t] # NoRec /\ copy[t].stage \in StageAt("retire")
      BY <1>12, <1>c, <1>d, <1>f DEF finalizeVaultOperation, PersistedVtxoSpend
    <2>2. copy' = [copy EXCEPT ![t] = copy[t]] /\ journal'[cur[t]] = copy[t]
      BY <1>12, <1>d, <2>1 DEF finalizeVaultOperation, IInv, TypeOK, TabTypeOK
    <2> QED
      BY <1>12, <1>b, <1>e, <2>1, <2>2, GotoOwned DEF finalizeVaultOperation, JournalStep
  <1>13. CASE RetireReceipt(t)
    <2> DEFINE r == [copy[t] EXCEPT !.receipt = TRUE]
    <2>1. copy[t] # NoRec /\ guardian[cur[t]] = "finalized"
      BY <1>13 DEF RetireReceipt
    <2>2. r \in PersistedVtxoSpend
      BY <1>d, <2>1, UpdatesTyped DEF Stages
    <2>3. Grows(copy[t], r) /\ r.stage \in StageAt("evidence")
      BY <1>d, <1>f, <2>1 DEF Grows, PersistedVtxoSpend, Stages, VTXO_SPEND_STAGE_RANK
    <2>4. Keep(t, r) /\ Goto(t, "evidence") /\ used' = used
      BY <1>13 DEF RetireReceipt
    <2> HIDE DEF r
    <2> QED
      BY <1>b, <1>d, <1>e, <2>1, <2>2, <2>3, <2>4, KeepOwned
  <1>14. CASE retireFinalizedVtxoSpendLocked(t)
    <2>1. Owned'
      BY <1>14, <1>b, EndTurnOwned DEF retireFinalizedVtxoSpendLocked
    <2> QED
      BY <1>14, <1>b, <2>1 DEF retireFinalizedVtxoSpendLocked, clearPersistedVtxoSpend, JournalStep
  <1> QED
    BY <1>1, <1>2, <1>3, <1>4, <1>5, <1>6, <1>7, <1>8, <1>9, <1>10, <1>11, <1>12,
       <1>13, <1>14 DEF Advancing

(* Waiting for the lock, giving up, failing and crashing keep ownership. *)
LEMMA RemainingOwned ==
    ASSUME IInv, NEW t \in Tabs, withVtxoSendLock(t) \/ GiveUp(t) \/ CallFails(t) \/ Crash(t)
    PROVE  Owned' /\ JournalStep(t)
  <1> USE DEF store, services, JournalStep
  <1>1. CASE withVtxoSendLock(t)
    <2>1. mode[t] = "send" => cur[t] \in Ops
      BY <1>1 DEF withVtxoSendLock, IInv, Working
    <2>2. copy'[t] # NoRec => copy'[t].stage \in StageAt("fetch")
      <3>1. CASE mode[t] = "send"
        BY <1>1, <2>1, <3>1 DEF withVtxoSendLock, IInv, TypeOK, StoreTypeOK, TabTypeOK,
          PersistedVtxoSpend, StageAt
      <3>2. CASE mode[t] # "send"
        BY <1>1, <3>2, NoneInside DEF withVtxoSendLock
      <3> QED
        BY <3>1, <3>2
    <2> QED
      BY <1>1, <2>1, <2>2, NoneInside DEF withVtxoSendLock, IInv, TypeOK, TabTypeOK, Owned, Working,
        CopyIsCurrent, StageIsExpected, Critical, Between, Holding, Calls, Places
  <1>2. CASE GiveUp(t)
    BY <1>2, Locked, EndTurnOwned DEF GiveUp
  <1>3. CASE CallFails(t)
    <2>1. lock = t /\ pc[t] \in Calls /\ cur[t] \in Ops /\ copy[t] # NoRec
      BY <1>3, Locked DEF CallFails, Calls, IInv, Working, Between, Holding
    <2>2. CASE pc[t] = "submit"
      <3>1. Goto(t, "lookup") /\ copy' = copy /\ journal' = journal /\ used' = used
        BY <1>3, <2>2 DEF CallFails
      <3>2. copy[t].stage \in StageAt("lookup")
        BY <2>1, <2>2 DEF IInv, StageIsExpected, StageAt
      <3>3. "lookup" \in Critical \ Between
        BY DEF Critical, Between, Places
      <3>4. copy' = [copy EXCEPT ![t] = copy[t]] /\ journal'[cur[t]] = copy[t]
        BY <2>1, <3>1 DEF IInv, TypeOK, TabTypeOK, CopyIsCurrent
      <3> QED
        BY <2>1, <3>1, <3>2, <3>3, <3>4, GotoOwned
    <2>3. CASE pc[t] # "submit"
      BY <1>3, <2>1, <2>3, EndTurnOwned DEF CallFails
    <2> QED
      BY <2>2, <2>3
  <1>4. CASE Crash(t)
    BY <1>4, ForgetOwned DEF Crash
  <1> QED
    BY <1>1, <1>2, <1>3, <1>4

(* Every step of a tab keeps ownership and changes at most one record. *)
LEMMA TabOwned ==
    ASSUME IInv, NEW t \in Tabs, TabStep(t) PROVE Owned' /\ JournalStep(t)
  BY StartingOwned, SynchronisingOwned, ReservingOwned, AdvancingOwned, RemainingOwned DEF TabStep

(* The services change neither the journal nor the locals of a tab. *)
LEMMA ServicesOwned ==
    ASSUME IInv, ServiceStep PROVE Owned' /\ journal' = journal
  <1>1. UNCHANGED <<journal, lock, pc, mode, want, cur, copy>>
    BY DEF ServiceStep, GuardianReserve, GuardianAbort, GuardianAuthorize, GuardianCheckpoints,
      GuardianReceipt, OperatorSubmit, OperatorFinalize, LoseRequest, GuardianExpire,
      GuardianObserve, captureVaultRecoveryFile, Answer, store, tabVars
  <1> QED
    BY <1>1 DEF IInv, Owned, Working, CopyIsCurrent, StageIsExpected

-------------------------------------------------------------------------------
(* What a step leaves alone *)

Frame(t) ==
    /\ UNCHANGED <<guardian, operator>>
    /\ \A u \in Tabs \ {t} : /\ pc'[u] = pc[u] /\ cur'[u] = cur[u]
                             /\ copy'[u] = copy[u] /\ view'[u] = view[u]
    /\ pc'[t] = "apply" => FetchNext(t) \/ fetchVtxoOperation(t)
    /\ submits' = submits \/ advanceAuthorizedVtxoSpend(t)

(* Moving on leaves other tabs alone and submits nothing. *)
LEMMA MovesFrame ==
    ASSUME TabTypeOK, NEW t \in Tabs, UNCHANGED <<guardian, operator, submits>>,
           \/ Forget(t)
           \/ EndTurn(t)
           \/ \E place \in Places \ {"apply"} : Loop(t, place)
           \/ \E place \in Places \ {"apply"} : Goto(t, place) /\ copy' = copy
           \/ \E place \in Places \ {"apply"}, r \in PersistedVtxoSpend :
                 Goto(t, place) /\ copy' = [copy EXCEPT ![t] = r]
    PROVE  Frame(t)
  BY DEF TabTypeOK, Forget, EndTurn, Release, Loop, Goto, Frame

(* Entering leaves other tabs alone and submits nothing. *)
LEMMA StartingFrame ==
    ASSUME IInv, NEW t \in Tabs, Starting(t) \/ withVtxoSendLock(t) PROVE Frame(t)
  BY DEF IInv, TypeOK, TabTypeOK, services, Starting, StartReserve, StartSend,
    reconcilePersistedVtxoSpend, acknowledgeSpendingVtxoRecovery, withVtxoSendLock, Frame

(* Synchronising leaves other tabs alone and submits nothing. *)
LEMMA SynchronisingFrame ==
    ASSUME IInv, NEW t \in Tabs, Synchronising(t) PROVE Frame(t)
  <1> USE DEF IInv, TypeOK, services
  <1>1. CASE FetchNext(t) \/ fetchVtxoOperation(t)
    BY <1>1 DEF FetchNext, fetchVtxoOperation, TabTypeOK, Frame
  <1>2. CASE ReconcileDone(t) \/ requireReviewedVtxoReservation(t) \/ ViewRefused(t)
    BY <1>2, MovesFrame DEF ReconcileDone, requireReviewedVtxoReservation, ViewRefused, Release
  <1>3. CASE ViewMissing(t) \/ ViewAborted(t)
    <2>1. "sync" \in Places \ {"apply"}
      BY DEF Places
    <2> QED
      BY <1>3, <2>1, MovesFrame DEF ViewMissing, ViewAborted, Release
  <1>4. CASE applyVtxoOperationView(t)
    <2>1. AppliedView(copy[t], view[t]) \in PersistedVtxoSpend
      BY <1>4, AppliedTyped DEF applyVtxoOperationView, TabTypeOK
    <2>2. {"sync", AfterView(t)} \subseteq Places \ {"apply"}
      BY DEF Places, AfterView
    <2> QED
      BY <1>4, <2>1, <2>2, MovesFrame DEF applyVtxoOperationView
  <1> QED
    BY <1>1, <1>2, <1>3, <1>4 DEF Synchronising

(* Preparing leaves other tabs alone and submits nothing. *)
LEMMA ReservingFrame ==
    ASSUME IInv, NEW t \in Tabs, Reserving(t) PROVE Frame(t)
  <1> USE DEF IInv, TypeOK, services
  <1>a. {"replace", "reserve"} \subseteq Places \ {"apply"}
    BY DEF Places, Calls
  <1>1. CASE PrepareRefused(t) \/ JournalFull(t)
    BY <1>1, MovesFrame DEF PrepareRefused, JournalFull, Release
  <1>2. CASE PrepareResume(t)
    BY <1>2, MovesFrame DEF PrepareResume, Release, TabTypeOK, Frame
  <1>3. CASE PrepareReplace(t) \/ AbortPreReserved(t) \/ SendAbort(t)
    BY <1>3 DEF PrepareReplace, AbortPreReserved, SendAbort, TabTypeOK, Frame
  <1>4. CASE abortPersistedVtxoSpend(t)
    BY <1>4, <1>a, MovesFrame DEF abortPersistedVtxoSpend
  <1>5. CASE preReserveVtxoSpend(t)
    BY <1>5 DEF preReserveVtxoSpend, TabTypeOK, Frame
  <1>6. CASE SendReserve(t)
    BY <1>6, <1>a, MovesFrame DEF SendReserve, Send
  <1>7. CASE reservePersistedVtxoSpend(t)
    BY <1>7, MovesFrame DEF reservePersistedVtxoSpend, Release
  <1> QED
    BY <1>1, <1>2, <1>3, <1>4, <1>5, <1>6, <1>7 DEF Reserving

(* Only the first submission of an operation submits. *)
LEMMA AdvancingFrame ==
    ASSUME IInv, NEW t \in Tabs, Advancing(t) PROVE Frame(t)
  <1> USE DEF IInv, TypeOK, services
  <1>a. {"authorize", "submit", "checkpoints", "finalize", "receipt", "advance", "retained",
         "retire", "evidence", "sync"} \subseteq Places \ {"apply"}
    BY DEF Places, Calls
  <1>1. CASE SendAuthorize(t) \/ SendCheckpoints(t) \/ SendFinalize(t) \/ SendReceipt(t)
    BY <1>1, <1>a, MovesFrame DEF SendAuthorize, SendCheckpoints, SendFinalize, SendReceipt, Send
  <1>2. CASE retainFinalizationRecovery(t) \/ finalizeVaultOperation(t)
    BY <1>2, <1>a, MovesFrame DEF retainFinalizationRecovery, finalizeVaultOperation
  <1>3. CASE \/ authorizeReservedVtxoSpend(t) \/ authorizeSubmittedVtxoCheckpoints(t)
             \/ OperatorFinalizedPersist(t) \/ RetireReceipt(t)
             \/ submitAuthorizedVtxoSpendOnce(t) \/ recoverAuthorizedVtxoSpend(t)
    BY <1>3, <1>a DEF authorizeReservedVtxoSpend, authorizeSubmittedVtxoCheckpoints,
      OperatorFinalizedPersist, RetireReceipt, submitAuthorizedVtxoSpendOnce,
      recoverAuthorizedVtxoSpend, persistOperatorSubmission, Keep, Loop, Goto, TabTypeOK, Frame
  <1>4. CASE advanceAuthorizedVtxoSpend(t)
    BY <1>4 DEF advanceAuthorizedVtxoSpend, Send, Keep, Goto, TabTypeOK, Frame
  <1>5. CASE retireFinalizedVtxoSpendLocked(t)
    BY <1>5, MovesFrame DEF retireFinalizedVtxoSpendLocked
  <1> QED
    BY <1>1, <1>2, <1>3, <1>4, <1>5 DEF Advancing

(* What a step of a tab leaves alone. *)
LEMMA TabFrame ==
    ASSUME IInv, NEW t \in Tabs, TabStep(t) PROVE Frame(t)
  <1>1. "lookup" \in Places \ {"apply"}
    BY DEF Places
  <1>2. CASE GiveUp(t) \/ CallFails(t) \/ Crash(t)
    BY <1>1, <1>2, MovesFrame DEF GiveUp, CallFails, Crash, IInv, TypeOK, services
  <1> QED
    BY <1>2, StartingFrame, SynchronisingFrame, ReservingFrame, AdvancingFrame DEF TabStep

-------------------------------------------------------------------------------
(* The journal, the services and the views *)

(* Every change of a stored record is a write-back of the current one. *)
LEMMA RecordsGrow ==
    ASSUME IInv, NEW t \in Tabs, JournalStep(t), NEW o \in Ops,
           journal[o] # NoRec, journal'[o] # NoRec
    PROVE  /\ Grows(journal[o], journal'[o])
           /\ journal'[o].receipt => journal[o].receipt \/ guardian[o] = "finalized"
  <1> USE DEF IInv, TypeOK, StoreTypeOK
  <1>1. CASE journal'[o] = journal[o]
    BY <1>1 DEF Grows, PersistedVtxoSpend, Stages, VTXO_SPEND_STAGE_RANK
  <1>2. CASE journal'[o] # journal[o]
    <2>1. PICK r \in PersistedVtxoSpend : WritesBack(t, r)
      BY <1>2 DEF JournalStep, AttemptIsRecorded
    <2>2. o = cur[t] /\ journal[o] = copy[t] /\ journal'[o] = r
      BY <1>2, <2>1 DEF WritesBack
    <2> QED
      BY <2>1, <2>2 DEF WritesBack
  <1> QED
    BY <1>1, <1>2

(* A submission is recorded before it is sent, and only once. *)
LEMMA SubmissionStep ==
    ASSUME IInv, NEW t \in Tabs, TabStep(t)
    PROVE  AttemptIsRecorded' /\ SubmittedOnce'
  <1> USE DEF IInv, TypeOK, StoreTypeOK, ServiceTypeOK
  <1>1. JournalStep(t) /\ Frame(t)
    BY TabOwned, TabFrame
  <1>2. ASSUME NEW o \in Ops
        PROVE  /\ journal'[o] # NoRec => o \in used'
               /\ o \in used => o \in used'
               /\ journal[o] = NoRec /\ journal'[o] # NoRec => o \notin used
    BY <1>1 DEF JournalStep, WritesBack, AttemptIsRecorded
  <1>3. ASSUME NEW o \in Ops, journal[o] # NoRec, journal'[o] # NoRec, journal[o].attempted
        PROVE  journal'[o].attempted
    BY <1>1, <1>3, RecordsGrow DEF Grows
  <1>4. CASE submits' = submits
    BY <1>2, <1>3, <1>4 DEF AttemptIsRecorded, SubmittedOnce
  <1>5. CASE advanceAuthorizedVtxoSpend(t)
    <2>1. /\ cur[t] \in Ops /\ copy[t] # NoRec /\ journal[cur[t]] = copy[t]
          /\ copy[t] \in PersistedVtxoSpend /\ ~copy[t].attempted
      BY <1>5 DEF advanceAuthorizedVtxoSpend, At, Working, Between, Holding, CopyIsCurrent, TabTypeOK
    <2>2. submits[cur[t]] = 0 /\ cur[t] \in used
      BY <2>1 DEF AttemptIsRecorded
    <2>3. journal'[cur[t]] = [copy[t] EXCEPT !.attempted = TRUE]
      BY <1>5, <2>1 DEF advanceAuthorizedVtxoSpend, Keep, persistVtxoSpend
    <2>4. journal'[cur[t]].attempted
      BY <2>1, <2>3 DEF PersistedVtxoSpend
    <2>5. submits' = [submits EXCEPT ![cur[t]] = submits[cur[t]] + 1]
      BY <1>5, Zenon DEF advanceAuthorizedVtxoSpend
    <2>6. submits'[cur[t]] = 1 /\ \A o \in Ops \ {cur[t]} : submits'[o] = submits[o]
      BY <2>1, <2>2, <2>5
    <2> QED
      BY <1>2, <1>3, <2>2, <2>4, <2>6 DEF AttemptIsRecorded, SubmittedOnce
  <1> QED
    BY <1>1, <1>4, <1>5 DEF Frame

(* A view read while the Guardian has a receipt says so. *)
LEMMA FinalView ==
    ASSUME ServiceTypeOK, NEW o \in Ops, NEW v \in ViewsOf(o) \cup {NoView}
    PROVE  /\ guardian[o] = "finalized" => v.state \in {"error", "finalized"}
           /\ v.state = "finalized" => guardian[o] = "finalized"
  <1> DEFINE states == CASE guardian[o] = "none" -> {"unknown"}
                         [] guardian[o] = "aborted" -> {"unknown", "expired", "aborted"}
                         [] guardian[o] \in {"signed", "submitted"} -> {guardian[o], "unresolved"}
                         [] OTHER -> {guardian[o]}
             proofs == IF guardian[o] \in {"signed", "submitted", "finalized"}
                       THEN BOOLEAN ELSE {FALSE}
  <1>1. /\ guardian[o] = "finalized" => states = {"finalized"}
        /\ guardian[o] # "finalized" => "finalized" \notin states
    BY DEF ServiceTypeOK, GuardianStates
  <1>2. ViewsOf(o) = [state : states, proof : proofs]
    BY DEF ViewsOf
  <1>3. NoView.state = "error"
    BY DEF NoView
  <1> HIDE DEF states, proofs
  <1> QED
    BY <1>1, <1>2, <1>3

(* A confirmed record, and a view of one, stay backed by the services. *)
LEMMA SeenStep ==
    ASSUME IInv, NEW t \in Tabs, TabStep(t)
    PROVE  ConfirmedIsSeen' /\ FinalAtOperator' /\ ConfirmedIsFinal'
  <1> USE DEF IInv, TypeOK, StoreTypeOK
  <1>1. JournalStep(t) /\ Frame(t)
    BY TabOwned, TabFrame
  <1>2. UNCHANGED <<guardian, operator>>
    BY <1>1 DEF Frame
  <1>3. FinalAtOperator'
    BY <1>2 DEF FinalAtOperator
  <1>4. ConfirmedIsFinal'
    <2> SUFFICES ASSUME NEW o \in Ops, journal'[o] # NoRec, journal'[o].receipt
                 PROVE  guardian[o] = "finalized" /\ operator[o] = "finalized"
      BY <1>2 DEF ConfirmedIsFinal, Stored
    <2>1. CASE journal[o] = NoRec
      <3>1. PICK p \in Payments : journal'[o] = NewRecord(p)
        BY <1>1, <2>1 DEF JournalStep, WritesBack
      <3> QED
        BY <3>1 DEF NewRecord
    <2>2. CASE journal[o] # NoRec
      BY <1>1, <2>2, RecordsGrow DEF ConfirmedIsFinal, Stored, FinalAtOperator
    <2> QED
      BY <2>1, <2>2
  <1>5. ConfirmedIsSeen'
    <2> SUFFICES ASSUME NEW u \in Tabs, pc'[u] = "apply"
                 PROVE  /\ copy'[u] # NoRec /\ copy'[u].receipt =>
                              view'[u].state \in {"error", "finalized"}
                        /\ view'[u].state = "finalized" => guardian[cur'[u]] = "finalized"
      BY <1>2 DEF ConfirmedIsSeen
    <2>1. CASE u # t
      BY <1>1, <2>1 DEF Frame, ConfirmedIsSeen
    <2>2. CASE u = t /\ FetchNext(t)
      <3>1. PICK o \in todo[t] :
              /\ cur' = [cur EXCEPT ![t] = o]
              /\ copy' = [copy EXCEPT ![t] = journal[o]]
              /\ \E v \in ViewsOf(o) \cup {NoView} : view' = [view EXCEPT ![t] = v]
        BY <2>2 DEF FetchNext
      <3>2. PICK v \in ViewsOf(o) \cup {NoView} : view' = [view EXCEPT ![t] = v]
        BY <3>1
      <3>3. o \in Ops /\ cur'[t] = o /\ copy'[t] = journal[o] /\ view'[t] = v
        BY <3>1, <3>2 DEF TabTypeOK
      <3>4. journal[o] # NoRec /\ journal[o].receipt => guardian[o] = "finalized"
        BY <3>3 DEF ConfirmedIsFinal, Stored
      <3> QED
        BY <2>2, <3>3, <3>4, FinalView
    <2>3. CASE u = t /\ fetchVtxoOperation(t)
      <3>1. PICK v \in ViewsOf(cur[t]) \cup {NoView} : view' = [view EXCEPT ![t] = v]
        BY <2>3 DEF fetchVtxoOperation
      <3>2. cur[t] \in Ops /\ cur'[t] = cur[t] /\ copy'[t] = copy[t] /\ view'[t] = v
        BY <2>3, <3>1 DEF fetchVtxoOperation, Working, Between, TabTypeOK
      <3>3. copy[t] # NoRec /\ copy[t].receipt => guardian[cur[t]] = "finalized"
        BY <3>2 DEF ConfirmedIsFinal, Stored, CopyIsCurrent
      <3> QED
        BY <2>3, <3>2, <3>3, FinalView
    <2> QED
      BY <1>1, <2>1, <2>2, <2>3 DEF Frame
  <1> QED
    BY <1>3, <1>4, <1>5

(* The steps of the services keep what rests on their states. *)
LEMMA ServicesStep ==
    ASSUME IInv, ServiceStep
    PROVE  /\ AttemptIsRecorded' /\ SubmittedOnce'
           /\ ConfirmedIsSeen' /\ FinalAtOperator' /\ ConfirmedIsFinal'
  <1>1. UNCHANGED <<journal, used, submits, pc, copy, view, cur>>
    BY DEF ServiceStep, GuardianReserve, GuardianAbort, GuardianAuthorize, GuardianCheckpoints,
      GuardianReceipt, OperatorSubmit, OperatorFinalize, LoseRequest, GuardianExpire,
      GuardianObserve, captureVaultRecoveryFile, Answer, store, tabVars
  <1>2. \A o \in Ops : /\ guardian[o] = "finalized" => guardian'[o] = "finalized"
                       /\ operator[o] = "finalized" => operator'[o] = "finalized"
                       /\ guardian'[o] = "finalized" =>
                             guardian[o] = "finalized" \/ operator[o] = "finalized"
    BY DEF IInv, TypeOK, ServiceTypeOK, ServiceStep, GuardianReserve, GuardianAbort,
      GuardianAuthorize, GuardianCheckpoints, GuardianReceipt, OperatorSubmit, OperatorFinalize,
      LoseRequest, GuardianExpire, GuardianObserve, captureVaultRecoveryFile, Requests, services
  <1>3. \A u \in Tabs : pc[u] = "apply" => cur[u] \in Ops
    BY DEF IInv, Working, Between
  <1> QED
    BY <1>1, <1>2, <1>3 DEF IInv, AttemptIsRecorded, SubmittedOnce, ConfirmedIsSeen, FinalAtOperator,
      ConfirmedIsFinal, Stored

-------------------------------------------------------------------------------
(* The theorems *)

(* The initial states satisfy the inductive invariant. *)
LEMMA Initially == Init => IInv
  BY DEF Init, IInv, TypeOK, StoreTypeOK, TabTypeOK, ServiceTypeOK, Places, Modes, Views,
    ViewStates, Failures,
    NoView, GuardianStates, OperatorStates, Working, Between, Holding, Calls, CopyIsCurrent,
    Critical, StageIsExpected, AttemptIsRecorded, SubmittedOnce, ConfirmedIsSeen,
    FinalAtOperator, ConfirmedIsFinal, Stored

(* Every step keeps the inductive invariant. *)
LEMMA Inductive == IInv /\ [Next]_vars => IInv'
  <1> SUFFICES ASSUME IInv, [Next]_vars PROVE IInv'
    OBVIOUS
  <1>1. TypeOK'
    BY NextTyped
  <1>2. ASSUME NEW t \in Tabs, TabStep(t) PROVE IInv'
    BY <1>1, <1>2, TabOwned, SubmissionStep, SeenStep DEF IInv, Owned
  <1>3. CASE ServiceStep
    BY <1>1, <1>3, ServicesOwned, ServicesStep DEF IInv, Owned
  <1>4. CASE UNCHANGED vars
    BY <1>1, <1>4 DEF vars, IInv, Working, CopyIsCurrent, StageIsExpected, AttemptIsRecorded,
      SubmittedOnce, ConfirmedIsSeen, FinalAtOperator, ConfirmedIsFinal, Stored
  <1> QED
    BY <1>2, <1>3, <1>4 DEF Next

(* The inductive invariant holds in every reachable state, for any number  *)
(* of tabs, operations, payments, crashes and requests under way.          *)
THEOREM Invariance == Spec => []IInv
  BY Initially, Inductive, PTL DEF Spec

(* Every variable keeps its type: a record that is written back is always  *)
(* a complete one, whatever the tabs, crashes and late answers do.         *)
THEOREM TypeCorrect == Spec => []TypeOK
  <1>1. IInv => TypeOK
    BY DEF IInv
  <1> QED
    BY <1>1, Invariance, PTL

(* Only the holder of the send lock is inside the critical section, and    *)
(* the record it would write back is the stored one.                       *)
THEOREM LockDiscipline == Spec => []CopyIsCurrent
  <1>1. IInv => CopyIsCurrent
    BY DEF IInv
  <1> QED
    BY <1>1, Invariance, PTL

(* No operation is sent to the Operator twice. *)
THEOREM SubmitsOnce == Spec => []SubmittedOnce
  <1>1. IInv => SubmittedOnce
    BY DEF IInv
  <1> QED
    BY <1>1, Invariance, PTL

(* A record that stopped blocking payments is of a final transaction. *)
THEOREM ConfirmedOnlyWhenFinal == Spec => []ConfirmedIsFinal
  <1>1. IInv => ConfirmedIsFinal
    BY DEF IInv
  <1> QED
    BY <1>1, Invariance, PTL

(* No step of any tab takes evidence out of a record. *)
THEOREM EvidenceNeverLost == Spec => EvidenceGrows
  <1> DEFINE Growing == \A o \in Ops : journal[o] # NoRec /\ journal'[o] # NoRec =>
                                        Grows(journal[o], journal'[o])
  <1>1. IInv /\ [Next]_vars => [Growing]_vars
    <2> SUFFICES ASSUME IInv, Next PROVE Growing
      OBVIOUS
    <2>1. ASSUME NEW t \in Tabs, TabStep(t) PROVE Growing
      BY <2>1, TabOwned, RecordsGrow
    <2>2. CASE ServiceStep
      <3>1. journal' = journal
        BY <2>2, ServicesOwned
      <3>2. \A r \in PersistedVtxoSpend : Grows(r, r)
        BY DEF Grows, PersistedVtxoSpend, Stages, VTXO_SPEND_STAGE_RANK
      <3> QED
        BY <3>1, <3>2 DEF IInv, TypeOK, StoreTypeOK
    <2> QED
      BY <2>1, <2>2 DEF Next
  <1> QED
    BY <1>1, Invariance, PTL DEF Spec, EvidenceGrows
-------------------------------------------------------------------------------
(* Nothing unfinished is lost.  The invariant that it takes relates the    *)
(* requests under way, the answers and the views a tab has, and the        *)
(* records that left the journal to what the services know.                *)

SignedStates == {"signed", "submitted", "finalized"}

Asked(call, o) == [call |-> call, op |-> o] \in net

(* An answer is kept only while it is awaited, and stays true till then.   *)
AnswersHold ==
    \A t \in Tabs :
        /\ answered[t] => pc[t] \in Calls
        /\ pc[t] = "reserve" /\ answered[t] => guardian[cur[t]] # "none"
        /\ pc[t] = "abort" /\ answered[t] => guardian[cur[t]] = "aborted"

(* An operation a tab saw as unknown, expired or aborted is not signed     *)
(* while the tab is about to use what it saw.                              *)
ViewsHold ==
    \A t \in Tabs : pc[t] = "apply" =>
        /\ view[t].state = "unknown" =>
              \/ guardian[cur[t]] = "aborted"
              \/ guardian[cur[t]] \in {"none", "reserved"} /\ ~Asked("authorize", cur[t])
        /\ view[t].state \in {"expired", "aborted"} => guardian[cur[t]] = "aborted"

PlacesHold ==
    \A t \in Tabs :
        /\ pc[t] = "evidence" => copy[t].receipt
        /\ pc[t] = "retained" => cur[t] \in archive

(* A replacement has listed every record that is not finished.             *)
Unfinished(o) == journal[o] # NoRec /\ ~journal[o].receipt

Replacing ==
    \A t \in Tabs, o \in Ops : Unfinished(o) =>
        /\ pc[t] = "replace" => o \in todo[t]
        /\ pc[t] = "abort" => o \in todo[t] \cup {cur[t]}

RecordsHold ==
    \A o \in Ops : journal[o] # NoRec =>
        /\ journal[o].attempted => journal[o].stage \notin {"pre-reserve", "reserved"}
        /\ journal[o].stage # "pre-reserve" => guardian[o] # "none"

RequestsHold ==
    /\ resolved \subseteq used
    /\ \A m \in net : m.op \in used
    /\ \A o \in Ops :
          /\ Asked("authorize", o) => guardian[o] # "none"
          /\ Asked("authorize", o) /\ guardian[o] = "reserved" => journal[o] # NoRec
          /\ (Asked("authorize", o) \/ guardian[o] \in SignedStates) /\ journal[o] # NoRec =>
                journal[o].stage # "pre-reserve"
          /\ Asked("submit", o) => operator[o] = "none" /\ submits[o] > 0
          /\ operator[o] # "none" => submits[o] > 0

(* An operation without a record was retired, and is final if it was sent; *)
(* a retired operation has no record any more.                             *)
Accounted ==
    /\ \A o \in used : journal[o] = NoRec =>
          /\ o \in resolved
          /\ submits[o] > 0 => operator[o] = "finalized"
    /\ \A o \in resolved : journal[o] = NoRec

RInv ==
    /\ IInv
    /\ AnswersHold /\ ViewsHold /\ PlacesHold /\ Replacing /\ RecordsHold
    /\ RequestsHold /\ Accounted /\ UnfinishedRecoverable

(* What a step of a tab does to the journal, to the requests under way and *)
(* to its own locals.                                                      *)
Clearable(t, o) ==
    \/ /\ pc[t] = "apply" /\ o = cur[t] /\ vtxoSpendIsAbortable(journal[o])
       /\ view[t].state \in {"unknown", "expired", "aborted"}
    \/ pc[t] = "replace" /\ journal[o].stage = "pre-reserve"
    \/ pc[t] = "abort" /\ answered[t] /\ o = cur[t] /\ journal[o].stage = "reserved"
    \/ /\ pc[t] = "evidence" /\ o = cur[t] /\ journal[o] = copy[t]
       /\ operator[o] = "finalized"

Clears(t) ==
    /\ net' = net /\ used' = used /\ submits' = submits
    /\ \E o \in Ops :
          /\ journal[o] # NoRec /\ journal' = [journal EXCEPT ![o] = NoRec]
          /\ resolved' = resolved \cup {o} /\ Clearable(t, o)

Moves(t) ==
    /\ resolved' = resolved
    /\ \A o \in Ops : journal[o] # NoRec =>
          /\ journal'[o] # NoRec
          /\ journal'[o] # journal[o] => o = cur[t]
          /\ journal[o].stage = "pre-reserve" /\ journal'[o].stage # "pre-reserve" =>
                pc[t] = "reserve" /\ answered[t]
          /\ journal'[o].attempted => journal[o].attempted \/ journal'[o].stage = "authorized"

Asks(t) ==
    \/ net' = net
    \/ \E call \in Calls :
          /\ net' = net \cup {[call |-> call, op |-> cur'[t]]}
          /\ lock = t /\ cur'[t] \in Ops /\ journal[cur'[t]] # NoRec
          /\ call = "authorize" => journal[cur'[t]].stage = "reserved"
          /\ call = "submit" => advanceAuthorizedVtxoSpend(t)
          /\ call = "finalize" => cur'[t] = cur[t] /\ pc[t] = "retained"

Locals(t) ==
    /\ answered'[t] = FALSE
    /\ \A u \in Tabs \ {t} : answered'[u] = answered[u] /\ todo'[u] = todo[u]
    /\ pc'[t] = "retained" => cur'[t] \in archive'
    /\ pc'[t] = "evidence" => copy'[t].receipt
    /\ \A o \in Ops : Unfinished(o)' =>
          /\ pc'[t] = "replace" => o \in todo'[t]
          /\ pc'[t] = "abort" => o \in todo'[t] \cup {cur'[t]}

(* A new operation is generated only when no other is unfinished.          *)
Generates(t) == used' = used \/ (net' = net /\ \A o \in Ops : ~Unfinished(o))

Effect(t) ==
    /\ Clears(t) \/ Moves(t)
    /\ Asks(t) /\ Locals(t) /\ Generates(t)
    /\ archive \subseteq archive'

(* Ending the work on a record leaves nothing to answer for. *)
LEMMA EndsLocals ==
    ASSUME IInv, NEW t \in Tabs,
           \/ Forget(t) \/ EndTurn(t) \/ Loop(t, "sync")
           \/ \E place \in Places \ {"retained", "evidence", "replace", "abort"} : Goto(t, place)
    PROVE  Locals(t)
  BY DEF IInv, TypeOK, TabTypeOK, Forget, EndTurn, Release, Loop, Goto, Locals

(* A step that writes nothing. *)
LEMMA QuietEffect ==
    ASSUME NEW t \in Tabs, Locals(t), UNCHANGED <<journal, resolved, net, used>>,
           archive \subseteq archive'
    PROVE  Effect(t)
  BY DEF Effect, Moves, Asks, Generates

(* A write-back of the tab's own record. *)
LEMMA WriteMoves ==
    ASSUME IInv, NEW t \in Tabs, copy[t] # NoRec, cur[t] \in Ops, NEW r, r # NoRec,
           journal' = [journal EXCEPT ![cur[t]] = r], resolved' = resolved,
           copy[t].stage = "pre-reserve" /\ r.stage # "pre-reserve" =>
               pc[t] = "reserve" /\ answered[t],
           r.attempted => copy[t].attempted \/ r.stage = "authorized"
    PROVE  Moves(t)
  BY DEF Moves, IInv, CopyIsCurrent, TypeOK, StoreTypeOK

(* Entering and waiting for the lock write nothing. *)
LEMMA StartingEffect ==
    ASSUME RInv, NEW t \in Tabs, Starting(t) \/ withVtxoSendLock(t)
    PROVE  Effect(t)
  <1>1. UNCHANGED <<journal, resolved, archive, net, used>>
    BY DEF Starting, StartReserve, StartSend, reconcilePersistedVtxoSpend,
      acknowledgeSpendingVtxoRecovery, withVtxoSendLock, store
  <1>2. Locals(t)
    <2>1. ~answered[t] /\ answered' = answered
      BY DEF RInv, AnswersHold, Calls, Starting, StartReserve, StartSend,
        reconcilePersistedVtxoSpend, acknowledgeSpendingVtxoRecovery, withVtxoSendLock
    <2>2. /\ \A u \in Tabs \ {t} : todo'[u] = todo[u]
          /\ pc'[t] \in {"locking", "sync", "fetch", "retire"}
      BY DEF RInv, IInv, TypeOK, TabTypeOK, Starting, StartReserve, StartSend,
        reconcilePersistedVtxoSpend, acknowledgeSpendingVtxoRecovery, withVtxoSendLock
    <2> QED
      BY <2>1, <2>2 DEF Locals, RInv, IInv, TypeOK, TabTypeOK
  <1> QED
    BY <1>1, <1>2, QuietEffect

(* The journal of a tab that stops is left as it is. *)
LEMMA StoppingEffect ==
    ASSUME RInv, NEW t \in Tabs, GiveUp(t) \/ CallFails(t) \/ Crash(t)
    PROVE  Effect(t)
  <1>1. "lookup" \in Places \ {"retained", "evidence", "replace", "abort"}
    BY DEF Places
  <1>2. Locals(t)
    BY <1>1, EndsLocals DEF RInv, GiveUp, CallFails, Crash
  <1> QED
    BY <1>2, QuietEffect DEF GiveUp, CallFails, Crash, store

(* A lookup that clears a record does so because nothing was signed. *)
LEMMA SynchronisingEffect ==
    ASSUME RInv, NEW t \in Tabs, Synchronising(t)
    PROVE  Effect(t)
  <1> USE DEF store, services
  <1>a. /\ IInv
        /\ answered[t] => pc[t] \in Calls
        /\ pc[t] = "apply" => cur[t] \in Ops
        /\ copy[t] # NoRec => journal[cur[t]] = copy[t]
    BY DEF RInv, AnswersHold, IInv, Working, Between, CopyIsCurrent
  <1>1. CASE FetchNext(t) \/ fetchVtxoOperation(t)
    <2>1. Locals(t)
      BY <1>1, <1>a DEF FetchNext, fetchVtxoOperation, IInv, TypeOK, TabTypeOK, Locals, Calls
    <2> QED
      BY <1>1, <2>1, QuietEffect DEF FetchNext, fetchVtxoOperation
  <1>2. CASE ReconcileDone(t) \/ requireReviewedVtxoReservation(t) \/ ViewRefused(t)
    <2>1. Locals(t)
      BY <1>2, <1>a, EndsLocals DEF ReconcileDone, requireReviewedVtxoReservation, ViewRefused,
        Release
    <2> QED
      BY <1>2, <2>1, QuietEffect DEF ReconcileDone, requireReviewedVtxoReservation, ViewRefused
  <1>3. CASE ViewMissing(t) \/ ViewAborted(t)
    <2>1. Locals(t)
      BY <1>3, <1>a, EndsLocals DEF ViewMissing, ViewAborted, Release
    <2>2. CASE UNCHANGED <<journal, resolved>>
      BY <1>3, <2>1, <2>2, QuietEffect DEF ViewMissing, ViewAborted
    <2>3. CASE /\ copy[t] # NoRec /\ vtxoSpendIsAbortable(copy[t])
               /\ view[t].state \in {"unknown", "expired", "aborted"}
               /\ clearPersistedVtxoSpend(cur[t])
      <3>1. cur[t] \in Ops /\ journal[cur[t]] = copy[t] /\ pc[t] = "apply"
        BY <1>3, <1>a, <2>3 DEF ViewMissing, ViewAborted
      <3>2. Clears(t)
        BY <1>3, <2>3, <3>1 DEF Clears, Clearable, clearPersistedVtxoSpend, ViewMissing, ViewAborted
      <3> QED
        BY <1>3, <2>1, <3>2 DEF Effect, Asks, Generates, ViewMissing, ViewAborted
    <2> QED
      BY <1>3, <2>2, <2>3 DEF ViewMissing, Gone, ViewAborted
  <1>4. CASE applyVtxoOperationView(t)
    <2> DEFINE r == AppliedView(copy[t], view[t])
    <2>1. copy[t] \in PersistedVtxoSpend /\ view[t] \in Views /\ copy[t] # NoRec /\ cur[t] \in Ops
      BY <1>4, <1>a DEF applyVtxoOperationView, IInv, TypeOK, TabTypeOK
    <2>2. r \in PersistedVtxoSpend /\ r # NoRec
      BY <2>1, AppliedTyped, RecordAssumption
    <2>3. /\ copy[t].stage = "pre-reserve" => r.stage = "pre-reserve"
          /\ r.attempted => copy[t].attempted
      BY <2>1 DEF AppliedView, PersistedVtxoSpend
    <2>4. /\ journal' = [journal EXCEPT ![cur[t]] = r]
          /\ UNCHANGED <<resolved, archive, net, used>>
      BY <1>4 DEF applyVtxoOperationView, persistVtxoSpend
    <2>5. Moves(t)
      <3> HIDE DEF r
      <3> QED
        BY <1>a, <2>1, <2>2, <2>3, <2>4, WriteMoves
    <2>6. AfterView(t) \in Places \ {"retained", "evidence", "replace", "abort"}
      BY DEF AfterView, Places
    <2>7. Locals(t)
      BY <1>4, <1>a, <2>6, EndsLocals DEF applyVtxoOperationView
    <2> QED
      BY <2>4, <2>5, <2>7 DEF Effect, Asks, Generates
  <1> QED
    BY <1>1, <1>2, <1>3, <1>4 DEF Synchronising

(* What a preparation decides from.  A record that is not finished can be  *)
(* aborted or is live; none is live when a payment is replaced.            *)
LEMMA Decided ==
    ASSUME RInv, NEW p, vtxoJournalSendAction(p) \in {"start", "abort-reserved"}
    PROVE  /\ LiveOps = {}
           /\ vtxoJournalSendAction(p) = "start" => AbortableOps = {}
           /\ \A o \in Ops : Unfinished(o) => o \in AbortableOps \cup LiveOps
  <1> DEFINE matching == {o \in Open : journal[o].pay = p}
  <1>1. matching = {}
    BY DEF vtxoJournalSendAction
  <1>2. vtxoJournalSendAction(p) =
          IF \E o \in LiveOps : matching # {} => matching # {o} THEN "live-pending"
          ELSE IF matching # {}
               THEN IF \E m \in matching : \/ journal[m].attempted
                                           \/ VTXO_SPEND_STAGE_RANK[journal[m].stage] >= 2
                    THEN "warn" ELSE "resume"
          ELSE IF AbortableOps # {} THEN "abort-reserved"
          ELSE "start"
    BY DEF vtxoJournalSendAction
  <1>3. LiveOps = {} /\ (vtxoJournalSendAction(p) = "start" => AbortableOps = {})
    <2> HIDE DEF matching
    <2> QED
      BY <1>1, <1>2
  <1>4. \A o \in Ops : Unfinished(o) => o \in AbortableOps \cup LiveOps
    BY DEF RInv, IInv, TypeOK, StoreTypeOK, Unfinished, AbortableOps, LiveOps, Open, Stored,
      vtxoSpendIsAbortable, vtxoSpendIsLivePending, PersistedVtxoSpend, Stages,
      VTXO_SPEND_STAGE_RANK
  <1> QED
    BY <1>3, <1>4

(* A request about the record in memory. *)
LEMMA SendEffect ==
    ASSUME IInv, NEW t \in Tabs, NEW call \in Calls \ {"abort"}, Send(t, call), lock = t,
           cur[t] \in Ops, journal[cur[t]] # NoRec,
           call = "authorize" => journal[cur[t]].stage = "reserved",
           call = "submit" => advanceAuthorizedVtxoSpend(t),
           call = "finalize" => pc[t] = "retained"
    PROVE  Asks(t) /\ Locals(t)
  <1>1. call \in Places \ {"retained", "evidence", "replace", "abort"}
    BY DEF Calls, Places
  <1>2. Locals(t)
    BY <1>1, EndsLocals DEF Send
  <1>3. cur' = cur /\ net' = net \cup {[call |-> call, op |-> cur[t]]}
    BY DEF Send, Goto, Post
  <1> QED
    BY <1>2, <1>3 DEF Asks

(* A replacement aborts what it listed, and a new operation is generated   *)
(* when nothing unfinished is left.                                        *)
LEMMA ReservingEffect ==
    ASSUME RInv, NEW t \in Tabs, Reserving(t)
    PROVE  Effect(t)
  <1> USE DEF store, services
  <1>a. /\ IInv
        /\ answered[t] => pc[t] \in Calls
        /\ pc[t] \in {"abort", "advance", "reserve"} =>
              /\ cur[t] \in Ops /\ copy[t] # NoRec /\ journal[cur[t]] = copy[t]
              /\ copy[t] \in PersistedVtxoSpend
    BY DEF RInv, AnswersHold, IInv, Working, Between, Holding, Calls, CopyIsCurrent, TypeOK,
      TabTypeOK
  <1>b. pc[t] \notin {"idle", "locking"}
    BY DEF Reserving, PrepareRefused, PrepareResume, PrepareReplace, AbortPreReserved, SendAbort,
      abortPersistedVtxoSpend, preReserveVtxoSpend, JournalFull, SendReserve,
      reservePersistedVtxoSpend, Deciding, Beginning
  <1>c. lock = t
    BY <1>a, <1>b, Locked
  <1>d. pc[t] \in {"sync", "replace"} => ~answered[t]
    BY <1>a DEF Calls
  <1>e. answered \in [Tabs -> BOOLEAN] /\ pc \in [Tabs -> Places] /\ todo \in [Tabs -> SUBSET Ops]
    BY <1>a DEF IInv, TypeOK, TabTypeOK
  <1>1. CASE PrepareRefused(t) \/ JournalFull(t)
    <2>1. Locals(t)
      BY <1>1, <1>a, EndsLocals DEF PrepareRefused, JournalFull, Release
    <2> QED
      BY <1>1, <2>1, QuietEffect DEF PrepareRefused, JournalFull
  <1>2. CASE PrepareResume(t)
    <2>1. CASE Release(t)
      <3>1. Locals(t)
        BY <1>a, <2>1, EndsLocals DEF Release
      <3> QED
        BY <1>2, <3>1, QuietEffect DEF PrepareResume
    <2>2. CASE pc' = [pc EXCEPT ![t] = "advance"] /\ UNCHANGED <<todo, answered>>
      <3>1. Locals(t)
        BY <1>2, <1>d, <1>e, <2>2 DEF PrepareResume, Deciding, Locals
      <3> QED
        BY <1>2, <3>1, QuietEffect DEF PrepareResume
    <2> QED
      BY <1>2, <2>1, <2>2 DEF PrepareResume
  <1>3. CASE PrepareReplace(t)
    <2>1. /\ pc[t] = "sync" /\ pc' = [pc EXCEPT ![t] = "replace"]
          /\ todo' = [todo EXCEPT ![t] = AbortableOps]
          /\ UNCHANGED <<journal, resolved, archive, net, used, answered>>
      BY <1>3 DEF PrepareReplace, Deciding
    <2>2. \A o \in Ops : Unfinished(o) => o \in AbortableOps
      BY <1>3, Decided DEF PrepareReplace
    <2>3. Locals(t)
      BY <1>d, <1>e, <2>1, <2>2 DEF Locals, Unfinished
    <2> QED
      BY <2>1, <2>3, QuietEffect
  <1>4. CASE AbortPreReserved(t)
    <2>1. PICK o \in todo[t] : /\ journal[o] # NoRec /\ journal[o].stage = "pre-reserve"
                               /\ journal' = [journal EXCEPT ![o] = NoRec]
                               /\ resolved' = resolved \cup {o}
                               /\ todo' = [todo EXCEPT ![t] = todo[t] \ {o}]
      BY <1>4 DEF AbortPreReserved, clearPersistedVtxoSpend
    <2>2. /\ pc[t] = "replace" /\ o \in Ops
          /\ UNCHANGED <<archive, pc, cur, copy, answered, net, used, submits>>
      BY <1>4, <1>e DEF AbortPreReserved
    <2>3. Clears(t)
      BY <2>1, <2>2 DEF Clears, Clearable
    <2>4. \A x \in Ops : Unfinished(x)' => x # o /\ Unfinished(x)
      BY <2>1, <1>a DEF Unfinished, IInv, TypeOK, StoreTypeOK
    <2>5. \A x \in Ops : Unfinished(x)' => x \in todo'[t]
      BY <2>1, <2>2, <2>4, <1>e DEF RInv, Replacing
    <2>6. Locals(t)
      BY <1>d, <1>e, <2>1, <2>2, <2>5 DEF Locals
    <2> QED
      BY <2>2, <2>3, <2>6 DEF Effect, Asks, Generates
  <1>5. CASE SendAbort(t)
    <2>1. PICK o \in todo[t] : /\ journal[o] # NoRec
                               /\ cur' = [cur EXCEPT ![t] = o]
                               /\ todo' = [todo EXCEPT ![t] = todo[t] \ {o}]
                               /\ net' = net \cup {[call |-> "abort", op |-> o]}
      BY <1>5 DEF SendAbort, Post
    <2>2. /\ pc[t] = "replace" /\ o \in Ops /\ pc' = [pc EXCEPT ![t] = "abort"]
          /\ UNCHANGED <<journal, resolved, archive, answered, used, submits>>
      BY <1>5, <1>e DEF SendAbort
    <2>3. cur'[t] = o /\ "abort" \in Calls
      BY <1>a, <2>1 DEF IInv, TypeOK, TabTypeOK, Calls
    <2>4. \A x \in Ops : Unfinished(x)' => x \in todo'[t] \cup {o}
      BY <1>e, <2>1, <2>2 DEF RInv, Replacing, Unfinished
    <2>5. Locals(t)
      BY <1>d, <1>e, <2>1, <2>2, <2>3, <2>4 DEF Locals
    <2>6. Asks(t)
      BY <1>c, <2>1, <2>2, <2>3 DEF Asks
    <2> QED
      BY <2>2, <2>5, <2>6 DEF Effect, Moves, Generates
  <1>6. CASE abortPersistedVtxoSpend(t)
    <2>1. /\ pc[t] = "abort" /\ answered[t] /\ journal' = [journal EXCEPT ![cur[t]] = NoRec]
          /\ resolved' = resolved \cup {cur[t]} /\ Loop(t, "replace")
          /\ UNCHANGED <<archive, net, used, submits>>
      BY <1>6 DEF abortPersistedVtxoSpend, clearPersistedVtxoSpend
    <2>2. journal[cur[t]].stage = "reserved"
      BY <1>a, <2>1 DEF IInv, StageIsExpected, StageAt
    <2>3. Clears(t)
      BY <1>a, <2>1, <2>2 DEF Clears, Clearable
    <2>4. \A x \in Ops : Unfinished(x)' => x # cur[t] /\ Unfinished(x)
      BY <1>a, <2>1 DEF Unfinished, IInv, TypeOK, StoreTypeOK
    <2>5. \A x \in Ops : Unfinished(x)' => x \in todo[t]
      BY <2>1, <2>4 DEF RInv, Replacing
    <2>6. Locals(t)
      BY <1>e, <2>1, <2>5 DEF Locals, Loop
    <2> QED
      BY <2>1, <2>3, <2>6 DEF Effect, Asks, Generates
  <1>7. CASE preReserveVtxoSpend(t)
    <2>1. PICK o \in Ops \ used : journal' = [journal EXCEPT ![o] = NewRecord(want[t])]
      BY <1>7 DEF preReserveVtxoSpend, persistVtxoSpend
    <2>2. /\ Beginning(t) /\ pc' = [pc EXCEPT ![t] = "advance"]
          /\ UNCHANGED <<resolved, archive, answered, todo, net, submits>>
      BY <1>7 DEF preReserveVtxoSpend
    <2>3. Moves(t)
      BY <1>a, <2>1, <2>2 DEF Moves, IInv, AttemptIsRecorded, TypeOK, StoreTypeOK
    <2>4. \A x \in Ops : ~Unfinished(x)
      BY <2>2, Decided DEF Beginning, RInv, Replacing
    <2>5. Locals(t)
      BY <1>d, <1>e, <2>2 DEF Locals, Beginning, Deciding
    <2> QED
      BY <2>2, <2>3, <2>4, <2>5 DEF Effect, Asks, Generates
  <1>8. CASE SendReserve(t)
    <2>1. "reserve" \in Calls \ {"abort"}
      BY DEF Calls
    <2>2. Asks(t) /\ Locals(t)
      BY <1>8, <1>a, <1>c, <2>1, SendEffect DEF SendReserve
    <2> QED
      BY <1>8, <2>2 DEF SendReserve, Effect, Moves, Generates
  <1>9. CASE reservePersistedVtxoSpend(t)
    <2>1. PICK r : r = [copy[t] EXCEPT !.stage = "reserved"]
      OBVIOUS
    <2>2. /\ pc[t] = "reserve" /\ answered[t] /\ journal' = [journal EXCEPT ![cur[t]] = r]
          /\ Forget(t) /\ UNCHANGED <<resolved, archive, net, used>>
      BY <1>9, <2>1 DEF reservePersistedVtxoSpend, persistVtxoSpend, Release
    <2>3. r \in PersistedVtxoSpend /\ r.attempted = copy[t].attempted /\ r # NoRec
      BY <1>a, <2>1, <2>2, RecordAssumption DEF PersistedVtxoSpend, Stages
    <2>4. Moves(t)
      BY <1>a, <2>2, <2>3, WriteMoves
    <2>5. Locals(t)
      BY <1>a, <2>2, EndsLocals
    <2> QED
      BY <2>2, <2>4, <2>5 DEF Effect, Asks, Generates
  <1> QED
    BY <1>1, <1>2, <1>3, <1>4, <1>5, <1>6, <1>7, <1>8, <1>9 DEF Reserving

(* Keeping a record that is only further on. *)
LEMMA KeepEffect ==
    ASSUME IInv, NEW t \in Tabs, copy[t] # NoRec, cur[t] \in Ops,
           NEW r \in PersistedVtxoSpend,
           journal' = [journal EXCEPT ![cur[t]] = r],
           UNCHANGED <<resolved, archive, net, used>>,
           copy[t].stage = "pre-reserve" => r.stage = "pre-reserve",
           r.attempted => copy[t].attempted,
           Locals(t)
    PROVE  Effect(t)
  BY WriteMoves, RecordAssumption DEF Effect, Asks, Generates

(* An operation is advanced by what its record already holds. *)
LEMMA AdvancingEffect ==
    ASSUME RInv, NEW t \in Tabs, Advancing(t)
    PROVE  Effect(t)
  <1> USE DEF store, services
  <1>a. /\ IInv
        /\ answered[t] => pc[t] \in Calls
    BY DEF RInv, AnswersHold
  <1>b. pc[t] \in {"advance", "lookup", "retained", "retire", "evidence"} \cup Calls
    BY DEF Advancing, SendAuthorize, authorizeReservedVtxoSpend, advanceAuthorizedVtxoSpend,
      submitAuthorizedVtxoSpendOnce, recoverAuthorizedVtxoSpend, SendCheckpoints,
      authorizeSubmittedVtxoCheckpoints, retainFinalizationRecovery, SendFinalize,
      OperatorFinalizedPersist, SendReceipt, finalizeVaultOperation, RetireReceipt,
      retireFinalizedVtxoSpendLocked, At, Calls
  <1>c. pc[t] = "retire" => copy[t] # NoRec
    BY <1>a, <1>b DEF Advancing, RetireReceipt, SendAuthorize, authorizeReservedVtxoSpend, advanceAuthorizedVtxoSpend,
      submitAuthorizedVtxoSpendOnce, recoverAuthorizedVtxoSpend, SendCheckpoints,
      authorizeSubmittedVtxoCheckpoints, retainFinalizationRecovery, SendFinalize,
      OperatorFinalizedPersist, SendReceipt, finalizeVaultOperation,
      retireFinalizedVtxoSpendLocked, At
  <1>d. /\ lock = t /\ cur[t] \in Ops /\ copy[t] # NoRec /\ copy[t] \in PersistedVtxoSpend
        /\ journal[cur[t]] = copy[t]
    <2>1. pc[t] \notin Between
      BY <1>b DEF Between, Calls
    <2>2. copy[t] # NoRec
      BY <1>a, <1>b, <1>c DEF IInv, Working, Holding
    <2> QED
      BY <1>a, <2>1, <2>2, Locked DEF IInv, Working, Between, CopyIsCurrent, TypeOK, TabTypeOK
  <1>e. /\ {"authorize", "submit", "checkpoints", "finalize", "receipt"} \subseteq Calls \ {"abort"}
        /\ {"advance", "retire", "sync"} \subseteq Places \ {"retained", "evidence", "replace", "abort"}
    BY DEF Calls, Places
  <1>f. \A r \in PersistedVtxoSpend : r.stage \in Stages
    BY DEF PersistedVtxoSpend
  <1>1. CASE SendAuthorize(t) \/ SendCheckpoints(t) \/ SendFinalize(t) \/ SendReceipt(t)
    <2>1. Asks(t) /\ Locals(t)
      BY <1>1, <1>a, <1>d, <1>e, SendEffect DEF SendAuthorize, SendCheckpoints, SendFinalize,
        SendReceipt, At
    <2> QED
      BY <1>1, <2>1 DEF SendAuthorize, SendCheckpoints, SendFinalize, SendReceipt, Effect, Moves,
        Generates
  <1>2. CASE authorizeReservedVtxoSpend(t)
    <2>1. PICK r \in PersistedVtxoSpend : r = [copy[t] EXCEPT !.stage = "authorized", !.proof = TRUE]
      BY <1>d, UpdatesTyped DEF Stages
    <2>2. /\ journal' = [journal EXCEPT ![cur[t]] = r] /\ Goto(t, "advance")
          /\ UNCHANGED <<resolved, archive, net, used>> /\ pc[t] = "authorize"
      BY <1>2, <2>1 DEF authorizeReservedVtxoSpend, Keep, persistVtxoSpend
    <2>3. copy[t].stage # "pre-reserve" /\ r.attempted = copy[t].attempted
      BY <1>a, <1>d, <2>1, <2>2 DEF PersistedVtxoSpend, IInv, StageIsExpected, StageAt
    <2>4. Locals(t)
      BY <1>a, <1>e, <2>2, EndsLocals
    <2> QED
      BY <1>a, <1>d, <2>2, <2>3, <2>4, KeepEffect
  <1>3. CASE advanceAuthorizedVtxoSpend(t)
    <2>1. PICK r \in PersistedVtxoSpend : r = [copy[t] EXCEPT !.attempted = TRUE]
      BY <1>d, UpdatesTyped DEF Stages
    <2>2. /\ journal' = [journal EXCEPT ![cur[t]] = r] /\ Send(t, "submit")
          /\ UNCHANGED <<resolved, archive, used>> /\ copy[t].stage = "authorized"
      BY <1>3, <2>1 DEF advanceAuthorizedVtxoSpend, Keep, persistVtxoSpend, At
    <2>3. r.stage = "authorized"
      BY <1>d, <2>1, <2>2 DEF PersistedVtxoSpend
    <2>4. Moves(t)
      BY <1>a, <1>d, <2>2, <2>3, WriteMoves, RecordAssumption
    <2>5. Asks(t) /\ Locals(t)
      BY <1>3, <1>a, <1>d, <1>e, <2>2, SendEffect
    <2> QED
      BY <2>2, <2>4, <2>5 DEF Effect, Generates
  <1>4. CASE submitAuthorizedVtxoSpendOnce(t) \/ recoverAuthorizedVtxoSpend(t)
    <2>1. PICK r \in PersistedVtxoSpend :
             r = [copy[t] EXCEPT !.stage = "operator-submitted", !.operatorArk = TRUE]
      BY <1>d, UpdatesTyped DEF Stages
    <2>2. /\ journal' = [journal EXCEPT ![cur[t]] = r]
          /\ EndTurn(t) \/ Loop(t, "sync") \/ Goto(t, "advance")
          /\ UNCHANGED <<resolved, archive, net, used>>
      BY <1>4, <2>1 DEF submitAuthorizedVtxoSpendOnce, recoverAuthorizedVtxoSpend,
        persistOperatorSubmission, persistVtxoSpend
    <2>3. copy[t].stage # "pre-reserve"
      BY <1>4, <1>a, <1>d DEF IInv, StageIsExpected, StageAt, At, submitAuthorizedVtxoSpendOnce,
        recoverAuthorizedVtxoSpend
    <2>4. r.attempted = copy[t].attempted
      BY <1>d, <2>1 DEF PersistedVtxoSpend
    <2>5. Locals(t)
      BY <1>a, <1>e, <2>2, EndsLocals
    <2> QED
      BY <1>a, <1>d, <2>2, <2>3, <2>4, <2>5, KeepEffect
  <1>5. CASE authorizeSubmittedVtxoCheckpoints(t) \/ OperatorFinalizedPersist(t)
    <2>1. PICK s \in Stages \ {"pre-reserve"} :
             Keep(t, [copy[t] EXCEPT !.stage = s]) /\ Goto(t, "advance")
      BY <1>5 DEF authorizeSubmittedVtxoCheckpoints, OperatorFinalizedPersist, Stages
    <2>2. PICK r \in PersistedVtxoSpend : r = [copy[t] EXCEPT !.stage = s]
      BY <1>d, UpdatesTyped
    <2>3. /\ journal' = [journal EXCEPT ![cur[t]] = r]
          /\ UNCHANGED <<resolved, archive, net, used>>
      BY <1>5, <2>1, <2>2 DEF authorizeSubmittedVtxoCheckpoints, OperatorFinalizedPersist, Keep,
        persistVtxoSpend
    <2>4. copy[t].stage # "pre-reserve"
      BY <1>5, <1>a, <1>d DEF IInv, StageIsExpected, StageAt, authorizeSubmittedVtxoCheckpoints,
        OperatorFinalizedPersist
    <2>5. r.attempted = copy[t].attempted
      BY <1>d, <2>2 DEF PersistedVtxoSpend
    <2>6. Locals(t)
      BY <1>a, <1>e, <2>1, EndsLocals
    <2> QED
      BY <1>a, <1>d, <2>3, <2>4, <2>5, <2>6, KeepEffect
  <1>6. CASE retainFinalizationRecovery(t)
    <2>1. /\ archive' = archive \cup {cur[t]} /\ Goto(t, "retained")
          /\ UNCHANGED <<journal, resolved, net, used>>
      BY <1>6 DEF retainFinalizationRecovery
    <2>2. Locals(t)
      BY <1>a, <2>1 DEF Locals, Goto, IInv, TypeOK, TabTypeOK
    <2> QED
      BY <2>1, <2>2, QuietEffect
  <1>7. CASE finalizeVaultOperation(t)
    <2>1. Locals(t)
      BY <1>7, <1>a, <1>e, EndsLocals DEF finalizeVaultOperation
    <2> QED
      BY <1>7, <2>1, QuietEffect DEF finalizeVaultOperation
  <1>8. CASE RetireReceipt(t)
    <2>1. PICK r \in PersistedVtxoSpend : r = [copy[t] EXCEPT !.receipt = TRUE]
      BY <1>d, UpdatesTyped DEF Stages
    <2>2. /\ journal' = [journal EXCEPT ![cur[t]] = r] /\ copy' = [copy EXCEPT ![t] = r]
          /\ UNCHANGED <<resolved, archive, net, used>> /\ Goto(t, "evidence")
          /\ copy[t].stage # "pre-reserve"
      BY <1>8, <2>1 DEF RetireReceipt, Keep, persistVtxoSpend
    <2>3. r.attempted = copy[t].attempted /\ r.receipt
      BY <1>d, <2>1 DEF PersistedVtxoSpend
    <2>4. Locals(t)
      BY <1>a, <2>2, <2>3 DEF Locals, Goto, IInv, TypeOK, TabTypeOK
    <2> QED
      BY <1>a, <1>d, <2>2, <2>3, <2>4, KeepEffect
  <1>9. CASE retireFinalizedVtxoSpendLocked(t)
    <2>1. /\ pc[t] = "evidence" /\ operator[cur[t]] = "finalized" /\ journal[cur[t]] = copy[t]
          /\ journal' = [journal EXCEPT ![cur[t]] = NoRec]
          /\ resolved' = resolved \cup {cur[t]} /\ EndTurn(t)
          /\ UNCHANGED <<archive, net, used, submits>>
      BY <1>9 DEF retireFinalizedVtxoSpendLocked, clearPersistedVtxoSpend
    <2>2. Clears(t)
      BY <1>d, <2>1 DEF Clears, Clearable
    <2>3. Locals(t)
      BY <1>a, <2>1, EndsLocals
    <2> QED
      BY <2>1, <2>2, <2>3 DEF Effect, Asks, Generates
  <1> QED
    BY <1>1, <1>2, <1>3, <1>4, <1>5, <1>6, <1>7, <1>8, <1>9 DEF Advancing

(* The effect of a step of a tab. *)
LEMMA TabEffect ==
    ASSUME RInv, NEW t \in Tabs, TabStep(t)
    PROVE  Effect(t)
  BY StartingEffect, SynchronisingEffect, ReservingEffect, AdvancingEffect, StoppingEffect DEF TabStep
-------------------------------------------------------------------------------
(* A step of a tab keeps everything recoverable *)

(* A record that is cleared was never going to be needed again. *)
LEMMA ClearedFacts ==
    ASSUME RInv, NEW t \in Tabs, NEW o \in Ops, journal[o] # NoRec, Clearable(t, o)
    PROVE  /\ submits[o] > 0 => operator[o] = "finalized"
           /\ operator[o] # "pending" /\ ~Asked("submit", o)
           /\ guardian[o] \in SignedStates => guardian[o] = "finalized" /\ operator[o] = "finalized"
           /\ Asked("authorize", o) => guardian[o] # "reserved"
  <1>a. /\ submits[o] > 0 => journal[o].attempted
        /\ Asked("submit", o) \/ operator[o] # "none" => submits[o] > 0
        /\ journal[o].attempted => journal[o].stage \notin {"pre-reserve", "reserved"}
        /\ Asked("submit", o) => operator[o] = "none"
        /\ Asked("authorize", o) \/ guardian[o] \in SignedStates => journal[o].stage # "pre-reserve"
        /\ journal[o].receipt => guardian[o] = "finalized" /\ operator[o] = "finalized"
    BY DEF RInv, IInv, AttemptIsRecorded, RecordsHold, RequestsHold, ConfirmedIsFinal, Stored
  <1>b. operator[o] \in {"none", "pending", "finalized"}
    BY DEF RInv, IInv, TypeOK, ServiceTypeOK, OperatorStates
  <1>1. CASE /\ pc[t] = "apply" /\ o = cur[t] /\ vtxoSpendIsAbortable(journal[o])
             /\ view[t].state \in {"unknown", "expired", "aborted"}
    <2>1. CASE view[t].state = "unknown"
      <3>1. \/ guardian[cur[t]] = "aborted"
            \/ guardian[cur[t]] \in {"none", "reserved"} /\ ~Asked("authorize", cur[t])
        BY <1>1, <2>1 DEF RInv, ViewsHold
      <3> QED
        BY <1>a, <1>1, <3>1 DEF vtxoSpendIsAbortable, SignedStates
    <2>2. CASE view[t].state \in {"expired", "aborted"}
      <3>1. guardian[cur[t]] = "aborted"
        BY <1>1, <2>2 DEF RInv, ViewsHold
      <3> QED
        BY <1>a, <1>1, <3>1 DEF vtxoSpendIsAbortable, SignedStates
    <2> QED
      BY <1>1, <2>1, <2>2
  <1>2. CASE pc[t] = "replace" /\ journal[o].stage = "pre-reserve"
    BY <1>a, <1>2
  <1>3. CASE pc[t] = "abort" /\ answered[t] /\ o = cur[t] /\ journal[o].stage = "reserved"
    <2>1. guardian[o] = "aborted"
      BY <1>3 DEF RInv, AnswersHold
    <2> QED
      BY <1>a, <1>3, <2>1 DEF SignedStates
  <1>4. CASE /\ pc[t] = "evidence" /\ o = cur[t] /\ journal[o] = copy[t]
             /\ operator[o] = "finalized"
    <2>1. journal[o].receipt
      BY <1>4 DEF RInv, PlacesHold
    <2> QED
      BY <1>a, <1>4, <2>1
  <1> QED
    BY <1>1, <1>2, <1>3, <1>4 DEF Clearable

(* What a step of a tab does to any one operation. *)
OneRecord(t, o) ==
    /\ o \in used => o \in used'
    /\ o \in resolved => o \in resolved'
    /\ submits'[o] \in Nat /\ submits'[o] >= submits[o]
    /\ submits'[o] # submits[o] => journal[o] # NoRec
    /\ journal[o] = NoRec /\ journal'[o] # NoRec =>
          o \notin used /\ journal'[o].stage = "pre-reserve" /\ ~journal'[o].attempted
    /\ o \in used' /\ o \notin used => journal'[o] # NoRec
    /\ journal[o] # NoRec /\ journal'[o] = NoRec =>
          o \in resolved' /\ submits' = submits /\ net' = net /\ Clearable(t, o)
    /\ o \in resolved' /\ o \notin resolved => journal'[o] = NoRec
    /\ journal[o] # NoRec /\ journal'[o] # NoRec =>
          /\ Grows(journal[o], journal'[o])
          /\ journal[o].stage = "pre-reserve" /\ journal'[o].stage # "pre-reserve" =>
                pc[t] = "reserve" /\ answered[t] /\ o = cur[t]
          /\ journal'[o].attempted => journal[o].attempted \/ journal'[o].stage = "authorized"

(* The steps of a tab, seen from one operation. *)
LEMMA TabOneRecord ==
    ASSUME RInv, NEW t \in Tabs, TabStep(t), NEW o \in Ops
    PROVE  OneRecord(t, o)
  <1>a. IInv /\ JournalStep(t) /\ Frame(t) /\ Effect(t)
    BY TabOwned, TabFrame, TabEffect DEF RInv
  <1>b. /\ journal \in [Ops -> PersistedVtxoSpend \cup {NoRec}] /\ submits \in [Ops -> Nat]
        /\ submits' \in [Ops -> Nat]
        /\ \A x \in Ops : journal[x] # NoRec => x \in used
    BY <1>a, NextTyped DEF IInv, TypeOK, StoreTypeOK, ServiceTypeOK, AttemptIsRecorded, Next
  <1>1. o \in used => o \in used'
    BY <1>a DEF JournalStep, WritesBack
  <1>2. o \in resolved => o \in resolved'
    BY <1>a DEF Effect, Clears, Moves
  <1>3. /\ submits'[o] \in Nat /\ submits'[o] >= submits[o]
        /\ submits'[o] # submits[o] => journal[o] # NoRec
    <2>1. CASE submits' = submits
      BY <1>b, <2>1
    <2>2. CASE advanceAuthorizedVtxoSpend(t)
      <3>1. journal[cur[t]] # NoRec /\ cur[t] \in Ops
        BY <1>a, <2>2 DEF advanceAuthorizedVtxoSpend, At, IInv, Working, Holding, Between,
          CopyIsCurrent
      <3>2. submits' = [submits EXCEPT ![cur[t]] = submits[cur[t]] + 1]
        BY <2>2, Zenon DEF advanceAuthorizedVtxoSpend
      <3> QED
        BY <1>b, <3>1, <3>2
    <2> QED
      BY <1>a, <2>1, <2>2 DEF Frame
  <1>4. journal[o] = NoRec /\ journal'[o] # NoRec =>
          o \notin used /\ journal'[o].stage = "pre-reserve" /\ ~journal'[o].attempted
    BY <1>a, <1>b DEF JournalStep, WritesBack, NewRecord
  <1>5. o \in used' /\ o \notin used => journal'[o] # NoRec
    <2> SUFFICES ASSUME o \in used', o \notin used PROVE journal'[o] # NoRec
      OBVIOUS
    <2>1. PICK p \in Payments : journal'[o] = NewRecord(p)
      BY <1>a, <1>b DEF JournalStep, WritesBack
    <2>2. NewRecord(p) \in PersistedVtxoSpend
      BY DEF NewRecord, PersistedVtxoSpend, Stages
    <2> QED
      BY <2>1, <2>2, RecordAssumption
  <1>6. journal[o] # NoRec /\ journal'[o] = NoRec =>
          o \in resolved' /\ submits' = submits /\ net' = net /\ Clearable(t, o)
    BY <1>a, <1>b DEF Effect, Clears, Moves
  <1>7. ASSUME journal[o] # NoRec, journal'[o] # NoRec
        PROVE  /\ Grows(journal[o], journal'[o])
               /\ journal[o].stage = "pre-reserve" /\ journal'[o].stage # "pre-reserve" =>
                     pc[t] = "reserve" /\ answered[t] /\ o = cur[t]
               /\ journal'[o].attempted => journal[o].attempted \/ journal'[o].stage = "authorized"
    <2>1. Grows(journal[o], journal'[o])
      BY <1>a, <1>7, RecordsGrow
    <2>2. journal'[o] = journal[o] \/ Moves(t)
      BY <1>a, <1>b, <1>7 DEF Effect, Clears
    <2> QED
      BY <1>7, <2>1, <2>2 DEF Moves
  <1>8. o \in resolved' /\ o \notin resolved => journal'[o] = NoRec
    BY <1>a, <1>b DEF Effect, Clears, Moves
  <1> QED
    BY <1>1, <1>2, <1>3, <1>4, <1>5, <1>6, <1>7, <1>8 DEF OneRecord

(* A tab outside the critical section writes no record. *)
LEMMA OutsideWritesNothing ==
    ASSUME IInv, NEW t \in Tabs, TabStep(t), lock # t
    PROVE  journal' = journal
  <1>1. pc[t] \in {"idle", "locking"}
    BY Locked
  <1>2. CASE Starting(t) \/ withVtxoSendLock(t)
    BY <1>2 DEF Starting, StartReserve, StartSend, reconcilePersistedVtxoSpend,
      acknowledgeSpendingVtxoRecovery, withVtxoSendLock, store
  <1>3. CASE GiveUp(t) \/ CallFails(t) \/ Crash(t)
    BY <1>3 DEF GiveUp, CallFails, Crash, store
  <1>4. ~Synchronising(t)
    BY <1>1 DEF Synchronising, FetchNext, ReconcileDone, fetchVtxoOperation, ViewMissing,
      requireReviewedVtxoReservation, ViewRefused, ViewAborted, applyVtxoOperationView
  <1>5. ~Reserving(t)
    BY <1>1 DEF Reserving, PrepareRefused, PrepareResume, PrepareReplace, AbortPreReserved,
      SendAbort, abortPersistedVtxoSpend, preReserveVtxoSpend, JournalFull, SendReserve,
      reservePersistedVtxoSpend, Deciding, Beginning
  <1>6. ~Advancing(t)
    BY <1>1 DEF Advancing, SendAuthorize, authorizeReservedVtxoSpend, advanceAuthorizedVtxoSpend,
      submitAuthorizedVtxoSpendOnce, recoverAuthorizedVtxoSpend, SendCheckpoints,
      authorizeSubmittedVtxoCheckpoints, retainFinalizationRecovery, SendFinalize,
      OperatorFinalizedPersist, SendReceipt, finalizeVaultOperation, RetireReceipt,
      retireFinalizedVtxoSpendLocked, At
  <1> QED
    BY <1>2, <1>3, <1>4, <1>5, <1>6 DEF TabStep

(* What a tab knows stays true through the steps of all tabs. *)
LEMMA TabKnows ==
    ASSUME RInv, NEW t \in Tabs, TabStep(t)
    PROVE  AnswersHold' /\ PlacesHold' /\ Replacing'
  <1>a. IInv /\ Frame(t) /\ Effect(t)
    BY TabFrame, TabEffect DEF RInv
  <1>b. /\ Locals(t) /\ archive \subseteq archive' /\ guardian' = guardian
        /\ \A u \in Tabs \ {t} : /\ pc'[u] = pc[u] /\ cur'[u] = cur[u] /\ copy'[u] = copy[u]
                                 /\ answered'[u] = answered[u] /\ todo'[u] = todo[u]
    BY <1>a DEF Effect, Frame, Locals
  <1>1. AnswersHold'
    BY <1>b DEF RInv, AnswersHold, Locals
  <1>2. PlacesHold'
    BY <1>b DEF RInv, PlacesHold, Locals
  <1>3. ASSUME NEW u \in Tabs, NEW o \in Ops, Unfinished(o)'
        PROVE  /\ pc'[u] = "replace" => o \in todo'[u]
               /\ pc'[u] = "abort" => o \in todo'[u] \cup {cur'[u]}
    <2>1. CASE u = t
      BY <1>b, <1>3, <2>1 DEF Locals
    <2>2. CASE u # t /\ pc[u] \in {"replace", "abort"}
      <3>1. lock # t
        BY <1>a, <2>2, Locked
      <3>2. Unfinished(o)
        BY <1>a, <1>3, <3>1, OutsideWritesNothing DEF Unfinished
      <3> QED
        BY <1>b, <2>2, <3>2 DEF RInv, Replacing
    <2> QED
      BY <1>b, <2>1, <2>2
  <1>4. Replacing'
    BY <1>3 DEF Replacing
  <1> QED
    BY <1>1, <1>2, <1>4

(* The answer to a lookup, as far as it says that nothing was signed. *)
LEMMA UnsignedView ==
    ASSUME ServiceTypeOK, NEW o \in Ops, NEW v \in ViewsOf(o) \cup {NoView}
    PROVE  /\ v.state = "unknown" => guardian[o] \in {"none", "aborted"}
           /\ v.state \in {"expired", "aborted"} => guardian[o] = "aborted"
  <1> DEFINE states == CASE guardian[o] = "none" -> {"unknown"}
                         [] guardian[o] = "aborted" -> {"unknown", "expired", "aborted"}
                         [] guardian[o] \in {"signed", "submitted"} -> {guardian[o], "unresolved"}
                         [] OTHER -> {guardian[o]}
             proofs == IF guardian[o] \in {"signed", "submitted", "finalized"}
                       THEN BOOLEAN ELSE {FALSE}
  <1>1. /\ guardian[o] \notin {"none", "aborted"} => "unknown" \notin states
        /\ guardian[o] # "aborted" => states \cap {"expired", "aborted"} = {}
    BY DEF ServiceTypeOK, GuardianStates
  <1>2. ViewsOf(o) = [state : states, proof : proofs]
    BY DEF ViewsOf
  <1>3. NoView.state = "error"
    BY DEF NoView
  <1> HIDE DEF states, proofs
  <1> QED
    BY <1>1, <1>2, <1>3

(* What a tab saw stays true until it uses it: only the tab in the         *)
(* critical section asks for a signature.                                  *)
LEMMA TabViews ==
    ASSUME RInv, NEW t \in Tabs, TabStep(t)
    PROVE  ViewsHold'
  <1>a. IInv /\ Frame(t) /\ Effect(t)
    BY TabFrame, TabEffect DEF RInv
  <1>1. ASSUME NEW u \in Tabs \ {t}, pc'[u] = "apply"
        PROVE  Asked("authorize", cur[u])' => Asked("authorize", cur[u])
    <2>1. pc[u] = "apply"
      BY <1>a, <1>1 DEF Frame
    <2>2. lock = u
      BY <1>a, <2>1, Locked
    <2>3. net' = net
      BY <1>a, <2>2 DEF Effect, Asks
    <2>4. cur'[u] = cur[u]
      BY <1>a DEF Frame
    <2> QED
      BY <2>3, <2>4 DEF Asked
  <1>2. ASSUME NEW u \in Tabs \ {t}, pc'[u] = "apply"
        PROVE  /\ view'[u].state = "unknown" =>
                     \/ guardian'[cur'[u]] = "aborted"
                     \/ guardian'[cur'[u]] \in {"none", "reserved"} /\ ~Asked("authorize", cur[u])'
               /\ view'[u].state \in {"expired", "aborted"} => guardian'[cur'[u]] = "aborted"
    <2>1. /\ pc[u] = "apply" /\ cur'[u] = cur[u] /\ view'[u] = view[u] /\ guardian' = guardian
      BY <1>a, <1>2 DEF Frame
    <2> QED
      BY <1>1, <1>2, <2>1 DEF RInv, ViewsHold
  <1>3. ASSUME pc'[t] = "apply"
        PROVE  /\ view'[t].state = "unknown" =>
                     \/ guardian'[cur'[t]] = "aborted"
                     \/ guardian'[cur'[t]] \in {"none", "reserved"} /\ ~Asked("authorize", cur[t])'
               /\ view'[t].state \in {"expired", "aborted"} => guardian'[cur'[t]] = "aborted"
    <2>1. FetchNext(t) \/ fetchVtxoOperation(t)
      BY <1>a, <1>3 DEF Frame
    <2>2. PICK o \in Ops : \E v \in ViewsOf(o) \cup {NoView} :
             cur'[t] = o /\ view' = [view EXCEPT ![t] = v]
      <3>1. CASE FetchNext(t)
        <4>1. PICK o \in todo[t] :
                 /\ cur' = [cur EXCEPT ![t] = o]
                 /\ \E v \in ViewsOf(o) \cup {NoView} : view' = [view EXCEPT ![t] = v]
          BY <3>1 DEF FetchNext
        <4>2. o \in Ops /\ cur'[t] = o
          BY <1>a, <4>1 DEF IInv, TypeOK, TabTypeOK
        <4> QED
          BY <4>1, <4>2
      <3>2. CASE fetchVtxoOperation(t)
        BY <1>a, <3>2 DEF fetchVtxoOperation, IInv, Working, Between
      <3> QED
        BY <2>1, <3>1, <3>2
    <2>a. PICK v \in ViewsOf(o) \cup {NoView} : cur'[t] = o /\ view' = [view EXCEPT ![t] = v]
      BY <2>2
    <2>3. view'[t] = v /\ guardian' = guardian /\ net' = net
      BY <1>a, <2>1, <2>a DEF IInv, TypeOK, TabTypeOK, Frame, FetchNext, fetchVtxoOperation
    <2>4. /\ v.state = "unknown" => guardian[o] \in {"none", "aborted"}
          /\ v.state \in {"expired", "aborted"} => guardian[o] = "aborted"
      BY <1>a, UnsignedView DEF IInv, TypeOK
    <2>5. guardian[o] = "none" => ~Asked("authorize", o)
      BY DEF RInv, RequestsHold
    <2>6. Asked("authorize", cur[t])' => Asked("authorize", o)
      BY <2>a, <2>3 DEF Asked
    <2> QED
      BY <2>a, <2>3, <2>4, <2>5, <2>6
  <1> QED
    BY <1>2, <1>3 DEF ViewsHold

(* The records that are left have what their stages say. *)
LEMMA TabRecords ==
    ASSUME RInv, NEW t \in Tabs, TabStep(t)
    PROVE  RecordsHold'
  <1>a. guardian' = guardian
    BY TabFrame DEF RInv, Frame
  <1> SUFFICES ASSUME NEW o \in Ops, journal'[o] # NoRec
               PROVE  /\ journal'[o].attempted => journal'[o].stage \notin {"pre-reserve", "reserved"}
                      /\ journal'[o].stage # "pre-reserve" => guardian[o] # "none"
    BY <1>a DEF RecordsHold
  <1>b. OneRecord(t, o)
    BY TabOneRecord
  <1>1. CASE journal[o] = NoRec
    BY <1>b, <1>1 DEF OneRecord
  <1>2. CASE journal[o] # NoRec
    <2>1. Grows(journal[o], journal'[o])
      BY <1>b, <1>2 DEF OneRecord
    <2>2. journal[o] \in PersistedVtxoSpend /\ journal'[o] \in PersistedVtxoSpend
      BY <1>2, NextTyped DEF RInv, IInv, TypeOK, StoreTypeOK, Next
    <2>3. journal[o].stage \notin {"pre-reserve", "reserved"} =>
            journal'[o].stage \notin {"pre-reserve", "reserved"}
      BY <2>1, <2>2 DEF Grows, PersistedVtxoSpend, Stages, VTXO_SPEND_STAGE_RANK
    <2>4. journal'[o].attempted => journal'[o].stage \notin {"pre-reserve", "reserved"}
      BY <1>b, <1>2, <2>3 DEF OneRecord, RInv, RecordsHold
    <2>5. journal[o].stage = "pre-reserve" /\ journal'[o].stage # "pre-reserve" =>
            guardian[o] # "none"
      BY <1>b, <1>2 DEF OneRecord, RInv, AnswersHold
    <2> QED
      BY <1>2, <2>4, <2>5 DEF RInv, RecordsHold
  <1> QED
    BY <1>1, <1>2

(* A request that is newly under way is about a record of the journal. *)
LEMMA NewRequest ==
    ASSUME RInv, NEW t \in Tabs, TabStep(t), NEW call \in Calls, NEW o \in Ops,
           Asked(call, o)', ~Asked(call, o)
    PROVE  /\ o \in used /\ journal[o] # NoRec /\ journal'[o] # NoRec
           /\ call = "authorize" => journal[o].stage = "reserved"
           /\ call = "submit" => o = cur[t] /\ advanceAuthorizedVtxoSpend(t)
           /\ call = "finalize" => o = cur[t] /\ pc[t] = "retained"
  <1>a. IInv /\ Effect(t) /\ OneRecord(t, o)
    BY TabEffect, TabOneRecord DEF RInv
  <1>1. net' # net
    BY DEF Asked
  <1>2. PICK c \in Calls :
           /\ net' = net \cup {[call |-> c, op |-> cur'[t]]}
           /\ journal[cur'[t]] # NoRec
           /\ c = "authorize" => journal[cur'[t]].stage = "reserved"
           /\ c = "submit" => advanceAuthorizedVtxoSpend(t)
           /\ c = "finalize" => cur'[t] = cur[t] /\ pc[t] = "retained"
    BY <1>a, <1>1 DEF Effect, Asks
  <1>3. [call |-> call, op |-> o] = [call |-> c, op |-> cur'[t]]
    BY <1>2 DEF Asked
  <1>4. call = c /\ o = cur'[t]
    BY <1>3
  <1>5. c = "submit" => cur'[t] = cur[t]
    BY <1>2 DEF advanceAuthorizedVtxoSpend, Send, Goto
  <1>6. o \in used /\ journal[o] # NoRec
    BY <1>a, <1>2, <1>4 DEF IInv, AttemptIsRecorded
  <1>7. journal'[o] # NoRec
    BY <1>a, <1>1, <1>6 DEF OneRecord
  <1> QED
    BY <1>2, <1>4, <1>5, <1>6, <1>7

(* The requests a tab sends are backed by its record and by the services. *)
LEMMA TabRequests ==
    ASSUME RInv, NEW t \in Tabs, TabStep(t)
    PROVE  RequestsHold'
  <1>a. IInv /\ UNCHANGED <<guardian, operator>>
    BY TabFrame DEF RInv, Frame
  <1>b. \A o \in Ops : OneRecord(t, o)
    BY TabOneRecord
  <1>c. net \subseteq [call : Calls, op : Ops] /\ net' \subseteq [call : Calls, op : Ops]
    BY <1>a, NextTyped DEF IInv, TypeOK, ServiceTypeOK, Next
  <1>d. resolved \subseteq Ops /\ resolved' \subseteq Ops
    BY <1>a, NextTyped DEF IInv, TypeOK, StoreTypeOK, Next
  <1>e. {"authorize", "submit", "finalize"} \subseteq Calls
    BY DEF Calls
  <1>1. resolved' \subseteq used'
    <2> SUFFICES ASSUME NEW o \in resolved' PROVE o \in used'
      OBVIOUS
    <2>1. o \in Ops /\ OneRecord(t, o)
      BY <1>b, <1>d
    <2>2. o \in resolved \/ journal[o] # NoRec
      <3>1. Effect(t)
        BY TabEffect
      <3> QED
        BY <3>1, <2>1 DEF Effect, Clears, Moves
    <2> QED
      BY <1>a, <2>1, <2>2 DEF OneRecord, RInv, RequestsHold, IInv, AttemptIsRecorded
  <1>2. ASSUME NEW m \in net' PROVE m.op \in used'
    <2>1. m.call \in Calls /\ m.op \in Ops /\ m = [call |-> m.call, op |-> m.op]
      BY <1>c
    <2>2. m.op \in used
      <3>1. CASE m \in net
        BY <3>1 DEF RInv, RequestsHold
      <3>2. CASE m \notin net
        <4>1. Asked(m.call, m.op)' /\ ~Asked(m.call, m.op)
          BY <2>1, <3>2 DEF Asked
        <4> QED
          BY <2>1, <4>1, NewRequest
      <3> QED
        BY <3>1, <3>2
    <2> QED
      BY <1>b, <2>1, <2>2 DEF OneRecord
  <1>3. ASSUME NEW o \in Ops
        PROVE  /\ Asked("authorize", o)' => guardian[o] # "none"
               /\ Asked("authorize", o)' /\ guardian[o] = "reserved" => journal'[o] # NoRec
    <2>1. CASE Asked("authorize", o)' /\ ~Asked("authorize", o)
      BY <1>e, <2>1, NewRequest DEF RInv, RecordsHold
    <2>2. CASE Asked("authorize", o)
      BY <1>b, <2>2, ClearedFacts DEF OneRecord, RInv, RequestsHold
    <2> QED
      BY <2>1, <2>2
  <1>4. ASSUME NEW o \in Ops, Asked("authorize", o)' \/ guardian[o] \in SignedStates,
               journal'[o] # NoRec
        PROVE  journal'[o].stage # "pre-reserve"
    <2>1. journal[o] # NoRec
      <3>1. o \in used
        <4>1. CASE Asked("authorize", o)' /\ ~Asked("authorize", o)
          BY <1>e, <4>1, NewRequest
        <4>2. CASE Asked("authorize", o)
          BY <4>2 DEF Asked, RInv, RequestsHold
        <4>3. CASE guardian[o] \in SignedStates
          BY <1>a, <4>3 DEF RInv, UnfinishedRecoverable, SignedStates, RequestsHold, IInv,
            AttemptIsRecorded
        <4> QED
          BY <1>4, <4>1, <4>2, <4>3
      <3> QED
        BY <1>4, <1>b, <3>1 DEF OneRecord
    <2>2. journal[o].stage # "pre-reserve"
      <3>1. CASE Asked("authorize", o)' /\ ~Asked("authorize", o)
        BY <1>e, <3>1, NewRequest
      <3>2. CASE Asked("authorize", o) \/ guardian[o] \in SignedStates
        BY <2>1, <3>2 DEF RInv, RequestsHold
      <3> QED
        BY <1>4, <3>1, <3>2
    <2>3. journal[o] \in PersistedVtxoSpend /\ journal'[o] \in PersistedVtxoSpend
      BY <1>a, <1>4, <2>1, NextTyped DEF IInv, TypeOK, StoreTypeOK, Next
    <2>4. Grows(journal[o], journal'[o])
      BY <1>b, <1>4, <2>1 DEF OneRecord
    <2> QED
      BY <2>2, <2>3, <2>4 DEF Grows, PersistedVtxoSpend, Stages, VTXO_SPEND_STAGE_RANK
  <1>5. ASSUME NEW o \in Ops, Asked("submit", o)'
        PROVE  operator[o] = "none" /\ submits'[o] > 0
    <2>1. CASE Asked("submit", o)
      BY <1>a, <1>b, <2>1 DEF OneRecord, RInv, RequestsHold, IInv, TypeOK, ServiceTypeOK
    <2>2. CASE ~Asked("submit", o)
      <3>1. o = cur[t] /\ advanceAuthorizedVtxoSpend(t) /\ journal[o] # NoRec
        BY <1>e, <1>5, <2>2, NewRequest
      <3>2. copy[t] # NoRec /\ journal[o] = copy[t]
        BY <1>a, <3>1 DEF advanceAuthorizedVtxoSpend, At, IInv, Working, Holding, CopyIsCurrent
      <3>3. ~journal[o].attempted
        BY <3>1, <3>2 DEF advanceAuthorizedVtxoSpend
      <3>4. submits[o] = 0
        BY <1>a, <3>1, <3>3 DEF IInv, AttemptIsRecorded, TypeOK, ServiceTypeOK
      <3>5. submits' = [submits EXCEPT ![o] = submits[o] + 1]
        BY <3>1, Zenon DEF advanceAuthorizedVtxoSpend
      <3>6. submits'[o] > 0
        BY <1>a, <3>4, <3>5 DEF IInv, TypeOK, ServiceTypeOK
      <3> QED
        BY <3>4, <3>6 DEF RInv, RequestsHold
    <2> QED
      BY <2>1, <2>2
  <1>6. ASSUME NEW o \in Ops, operator[o] # "none" PROVE submits'[o] > 0
    BY <1>a, <1>b, <1>6 DEF OneRecord, RInv, RequestsHold, IInv, TypeOK, ServiceTypeOK
  <1> QED
    BY <1>a, <1>1, <1>2, <1>3, <1>4, <1>5, <1>6 DEF RequestsHold

(* An operation without a record was retired, and is final if it was sent. *)
LEMMA TabAccounted ==
    ASSUME RInv, NEW t \in Tabs, TabStep(t)
    PROVE  Accounted'
  <1>a. operator' = operator /\ used' \subseteq Ops /\ resolved' \subseteq Ops
    BY TabFrame, NextTyped DEF RInv, Frame, IInv, TypeOK, StoreTypeOK, ServiceTypeOK, Next
  <1>1. ASSUME NEW o \in used', journal'[o] = NoRec
        PROVE  o \in resolved' /\ (submits'[o] > 0 => operator[o] = "finalized")
    <2>1. o \in Ops /\ OneRecord(t, o)
      BY <1>a, TabOneRecord
    <2>2. CASE journal[o] = NoRec
      BY <1>1, <2>1, <2>2 DEF OneRecord, RInv, Accounted
    <2>3. CASE journal[o] # NoRec
      BY <1>1, <2>1, <2>3, ClearedFacts DEF OneRecord
    <2> QED
      BY <2>2, <2>3
  <1>2. ASSUME NEW o \in resolved' PROVE journal'[o] = NoRec
    <2>1. o \in Ops /\ OneRecord(t, o)
      BY <1>a, TabOneRecord
    <2>2. o \in resolved => o \in used /\ journal[o] = NoRec
      BY DEF RInv, Accounted, RequestsHold
    <2> QED
      BY <2>1, <2>2 DEF OneRecord
  <1> QED
    BY <1>a, <1>1, <1>2 DEF Accounted

(* A tab leaves everything that is unfinished recoverable. *)
LEMMA TabRecoverable ==
    ASSUME RInv, NEW t \in Tabs, TabStep(t)
    PROVE  UnfinishedRecoverable'
  <1>a. IInv /\ UNCHANGED <<guardian, operator>> /\ archive \subseteq archive'
    BY TabFrame, TabEffect DEF RInv, Frame, Effect
  <1>b. {"authorize", "submit", "finalize"} \subseteq Calls
    BY DEF Calls
  <1>1. ASSUME NEW o \in Ops, operator[o] = "pending" \/ Asked("submit", o)'
        PROVE  journal'[o] # NoRec /\ journal'[o].attempted /\ journal'[o].proof
    <2>a. OneRecord(t, o)
      BY TabOneRecord
    <2>1. CASE operator[o] = "pending" \/ Asked("submit", o)
      <3>1. journal[o] # NoRec /\ journal[o].attempted /\ journal[o].proof
        BY <2>1 DEF RInv, UnfinishedRecoverable, Asked
      <3>2. journal'[o] # NoRec
        BY <2>1, <2>a, <3>1, ClearedFacts DEF OneRecord
      <3> QED
        BY <2>a, <3>1, <3>2 DEF OneRecord, Grows
    <2>2. CASE Asked("submit", o)' /\ ~Asked("submit", o)
      <3>1. o = cur[t] /\ advanceAuthorizedVtxoSpend(t) /\ journal'[o] # NoRec
        BY <1>b, <2>2, NewRequest
      <3>2. copy[t] \in PersistedVtxoSpend /\ copy[t].proof
        BY <1>a, <3>1 DEF advanceAuthorizedVtxoSpend, At, IInv, Working, Holding, TypeOK, TabTypeOK
      <3>3. journal' = [journal EXCEPT ![o] = [copy[t] EXCEPT !.attempted = TRUE]]
        BY <3>1 DEF advanceAuthorizedVtxoSpend, Keep, persistVtxoSpend
      <3>4. journal'[o] = [copy[t] EXCEPT !.attempted = TRUE]
        BY <1>a, <3>3 DEF IInv, TypeOK, StoreTypeOK
      <3> QED
        BY <3>1, <3>2, <3>4 DEF PersistedVtxoSpend
    <2> QED
      BY <1>1, <2>1, <2>2
  <1>2. ASSUME NEW o \in Ops, guardian[o] \in SignedStates
        PROVE  \/ journal'[o] # NoRec
               \/ o \in resolved' /\ guardian[o] = "finalized" /\ operator[o] = "finalized"
    <2>a. OneRecord(t, o)
      BY TabOneRecord
    <2>1. CASE journal[o] # NoRec
      BY <1>2, <2>a, <2>1, ClearedFacts DEF OneRecord
    <2>2. CASE journal[o] = NoRec
      BY <1>2, <2>a, <2>2 DEF OneRecord, RInv, UnfinishedRecoverable, SignedStates
    <2> QED
      BY <2>1, <2>2
  <1>3. ASSUME NEW o \in Ops, operator[o] = "finalized" \/ Asked("finalize", o)'
        PROVE  o \in archive'
    <2>1. CASE operator[o] = "finalized" \/ Asked("finalize", o)
      BY <1>a, <2>1 DEF RInv, UnfinishedRecoverable, Asked
    <2>2. CASE Asked("finalize", o)' /\ ~Asked("finalize", o)
      BY <1>a, <1>b, <2>2, NewRequest DEF RInv, PlacesHold
    <2> QED
      BY <1>3, <2>1, <2>2
  <1> QED
    BY <1>a, <1>1, <1>2, <1>3 DEF UnfinishedRecoverable, Asked, SignedStates

-------------------------------------------------------------------------------
(* A step of the services *)

(* What the services may do to one operation, and what they answer.        *)
Served(o) ==
    /\ guardian'[o] # guardian[o] =>
          \/ guardian[o] = "none" /\ guardian'[o] = "reserved"
          \/ guardian[o] = "reserved" /\ guardian'[o] = "aborted"
          \/ guardian[o] = "reserved" /\ guardian'[o] = "signed" /\ Asked("authorize", o)
          \/ guardian[o] = "signed" /\ guardian'[o] = "submitted"
          \/ /\ guardian[o] = "submitted" /\ guardian'[o] = "finalized"
             /\ operator[o] = "finalized"
    /\ operator'[o] # operator[o] =>
          \/ /\ operator[o] = "none" /\ operator'[o] = "pending"
             /\ Asked("submit", o) /\ ~Asked("submit", o)'
          \/ operator[o] = "pending" /\ operator'[o] = "finalized" /\ Asked("finalize", o)

Told(t) ==
    answered'[t] /\ ~answered[t] =>
        /\ pc[t] \in Calls
        /\ pc[t] = "reserve" => guardian'[cur[t]] = "reserved"
        /\ pc[t] = "abort" => guardian'[cur[t]] = "aborted"

(* The services leave the pages and the storage of the browser alone, and  *)
(* take requests from those under way.                                     *)
LEMMA ServiceFrame ==
    ASSUME ServiceStep
    PROVE  /\ UNCHANGED <<journal, resolved, archive, pc, cur, copy, view, todo, used, submits>>
           /\ net' \subseteq net
  BY DEF ServiceStep, GuardianReserve, GuardianAbort, GuardianAuthorize, GuardianCheckpoints,
    GuardianReceipt, OperatorSubmit, OperatorFinalize, LoseRequest, GuardianExpire,
    GuardianObserve, captureVaultRecoveryFile, Answer, store, tabVars, services

(* An answer reaches only a tab that awaits it. *)
LEMMA AnswerTold ==
    ASSUME IInv, NEW m \in net, NEW delivered \in BOOLEAN, Answer(m, delivered),
           m.call = "reserve" => guardian'[m.op] = "reserved",
           m.call = "abort" => guardian'[m.op] = "aborted",
           NEW t \in Tabs
    PROVE  Told(t)
  BY DEF IInv, TypeOK, ServiceTypeOK, TabTypeOK, Answer, Told

(* The services act on an operation only when they are asked to. *)
LEMMA ServiceMoves ==
    ASSUME RInv, ServiceStep
    PROVE  /\ \A o \in Ops : Served(o)
           /\ \A t \in Tabs : Told(t)
  <1>a. /\ IInv /\ guardian \in [Ops -> GuardianStates] /\ operator \in [Ops -> OperatorStates]
        /\ net \subseteq [call : Calls, op : Ops]
    BY DEF RInv, IInv, TypeOK, ServiceTypeOK
  <1>b. \A m \in net : m.op \in Ops /\ Asked(m.call, m.op)
    <2> TAKE m \in net
    <2>1. m = [call |-> m.call, op |-> m.op] /\ m.op \in Ops
      BY <1>a
    <2> QED
      BY <2>1 DEF Asked
  <1>1. CASE GuardianReserve
    <2>1. PICK m \in Requests("reserve"), delivered \in BOOLEAN :
             /\ guardian[m.op] \in {"none", "reserved"}
             /\ guardian' = [guardian EXCEPT ![m.op] = "reserved"]
             /\ Answer(m, delivered) /\ operator' = operator
      BY <1>1 DEF GuardianReserve
    <2>2. m \in net /\ m.call = "reserve" /\ m.op \in Ops
      BY <1>b DEF Requests
    <2>3. guardian'[m.op] = "reserved"
      BY <1>a, <2>1, <2>2
    <2> QED
      BY <1>a, <2>1, <2>2, <2>3, AnswerTold DEF Served
  <1>2. CASE GuardianAbort
    <2>1. PICK m \in Requests("abort"), delivered \in BOOLEAN :
             /\ guardian[m.op] \in {"reserved", "aborted"}
             /\ guardian' = [guardian EXCEPT ![m.op] = "aborted"]
             /\ Answer(m, delivered) /\ operator' = operator
      BY <1>2 DEF GuardianAbort
    <2>2. m \in net /\ m.call = "abort" /\ m.op \in Ops
      BY <1>b DEF Requests
    <2>3. guardian'[m.op] = "aborted"
      BY <1>a, <2>1, <2>2
    <2> QED
      BY <1>a, <2>1, <2>2, <2>3, AnswerTold DEF Served
  <1>3. CASE GuardianAuthorize
    <2>1. PICK m \in Requests("authorize"), delivered \in BOOLEAN :
             /\ guardian[m.op] \in {"reserved", "signed"}
             /\ guardian' = [guardian EXCEPT ![m.op] = "signed"]
             /\ Answer(m, delivered) /\ operator' = operator
      BY <1>3 DEF GuardianAuthorize
    <2>2. m \in net /\ m.call = "authorize" /\ m.op \in Ops /\ Asked("authorize", m.op)
      BY <1>b DEF Requests
    <2> QED
      BY <1>a, <2>1, <2>2, AnswerTold DEF Served
  <1>4. CASE GuardianCheckpoints
    <2>1. PICK m \in Requests("checkpoints"), delivered \in BOOLEAN :
             /\ guardian[m.op] \in {"signed", "submitted"}
             /\ guardian' = [guardian EXCEPT ![m.op] = "submitted"]
             /\ Answer(m, delivered) /\ operator' = operator
      BY <1>4 DEF GuardianCheckpoints
    <2>2. m \in net /\ m.call = "checkpoints" /\ m.op \in Ops
      BY <1>b DEF Requests
    <2> QED
      BY <1>a, <2>1, <2>2, AnswerTold DEF Served
  <1>5. CASE GuardianReceipt
    <2>1. PICK m \in Requests("receipt"), delivered \in BOOLEAN :
             /\ guardian[m.op] \in {"submitted", "finalized"}
             /\ operator[m.op] = "finalized"
             /\ guardian' = [guardian EXCEPT ![m.op] = "finalized"]
             /\ Answer(m, delivered) /\ operator' = operator
      BY <1>5 DEF GuardianReceipt
    <2>2. m \in net /\ m.call = "receipt" /\ m.op \in Ops
      BY <1>b DEF Requests
    <2> QED
      BY <1>a, <2>1, <2>2, AnswerTold DEF Served
  <1>6. CASE OperatorSubmit
    <2>1. PICK m \in Requests("submit"), delivered \in BOOLEAN :
             /\ operator[m.op] = "none"
             /\ operator' = [operator EXCEPT ![m.op] = "pending"]
             /\ Answer(m, delivered) /\ guardian' = guardian
      BY <1>6 DEF OperatorSubmit
    <2>2. m \in net /\ m.call = "submit" /\ m.op \in Ops /\ Asked("submit", m.op)
      BY <1>b DEF Requests
    <2>3. m = [call |-> "submit", op |-> m.op] /\ net' = net \ {m}
      BY <1>a, <2>1, <2>2 DEF Answer
    <2>4. ~Asked("submit", m.op)'
      BY <2>3 DEF Asked
    <2> QED
      BY <1>a, <2>1, <2>2, <2>4, AnswerTold DEF Served
  <1>7. CASE OperatorFinalize
    <2>1. PICK m \in Requests("finalize"), delivered \in BOOLEAN :
             /\ operator[m.op] \in {"pending", "finalized"}
             /\ operator' = [operator EXCEPT ![m.op] = "finalized"]
             /\ Answer(m, delivered) /\ guardian' = guardian
      BY <1>7 DEF OperatorFinalize
    <2>2. m \in net /\ m.call = "finalize" /\ m.op \in Ops /\ Asked("finalize", m.op)
      BY <1>b DEF Requests
    <2> QED
      BY <1>a, <2>1, <2>2, AnswerTold DEF Served
  <1>8. CASE GuardianExpire \/ GuardianObserve
    BY <1>8, <1>a DEF GuardianExpire, GuardianObserve, tabVars, Served, Told
  <1>9. CASE LoseRequest \/ captureVaultRecoveryFile
    BY <1>9 DEF LoseRequest, captureVaultRecoveryFile, tabVars, services, Served, Told
  <1> QED
    BY <1>1, <1>2, <1>3, <1>4, <1>5, <1>6, <1>7, <1>8, <1>9 DEF ServiceStep

(* What a step of the services keeps. *)
LEMMA ServicesKeep ==
    ASSUME RInv, ServiceStep
    PROVE  /\ AnswersHold' /\ ViewsHold' /\ PlacesHold' /\ Replacing' /\ RecordsHold'
           /\ RequestsHold' /\ Accounted' /\ UnfinishedRecoverable'
  <1>a. IInv
    BY DEF RInv
  <1>b. /\ UNCHANGED <<journal, resolved, archive, pc, cur, copy, view, todo, used, submits>>
        /\ net' \subseteq net
    BY ServiceFrame
  <1>c. /\ \A o \in Ops : Served(o)
        /\ \A t \in Tabs : Told(t)
    BY ServiceMoves
  <1>d. \A call, o : Asked(call, o)' => Asked(call, o)
    BY <1>b DEF Asked
  <1>e. /\ guardian \in [Ops -> GuardianStates] /\ operator \in [Ops -> OperatorStates]
        /\ used \subseteq Ops
    BY <1>a DEF IInv, TypeOK, ServiceTypeOK
  <1>f. \A t \in Tabs : pc[t] = "apply" \/ pc[t] \in {"reserve", "abort"} => cur[t] \in Ops
    BY <1>a DEF IInv, Working, Between
  <1>1. AnswersHold'
    <2> SUFFICES ASSUME NEW t \in Tabs
                 PROVE  /\ answered'[t] => pc[t] \in Calls
                        /\ pc[t] = "reserve" /\ answered'[t] => guardian'[cur[t]] # "none"
                        /\ pc[t] = "abort" /\ answered'[t] => guardian'[cur[t]] = "aborted"
      BY <1>b DEF AnswersHold
    <2>1. answered'[t] => pc[t] \in Calls
      BY <1>c DEF Told, RInv, AnswersHold
    <2>2. ASSUME pc[t] = "reserve", answered'[t] PROVE guardian'[cur[t]] # "none"
      BY <1>c, <1>f, <2>2 DEF Told, Served, RInv, AnswersHold
    <2>3. ASSUME pc[t] = "abort", answered'[t] PROVE guardian'[cur[t]] = "aborted"
      BY <1>c, <1>f, <2>3 DEF Told, Served, RInv, AnswersHold
    <2> QED
      BY <2>1, <2>2, <2>3
  <1>2. ViewsHold'
    <2> SUFFICES ASSUME NEW t \in Tabs, pc[t] = "apply"
                 PROVE  /\ view[t].state = "unknown" =>
                              \/ guardian'[cur[t]] = "aborted"
                              \/ /\ guardian'[cur[t]] \in {"none", "reserved"}
                                 /\ ~Asked("authorize", cur[t])'
                        /\ view[t].state \in {"expired", "aborted"} => guardian'[cur[t]] = "aborted"
      BY <1>b DEF ViewsHold
    <2>1. Served(cur[t])
      BY <1>c, <1>f
    <2>2. Asked("authorize", cur[t])' => Asked("authorize", cur[t])
      BY <1>b DEF Asked
    <2>3. ASSUME view[t].state = "unknown"
          PROVE  \/ guardian'[cur[t]] = "aborted"
                 \/ guardian'[cur[t]] \in {"none", "reserved"} /\ ~Asked("authorize", cur[t])'
      <3>1. \/ guardian[cur[t]] = "aborted"
            \/ guardian[cur[t]] \in {"none", "reserved"} /\ ~Asked("authorize", cur[t])
        BY <2>3 DEF RInv, ViewsHold
      <3> QED
        BY <2>1, <2>2, <3>1 DEF Served
    <2>4. ASSUME view[t].state \in {"expired", "aborted"} PROVE guardian'[cur[t]] = "aborted"
      BY <2>1, <2>4 DEF Served, RInv, ViewsHold
    <2> QED
      BY <2>3, <2>4
  <1>3. PlacesHold'
    BY <1>b DEF RInv, PlacesHold
  <1>4. Replacing'
    BY <1>b DEF RInv, Replacing, Unfinished
  <1>5. RecordsHold'
    BY <1>b, <1>c DEF RInv, RecordsHold, Served
  <1>6. RequestsHold'
    <2>1. resolved' \subseteq used' /\ \A m \in net' : m.op \in used'
      BY <1>b DEF RInv, RequestsHold
    <2>2. ASSUME NEW o \in Ops
          PROVE  /\ Asked("authorize", o)' => guardian'[o] # "none"
                 /\ Asked("authorize", o)' /\ guardian'[o] = "reserved" => journal[o] # NoRec
                 /\ (Asked("authorize", o)' \/ guardian'[o] \in SignedStates) /\ journal[o] # NoRec =>
                       journal[o].stage # "pre-reserve"
      <3>1. /\ Asked("authorize", o) => guardian[o] # "none"
            /\ Asked("authorize", o) /\ guardian[o] = "reserved" => journal[o] # NoRec
            /\ (Asked("authorize", o) \/ guardian[o] \in SignedStates) /\ journal[o] # NoRec =>
                  journal[o].stage # "pre-reserve"
        BY DEF RInv, RequestsHold
      <3>2. Served(o) /\ (Asked("authorize", o)' => Asked("authorize", o))
        BY <1>c, <1>d
      <3> QED
        BY <3>1, <3>2 DEF Served, SignedStates
    <2>3. ASSUME NEW o \in Ops
          PROVE  /\ Asked("submit", o)' => operator'[o] = "none" /\ submits[o] > 0
                 /\ operator'[o] # "none" => submits[o] > 0
      <3>1. /\ Asked("submit", o) => operator[o] = "none" /\ submits[o] > 0
            /\ operator[o] # "none" => submits[o] > 0
        BY DEF RInv, RequestsHold
      <3>2. Served(o) /\ (Asked("submit", o)' => Asked("submit", o))
        BY <1>c, <1>d
      <3> QED
        BY <3>1, <3>2 DEF Served
    <2> QED
      BY <1>b, <2>1, <2>2, <2>3 DEF RequestsHold
  <1>7. Accounted'
    BY <1>b, <1>c, <1>e DEF RInv, Accounted, Served
  <1>8. UnfinishedRecoverable'
    <2> SUFFICES ASSUME NEW o \in Ops
                 PROVE  /\ operator'[o] = "pending" \/ Asked("submit", o)'
                              => journal[o] # NoRec /\ journal[o].attempted /\ journal[o].proof
                        /\ guardian'[o] \in SignedStates
                              => \/ journal[o] # NoRec
                                 \/ /\ o \in resolved
                                    /\ guardian'[o] = "finalized" /\ operator'[o] = "finalized"
                        /\ operator'[o] = "finalized" \/ Asked("finalize", o)' => o \in archive
      BY <1>b DEF UnfinishedRecoverable, Asked, SignedStates
    <2>1. /\ operator[o] = "pending" \/ Asked("submit", o)
                => journal[o] # NoRec /\ journal[o].attempted /\ journal[o].proof
          /\ guardian[o] \in SignedStates
                => \/ journal[o] # NoRec
                   \/ o \in resolved /\ guardian[o] = "finalized" /\ operator[o] = "finalized"
          /\ operator[o] = "finalized" \/ Asked("finalize", o) => o \in archive
      BY DEF RInv, UnfinishedRecoverable, Asked, SignedStates
    <2>2. Served(o) /\ (Asked("submit", o)' => Asked("submit", o))
          /\ (Asked("finalize", o)' => Asked("finalize", o))
      BY <1>c, <1>d
    <2>3. Asked("authorize", o) /\ guardian[o] = "reserved" => journal[o] # NoRec
      BY DEF RInv, RequestsHold
    <2> QED
      BY <2>1, <2>2, <2>3 DEF Served, SignedStates
  <1> QED
    BY <1>1, <1>2, <1>3, <1>4, <1>5, <1>6, <1>7, <1>8

(* The initial states satisfy the invariant. *)
LEMMA RecoverableInitially == Init => RInv
  BY Initially DEF Init, RInv, AnswersHold, ViewsHold, PlacesHold, Replacing, Unfinished, RecordsHold,
    RequestsHold, Asked, SignedStates, Accounted, UnfinishedRecoverable

(* Every step keeps the invariant. *)
LEMMA RecoverableInductive == RInv /\ [Next]_vars => RInv'
  <1> SUFFICES ASSUME RInv, [Next]_vars PROVE RInv'
    OBVIOUS
  <1>1. IInv'
    BY Inductive DEF RInv
  <1>2. ASSUME NEW t \in Tabs, TabStep(t) PROVE RInv'
    BY <1>1, <1>2, TabKnows, TabViews, TabRecords, TabRequests, TabAccounted, TabRecoverable
      DEF RInv
  <1>3. CASE ServiceStep
    BY <1>1, <1>3, ServicesKeep DEF RInv
  <1>4. CASE UNCHANGED vars
    <2>1. UNCHANGED <<journal, resolved, archive, pc, cur, copy, view, todo, answered, net,
                      guardian, operator, used, submits>>
      BY <1>4 DEF vars
    <2> QED
      BY <1>1, <2>1 DEF RInv, AnswersHold, ViewsHold, PlacesHold, Replacing, Unfinished, RecordsHold,
        RequestsHold, Asked, Accounted, UnfinishedRecoverable
  <1> QED
    BY <1>2, <1>3, <1>4 DEF Next

(* The stronger invariant holds in every reachable state. *)
LEMMA RecoverableAlways == Spec => []RInv
  BY RecoverableInitially, RecoverableInductive, PTL DEF Spec

(* Nothing unfinished is lost, whatever dies, is lost or arrives late: a   *)
(* submission the Operator may hold is in the journal with what a lookup   *)
(* needs, a signed operation leaves the journal only when both services    *)
(* hold it as final, and its successor is archived before it can be final  *)
(* (clearPersistedVtxoSpend, retainFinalizationRecovery).                  *)
THEOREM NothingUnfinishedIsLost == Spec => []UnfinishedRecoverable
  <1>1. RInv => UnfinishedRecoverable
    BY DEF RInv
  <1> QED
    BY <1>1, RecoverableAlways, PTL

-------------------------------------------------------------------------------
(* The promise to the user *)

(* What became of each operation, as the invariant has it. *)
Fates ==
    \A o \in Ops :
        /\ o \notin used => Outcome[o] = "new"
        /\ operator[o] = "finalized" => Outcome[o] = "settled"
        /\ operator[o] # "finalized" /\ submits[o] > 0 => Outcome[o] = "sent"
        /\ o \in used /\ submits[o] = 0 /\ o \in resolved => Outcome[o] = "dropped"
        /\ o \in used /\ submits[o] = 0 /\ o \notin resolved => Outcome[o] = "open"

(* The cases of Outcome exclude each other. *)
LEMMA FatesNow == RInv => Fates
  <1> SUFFICES ASSUME RInv, NEW o \in Ops
               PROVE  /\ o \notin used => Outcome[o] = "new"
                      /\ operator[o] = "finalized" => Outcome[o] = "settled"
                      /\ operator[o] # "finalized" /\ submits[o] > 0 => Outcome[o] = "sent"
                      /\ o \in used /\ submits[o] = 0 /\ o \in resolved => Outcome[o] = "dropped"
                      /\ o \in used /\ submits[o] = 0 /\ o \notin resolved => Outcome[o] = "open"
    BY DEF Fates
  <1>1. /\ submits[o] \in Nat /\ (submits[o] > 0 => o \in used)
        /\ operator[o] = "finalized" => submits[o] > 0
        /\ o \in resolved => o \in used
    BY DEF RInv, IInv, TypeOK, ServiceTypeOK, AttemptIsRecorded, RequestsHold
  <1>2. Outcome[o] = CASE o \notin used -> "new"
                       [] operator[o] = "finalized" -> "settled"
                       [] operator[o] # "finalized" /\ submits[o] > 0 -> "sent"
                       [] submits[o] = 0 /\ o \in resolved -> "dropped"
                       [] OTHER -> "open"
    BY DEF Outcome
  <1> QED
    BY <1>1, <1>2

(* The outcome of one operation changes, those of the others stay. *)
LEMMA OutcomeChanges ==
    ASSUME NEW o \in Ops, NEW to, Outcome'[o] = to,
           \A x \in Ops \ {o} : Outcome'[x] = Outcome[x]
    PROVE  Outcome' = [Outcome EXCEPT ![o] = to]
  <1>1. /\ DOMAIN Outcome = Ops /\ DOMAIN Outcome' = Ops
        /\ Outcome = [x \in Ops |-> Outcome[x]] /\ Outcome' = [x \in Ops |-> Outcome'[x]]
    BY DEF Outcome
  <1> QED
    BY <1>1

(* Nothing became of any operation. *)
LEMMA OutcomeStays ==
    ASSUME \A x \in Ops : Outcome'[x] = Outcome[x]
    PROVE  UNCHANGED Outcome
  <1>1. /\ Outcome = [x \in Ops |-> Outcome[x]] /\ Outcome' = [x \in Ops |-> Outcome'[x]]
    BY DEF Outcome
  <1> QED
    BY <1>1

(* A step of a tab begins, sends or drops one payment, or nothing.         *)
LEMMA TabPromise ==
    ASSUME RInv, RInv', NEW t \in Tabs, TabStep(t)
    PROVE  [Promise!PromiseNext]_Outcome
  <1>a. IInv /\ JournalStep(t) /\ Frame(t) /\ Effect(t) /\ operator' = operator
    BY TabOwned, TabFrame, TabEffect DEF RInv, Frame
  <1>b. Fates /\ Fates'
    BY FatesNow, PTL
  <1>c. /\ submits \in [Ops -> Nat] /\ submits' \in [Ops -> Nat] /\ used \subseteq Ops
        /\ \A o \in Ops : submits[o] > 0 => o \in used
        /\ \A o \in Ops : operator[o] # "none" => submits[o] > 0
        /\ \A o \in Ops : journal[o] # NoRec => o \in used /\ o \notin resolved
        /\ resolved \subseteq used /\ resolved \subseteq Ops
    BY DEF RInv, IInv, TypeOK, StoreTypeOK, ServiceTypeOK, AttemptIsRecorded, RequestsHold, Accounted
  <1>1. CASE used' # used
    <2>1. submits' = submits /\ resolved' = resolved
      BY <1>a, <1>1 DEF Frame, advanceAuthorizedVtxoSpend, Effect, Clears, Moves
    <2>2. PICK o \in Ops \ used : used' = used \cup {o}
      BY <1>a, <1>1 DEF JournalStep, WritesBack
    <2>3. Outcome[o] = "new" /\ Outcome'[o] = "open"
      BY <1>a, <1>b, <1>c, <2>1, <2>2 DEF Fates
    <2>4. \A x \in Ops \ {o} : Outcome'[x] = Outcome[x]
      BY <1>a, <1>b, <1>c, <2>1, <2>2 DEF Fates
    <2>5. \A x \in Ops \ {o} : Outcome[x] \notin {"open", "sent"}
      <3> TAKE x \in Ops \ {o}
      <3>1. ~Unfinished(x)
        BY <1>a, <1>1 DEF Effect, Generates
      <3>2. CASE x \notin used
        BY <1>b, <3>2 DEF Fates
      <3>3. CASE operator[x] = "finalized"
        BY <1>b, <3>3 DEF Fates
      <3>4. CASE x \in used /\ operator[x] # "finalized"
        <4>1. journal[x] = NoRec
          BY <1>a, <3>1, <3>4 DEF Unfinished, IInv, ConfirmedIsFinal, Stored
        <4>2. x \in resolved /\ submits[x] = 0
          BY <1>c, <3>4, <4>1 DEF RInv, Accounted
        <4> QED
          BY <1>b, <3>4, <4>2 DEF Fates
      <3> QED
        BY <3>2, <3>3, <3>4
    <2>6. Outcome' = [Outcome EXCEPT ![o] = "open"]
      BY <2>3, <2>4, OutcomeChanges
    <2>7. Promise!Begin(o)
      BY <2>3, <2>5, <2>6 DEF Promise!Begin, Promise!Become
    <2> QED
      BY <2>7 DEF Promise!PromiseNext
  <1>2. CASE used' = used /\ submits' # submits
    <2> DEFINE o == cur[t]
    <2>1. advanceAuthorizedVtxoSpend(t)
      BY <1>a, <1>2 DEF Frame
    <2>2. copy[t] # NoRec /\ o \in Ops /\ journal[o] = copy[t] /\ ~copy[t].attempted
      BY <1>a, <2>1 DEF advanceAuthorizedVtxoSpend, At, IInv, Working, Holding, Between, CopyIsCurrent
    <2>3. submits[o] = 0 /\ o \in used /\ o \notin resolved
      BY <1>a, <1>c, <2>2 DEF IInv, AttemptIsRecorded
    <2>4. submits' = [submits EXCEPT ![o] = submits[o] + 1] /\ resolved' = resolved
      BY <2>1, Zenon DEF advanceAuthorizedVtxoSpend
    <2>5. submits'[o] > 0 /\ \A x \in Ops \ {o} : submits'[x] = submits[x]
      BY <1>c, <2>2, <2>3, <2>4
    <2>6. operator[o] # "finalized"
      BY <1>c, <2>2, <2>3
    <2>7. Outcome[o] = "open" /\ Outcome'[o] = "sent"
      BY <1>a, <1>b, <2>2, <2>3, <2>5, <2>6 DEF Fates
    <2>8. \A x \in Ops \ {o} : Outcome'[x] = Outcome[x]
      BY <1>a, <1>b, <1>c, <1>2, <2>4, <2>5 DEF Fates
    <2>9. Promise!SendOnce(o)
      BY <2>2, <2>7, <2>8, OutcomeChanges DEF Promise!SendOnce, Promise!Become
    <2> QED
      BY <2>2, <2>9 DEF Promise!PromiseNext
  <1>3. CASE UNCHANGED <<used, submits>> /\ Clears(t)
    <2>1. PICK o \in Ops : journal[o] # NoRec /\ resolved' = resolved \cup {o} /\ Clearable(t, o)
      BY <1>3 DEF Clears
    <2>2. \A x \in Ops \ {o} : Outcome'[x] = Outcome[x]
      BY <1>a, <1>b, <1>c, <1>3, <2>1 DEF Fates
    <2>3. CASE submits[o] = 0
      <3>1. Outcome[o] = "open" /\ Outcome'[o] = "dropped"
        BY <1>a, <1>b, <1>c, <1>3, <2>1, <2>3 DEF Fates
      <3>2. Promise!Drop(o)
        BY <2>2, <3>1, OutcomeChanges DEF Promise!Drop, Promise!Become
      <3> QED
        BY <3>2 DEF Promise!PromiseNext
    <2>4. CASE submits[o] # 0
      <3>1. operator[o] = "finalized"
        BY <1>c, <2>1, <2>4, ClearedFacts
      <3>2. Outcome'[o] = Outcome[o]
        BY <1>a, <1>b, <3>1 DEF Fates
      <3> QED
        BY <2>2, <3>2, OutcomeStays
    <2> QED
      BY <2>3, <2>4
  <1>4. CASE UNCHANGED <<used, submits>> /\ Moves(t)
    <2>1. resolved' = resolved
      BY <1>4 DEF Moves
    <2>2. \A x \in Ops : Outcome'[x] = Outcome[x]
      BY <1>a, <1>4, <2>1 DEF Outcome
    <2> QED
      BY <2>2, OutcomeStays
  <1> QED
    BY <1>a, <1>1, <1>2, <1>3, <1>4 DEF Effect

(* A step of the services settles one payment, or nothing. *)
LEMMA ServicePromise ==
    ASSUME RInv, RInv', ServiceStep
    PROVE  [Promise!PromiseNext]_Outcome
  <1>a. UNCHANGED <<resolved, used, submits>>
    BY ServiceFrame
  <1>b. Fates /\ Fates'
    BY FatesNow, PTL
  <1>c. /\ operator \in [Ops -> OperatorStates] /\ submits \in [Ops -> Nat]
        /\ \A o \in Ops : operator[o] # "none" => submits[o] > 0
        /\ \A o \in Ops : Asked("submit", o) => submits[o] > 0
        /\ net \subseteq [call : Calls, op : Ops]
    BY DEF RInv, IInv, TypeOK, ServiceTypeOK, RequestsHold
  <1>1. CASE operator' = operator
    BY <1>a, <1>1, OutcomeStays DEF Outcome
  <1>2. CASE OperatorSubmit
    <2>1. PICK m \in Requests("submit") :
             operator[m.op] = "none" /\ operator' = [operator EXCEPT ![m.op] = "pending"]
      BY <1>2 DEF OperatorSubmit
    <2>2. \A x \in Ops : operator'[x] = "finalized" <=> operator[x] = "finalized"
      BY <1>c, <2>1
    <2>3. \A x \in Ops : Outcome'[x] = Outcome[x]
      BY <1>a, <2>2 DEF Outcome
    <2> QED
      BY <2>3, OutcomeStays
  <1>3. CASE OperatorFinalize
    <2>1. PICK m \in Requests("finalize") :
             /\ operator[m.op] \in {"pending", "finalized"}
             /\ operator' = [operator EXCEPT ![m.op] = "finalized"]
      BY <1>3 DEF OperatorFinalize
    <2>2. m.op \in Ops
      BY <1>c DEF Requests
    <2>3. \A x \in Ops \ {m.op} : Outcome'[x] = Outcome[x]
      BY <1>a, <1>c, <2>1, <2>2 DEF Outcome
    <2>4. CASE operator[m.op] = "finalized"
      BY <1>c, <2>1, <2>4, <1>1
    <2>5. CASE operator[m.op] = "pending"
      <3>1. Outcome[m.op] = "sent" /\ Outcome'[m.op] = "settled"
        BY <1>b, <1>c, <2>1, <2>2, <2>5 DEF Fates
      <3>2. Promise!Settle(m.op)
        BY <2>2, <2>3, <3>1, OutcomeChanges DEF Promise!Settle, Promise!Become
      <3> QED
        BY <2>2, <3>2 DEF Promise!PromiseNext
    <2> QED
      BY <2>1, <2>4, <2>5
  <1>4. OperatorSubmit \/ OperatorFinalize \/ operator' = operator
    BY DEF ServiceStep, GuardianReserve, GuardianAbort, GuardianAuthorize, GuardianCheckpoints,
      GuardianReceipt, LoseRequest, GuardianExpire, GuardianObserve, captureVaultRecoveryFile, services
  <1> QED
    BY <1>1, <1>2, <1>3, <1>4

(* The owner keeps its promise: payments go out one at a time, a payment is *)
(* sent at most once, and a payment that was dropped is never sent          *)
(* (prepareVtxoSpendLocked, advanceAuthorizedVtxoSpend).                    *)
THEOREM PromiseKept == Spec => KeepsPromise
  <1>1. Init => Promise!PromiseInit
    BY DEF Init, Outcome, Promise!PromiseInit
  <1>2. RInv /\ RInv' /\ [Next]_vars => [Promise!PromiseNext]_Outcome
    <2> SUFFICES ASSUME RInv, RInv', [Next]_vars PROVE [Promise!PromiseNext]_Outcome
      OBVIOUS
    <2>1. ASSUME NEW t \in Tabs, TabStep(t) PROVE [Promise!PromiseNext]_Outcome
      BY <2>1, TabPromise
    <2>2. CASE ServiceStep
      BY <2>2, ServicePromise
    <2>3. CASE UNCHANGED vars
      BY <2>3, OutcomeStays DEF vars, Outcome
    <2> QED
      BY <2>1, <2>2, <2>3 DEF Next
  <1> QED
    BY <1>1, <1>2, RecoverableAlways, PTL DEF Spec, KeepsPromise, Promise!PromiseSpec
===============================================================================
