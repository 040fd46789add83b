-------------------------- MODULE LedgerSavingsProofs --------------------------
(***************************************************************************)
(* Proofs about LedgerSavings, for any pages, candidates, coins and        *)
(* bounds: its types, that at most one approved payment can still be paid  *)
(* and it is the pending one, and that an approval is never lost, replaced *)
(* or taken back, restored files included.                                 *)
(***************************************************************************)
EXTENDS LedgerSavings, FiniteSetTheorems, TLAPS

-------------------------------------------------------------------------------
(* The inductive invariant                                                 *)

(* A candidate the chain held once, or can never hold. *)
Spent(c) == c \in seen \/ Conflicted(c)

(* What a record has in each phase: the phone signs before the device, and *)
(* both before the chain.                                                  *)
Formed(r) ==
    /\ r.phase = "prepared" => r.phone = Nothing
    /\ r.tx # Nothing <=> r.phase \in {"signed", "broadcast"}
    /\ r.tx # Nothing => r.phone # Nothing

(* A journal, stored or saved: one record for each candidate, and only     *)
(* those the chain has answered for in the history.                        *)
Sound(q, h) ==
    /\ \A r \in h \cup ({q} \ {Nothing}) : Formed(r)
    /\ \A r, s \in h : r.id = s.id => r = s
    /\ q # Nothing => q.id \notin Identities(h)
    /\ \A r \in h : Spent(r.id)

Journals ==
    /\ Sound(pending, history)
    /\ backup # Nothing => Sound(backup.pending, backup.history)

ChainSeen == \A c \in Candidates : chain[c] # "absent" => c \in seen

(* What the holder of the lock was told is still true when it saves.       *)
Answers ==
    /\ holder = Nothing => evidence = "none"
    /\ evidence \in Settled => pending # Nothing /\ Spent(pending.id)
    /\ evidence = "sent" => pending # Nothing /\ pending.tx # Nothing

(* A flight past its first steps works on a candidate.                     *)
Flights ==
    \A p \in Pages :
        flight[p].step \notin {"none", "load", "quote"} => flight[p].cand \in Candidates

IInv == TypeOK /\ Journals /\ ChainSeen /\ Answers /\ Flights

-------------------------------------------------------------------------------
(* The flights and the views of the pages *)

PagesTyped ==
    /\ open \subseteq Pages /\ flight \in [Pages -> Flight] /\ Flights
    /\ reading \in [Pages -> {"none", "current", "stale"}]
    /\ view \in [Pages -> View \cup {Nothing}] /\ faults \in 0..MaxFaults

FlightTyped == flight \in [Pages -> Flight] /\ Flights

(* A flight goes on with the candidate it has. *)
LEMMA GoesTyped ==
    ASSUME FlightTyped, NEW p \in Pages, NEW step \in Steps, Goes(p, step),
           step \in {"load", "quote"} \/ flight[p].cand \in Candidates
    PROVE  FlightTyped'
  BY DEF FlightTyped, Flights, Goes, Flight

(* A page without a flight. *)
LEMMA IdleTyped == Idle \in Flight /\ Idle.step = "none"
  BY DEF Idle, Flight, Kinds, Steps

(* A flight ends. *)
LEMMA EndsTyped ==
    ASSUME FlightTyped, NEW p \in Pages, Ends(p)
    PROVE  FlightTyped'
  BY IdleTyped DEF FlightTyped, Flights, Ends

(* A flight goes on or ends. *)
LEMMA ContinuesTyped ==
    ASSUME FlightTyped, NEW p \in Pages, NEW step \in Steps, Continues(p, step),
           step \in {"load", "quote"} \/ flight[p].cand \in Candidates
    PROVE  FlightTyped'
  BY GoesTyped, EndsTyped DEF Continues

(* What a page shows of a record is a view. *)
LEMMA ShownTyped ==
    ASSUME NEW r \in Record \cup {Nothing}
    PROVE  Shown(r) \in View \cup {Nothing}
  BY NullAssumption DEF Shown, Record, View

(* What it shows keeps its view typed. *)
LEMMA ShowsTyped ==
    ASSUME view \in [Pages -> View \cup {Nothing}], NEW p \in Pages,
           NEW r \in Record \cup {Nothing}, Shows(p, r)
    PROVE  view' \in [Pages -> View \cup {Nothing}]
  BY ShownTyped DEF Shows

(* A command that starts has a candidate unless it looks for one. *)
LEMMA RunTyped ==
    ASSUME IInv, NEW p \in Pages, NEW command \in Flight, run(p, command),
           command.step = "load" \/ command.cand \in Candidates
    PROVE  PagesTyped'
  <1>1. [command EXCEPT !.live = TRUE] \in Flight
    BY DEF Flight
  <1>2. PICK f \in Flight : f = [command EXCEPT !.live = TRUE]
    BY <1>1
  <1>3. f.step = command.step /\ f.cand = command.cand
    BY <1>2 DEF Flight
  <1>4. flight' = [flight EXCEPT ![p] = f]
    BY <1>2 DEF run
  <1>5. flight' \in [Pages -> Flight] /\ Flights'
    BY <1>3, <1>4 DEF IInv, TypeOK, Flights
  <1> QED
    BY <1>5 DEF run, IInv, TypeOK, PagesTyped

(* The session of a page and the start of its commands keep its types. *)
LEMMA SessionTyped ==
    ASSUME IInv, NEW p \in Pages,
           \/ Unlock(p) \/ Lock(p) \/ CancelApproval(p) \/ Close(p)
           \/ \E d \in Drafts : review(p, d) \/ approve(p, d)
           \/ reopen(p) \/ approveWithLedger(p)
    PROVE  PagesTyped'
  <1> USE DEF IInv, TypeOK
  <1>1. CASE Unlock(p)
    BY <1>1 DEF Unlock, PagesTyped, Flights
  <1>2. CASE Lock(p) \/ CancelApproval(p)
    <2>1. /\ cancel(p) /\ faults < MaxFaults /\ faults' = faults + 1
          /\ open' \subseteq open /\ (view' = view \/ view' = [view EXCEPT ![p] = Nothing])
      BY <1>2 DEF Lock, CancelApproval, Fault
    <2>2. flight' \in [Pages -> Flight] /\ Flights'
      <3>1. /\ [flight[p] EXCEPT !.live = FALSE] \in Flight
            /\ [flight[p] EXCEPT !.live = FALSE].step = flight[p].step
            /\ [flight[p] EXCEPT !.live = FALSE].cand = flight[p].cand
        BY DEF Flight
      <3>2. PICK f \in Flight : /\ f = [flight[p] EXCEPT !.live = FALSE]
                                /\ f.step = flight[p].step /\ f.cand = flight[p].cand
        BY <3>1
      <3>3. flight' = [flight EXCEPT ![p] = f]
        BY <2>1, <3>2 DEF cancel
      <3> QED
        BY <3>2, <3>3 DEF Flights
    <2>3. reading' \in [Pages -> {"none", "current", "stale"}]
      BY <2>1 DEF cancel
    <2>4. faults' \in 0..MaxFaults
      BY <2>1, BoundAssumption
    <2> QED
      BY <2>1, <2>2, <2>3, <2>4 DEF PagesTyped
  <1>3. CASE Close(p)
    <2>1. flight' \in [Pages -> Flight] /\ Flights'
      BY <1>3, IdleTyped DEF Close, Flights
    <2> QED
      BY <1>3, <2>1, BoundAssumption DEF Close, Fault, PagesTyped
  <1>4. ASSUME NEW d \in Drafts, review(p, d) \/ approve(p, d) PROVE PagesTyped'
    <2>1. PICK command \in Flight : run(p, command) /\ command.step = "load"
      <3>1. CASE review(p, d)
        <4> DEFINE f == [Idle EXCEPT !.kind = "review", !.step = "load", !.draft = d]
        <4>1. f \in Flight /\ f.step = "load"
          BY DEF Idle, Flight, Kinds, Steps
        <4> QED
          BY <3>1, <4>1 DEF review
      <3>2. CASE approve(p, d)
        <4> DEFINE f == [Idle EXCEPT !.kind = "approve", !.step = "load", !.draft = d]
        <4>1. f \in Flight /\ f.step = "load"
          BY DEF Idle, Flight, Kinds, Steps
        <4> QED
          BY <3>2, <4>1 DEF approve
      <3> QED
        BY <1>4, <3>1, <3>2
    <2> QED
      BY <2>1, RunTyped
  <1>5. CASE reopen(p) \/ approveWithLedger(p)
    <2>1. PICK v \in View : v = view[p]
      BY <1>5 DEF reopen, approveWithLedger
    <2>2. PICK command \in Flight : run(p, command) /\ command.cand = v.id
      <3>1. CASE reopen(p)
        <4> DEFINE f == [Idle EXCEPT !.kind = "reopen", !.step = "reconcile", !.cand = v.id]
        <4>1. f \in Flight /\ f.cand = v.id
          BY DEF Idle, Flight, Kinds, Steps, View
        <4> QED
          BY <2>1, <3>1, <4>1 DEF reopen
      <3>2. CASE approveWithLedger(p)
        <4> DEFINE f == [Idle EXCEPT !.kind = "hardware", !.step = "ready", !.cand = v.id,
                                     !.phone = v.phone]
        <4>1. f \in Flight /\ f.cand = v.id
          BY DEF Idle, Flight, Kinds, Steps, View
        <4> QED
          BY <2>1, <3>2, <4>1 DEF approveWithLedger
      <3> QED
        BY <1>5, <3>1, <3>2
    <2>3. v.id \in Candidates
      BY DEF View
    <2> QED
      BY <2>2, <2>3, RunTyped
  <1> QED
    BY <1>1, <1>2, <1>3, <1>4, <1>5

-------------------------------------------------------------------------------
(* The steps of a flight *)

(* The updates of a record are records. *)
LEMMA UpdatesTyped ==
    ASSUME NEW r \in Record, NEW p \in Pages
    PROVE  /\ [r EXCEPT !.phone = p] \in Record
           /\ [r EXCEPT !.tx = p, !.phase = IF @ = "broadcast" THEN @ ELSE "signed"] \in Record
           /\ [r EXCEPT !.phase = "broadcast"] \in Record
           /\ [r EXCEPT !.phase = IF @ = "prepared" THEN "signing" ELSE @] \in Record
  BY DEF Record, Phases

(* What a reconciliation saves is a record, and of the same payment. *)
LEMMA ReconciledTyped ==
    ASSUME IInv
    PROVE  Reconciled \in Record \cup {Nothing} /\ (Reconciled # pending => pending \in Record)
  <1>1. CASE evidence \in {"broadcast", "confirmed"} /\ pending.tx # Nothing
    <2>1. pending \in Record
      BY <1>1 DEF IInv, TypeOK, Answers, Settled
    <2> QED
      BY <1>1, <2>1, UpdatesTyped DEF Reconciled, Record, Phases
  <1>2. CASE ~(evidence \in {"broadcast", "confirmed"} /\ pending.tx # Nothing)
    BY <1>2 DEF Reconciled, IInv, TypeOK
  <1> QED
    BY <1>1, <1>2

Searching(p) ==
    \/ LoadForReview(p) \/ LoadForApproval(p) \/ quoteLedgerSavingsPayment(p)
    \/ Ready(p) \/ Fails(p) \/ Approved(p) \/ ReadLoads(p)

Asking(p) == AskOutcome(p) \/ AskCoins(p) \/ ReadAsks(p) \/ AskBroadcast(p)

Saving(p) ==
    \/ cancelLedgerSavingsPayment(p) \/ saveLedgerSavingsPhoneApproval(p)
    \/ saveLedgerSavingsSigned(p) \/ ReconcileReview(p) \/ ReconcileApproval(p)
    \/ ReconcileReopened(p) \/ retainLedgerSavingsPayment(p) \/ markLedgerSavingsSigning(p)
    \/ broadcastLedgerSavingsPayment(p) \/ ReadReconciles(p)

(* Reading the journal and choosing coins keep a page typed. *)
LEMMA SearchingTyped ==
    ASSUME IInv, NEW p \in Pages, Searching(p)
    PROVE  PagesTyped'
  <1> USE DEF IInv, TypeOK
  <1>a. FlightTyped /\ PagesTyped
    BY DEF FlightTyped, PagesTyped
  <1>b. Steps = {"none", "load", "reconcile", "drop", "quote", "retain", "mark", "unlock",
                 "save", "ready", "device", "keep", "send"}
    BY DEF Steps
  <1>1. CASE LoadForReview(p)
    <2>1. CASE Ends(p) \/ Goes(p, "quote")
      BY <1>1, <1>a, <1>b, <2>1, EndsTyped, GoesTyped DEF LoadForReview, page, FlightTyped, PagesTyped
    <2>2. CASE ~(Ends(p) \/ Goes(p, "quote"))
      <3>1. pending \in Record
        BY <1>1, <2>2 DEF LoadForReview
      <3>2. PICK step \in {"reconcile", "drop", "quote"} :
               flight' = [flight EXCEPT ![p].step = step, ![p].cand = pending.id,
                          ![p].was = pending.phase]
        BY <1>1, <2>2 DEF LoadForReview
      <3>3. PICK f : f = [flight[p] EXCEPT !.step = step, !.cand = pending.id, !.was = pending.phase]
        OBVIOUS
      <3>4. flight[p] \in Flight /\ step \in Steps
            /\ pending.id \in Candidates /\ pending.phase \in Phases
        BY <3>1, <1>b DEF Record
      <3>5. f \in Flight /\ f.cand = pending.id
        BY ONLY <3>3, <3>4 DEF Flight
      <3>6. flight' = [flight EXCEPT ![p] = f]
        BY <3>2, <3>3
      <3>7. flight' \in [Pages -> Flight] /\ Flights'
        BY <3>4, <3>5, <3>6 DEF Flights
      <3> QED
        BY <1>1, <3>7 DEF LoadForReview, page, PagesTyped
    <2> QED
      BY <2>1, <2>2
  <1>2. CASE LoadForApproval(p)
    <2>1. CASE Ends(p)
      BY <1>2, <1>a, <2>1, EndsTyped DEF LoadForApproval, page, FlightTyped, PagesTyped
    <2>2. CASE ~Ends(p)
      <3>1. pending \in Record
        BY <1>2, <2>2 DEF LoadForApproval
      <3>2. flight' = [flight EXCEPT ![p].step = "reconcile", ![p].draft = Nothing,
                       ![p].cand = pending.id]
        BY <1>2, <2>2 DEF LoadForApproval
      <3>3. PICK f : f = [flight[p] EXCEPT !.step = "reconcile", !.draft = Nothing, !.cand = pending.id]
        OBVIOUS
      <3>4. flight[p] \in Flight /\ "reconcile" \in Steps /\ pending.id \in Candidates
        BY <3>1, <1>b DEF Record
      <3>5. f \in Flight /\ f.cand = pending.id
        BY ONLY <3>3, <3>4 DEF Flight
      <3>6. flight' = [flight EXCEPT ![p] = f]
        BY <3>2, <3>3
      <3>7. flight' \in [Pages -> Flight] /\ Flights'
        BY <3>4, <3>5, <3>6 DEF Flights
      <3> QED
        BY <1>2, <3>7 DEF LoadForApproval, page, PagesTyped
    <2> QED
      BY <2>1, <2>2
  <1>3. CASE quoteLedgerSavingsPayment(p)
    <2>1. CASE Ends(p)
      BY <1>3, <1>a, <2>1, EndsTyped DEF quoteLedgerSavingsPayment, page, FlightTyped, PagesTyped
    <2>2. CASE ~Ends(p)
      <3>1. PICK c \in Candidates :
               flight' = [flight EXCEPT ![p] = [flight[p] EXCEPT !.step = "retain", !.cand = c,
                             !.draft = Nothing, !.was = Nothing]]
        BY <1>3, <2>2 DEF quoteLedgerSavingsPayment, Payments
      <3>2. PICK f : f = [flight[p] EXCEPT !.step = "retain", !.cand = c,
                             !.draft = Nothing, !.was = Nothing]
        OBVIOUS
      <3>3. f \in Flight /\ f.cand = c
        BY <3>2, <1>b DEF Flight
      <3>4. flight' \in [Pages -> Flight] /\ Flights'
        BY <3>1, <3>2, <3>3 DEF Flights
      <3> QED
        BY <1>3, <3>4 DEF quoteLedgerSavingsPayment, page, PagesTyped
    <2> QED
      BY <2>1, <2>2
  <1>4. CASE Ready(p)
    <2>1. FlightTyped'
      BY <1>4, <1>a, <1>b, EndsTyped, GoesTyped DEF Ready, At, Flights
    <2> QED
      BY <1>4, <2>1 DEF Ready, page, FlightTyped, PagesTyped
  <1>5. CASE Fails(p)
    BY <1>5, <1>a, EndsTyped DEF Fails, page, FlightTyped, PagesTyped
  <1>6. CASE Approved(p)
    <2>1. FlightTyped'
      BY <1>6, <1>a, <1>b, GoesTyped DEF Approved, Flights
    <2> QED
      BY <1>6, <2>1 DEF Approved, page, FlightTyped, PagesTyped
  <1>7. CASE ReadLoads(p)
    BY <1>7, ShownTyped DEF ReadLoads, PagesTyped, Flights
  <1> QED
    BY <1>1, <1>2, <1>3, <1>4, <1>5, <1>6, <1>7 DEF Searching

(* Asking the chain changes nothing of a page. *)
LEMMA AskingTyped ==
    ASSUME IInv, NEW p \in Pages, Asking(p)
    PROVE  PagesTyped'
  BY DEF IInv, TypeOK, Asking, AskOutcome, AskCoins, ReadAsks, AskBroadcast, page, PagesTyped, Flights

(* Saving keeps a page typed. *)
LEMMA SavingTyped ==
    ASSUME IInv, NEW p \in Pages, Saving(p)
    PROVE  PagesTyped'
  <1> USE DEF IInv, TypeOK
  <1>a. FlightTyped /\ PagesTyped
    BY DEF FlightTyped, PagesTyped
  <1>b. {"quote", "send", "drop", "mark", "unlock"} \subseteq Steps
    BY DEF Steps
  <1>c. Reconciled \in Record \cup {Nothing}
    BY ReconciledTyped
  <1>d. flight[p].step \in {"reconcile", "drop", "retain", "mark", "save", "keep", "send"} =>
          flight[p].cand \in Candidates
    BY DEF Flights
  <1>1. CASE cancelLedgerSavingsPayment(p)
    <2>1. FlightTyped'
      BY <1>1, <1>a, <1>b, EndsTyped, ContinuesTyped DEF cancelLedgerSavingsPayment
    <2> QED
      BY <1>1, <2>1 DEF cancelLedgerSavingsPayment, page, FlightTyped, PagesTyped
  <1>2. CASE saveLedgerSavingsPhoneApproval(p)
    <2>1. FlightTyped'
      BY <1>2, <1>a, EndsTyped DEF saveLedgerSavingsPhoneApproval
    <2>2. view' \in [Pages -> View \cup {Nothing}]
      <3>1. CASE view' = view
        BY <3>1
      <3>2. CASE pending \in Record /\ Shows(p, [pending EXCEPT !.phone = p])
        BY <3>2, UpdatesTyped, ShowsTyped
      <3> QED
        BY <1>2, <3>1, <3>2 DEF saveLedgerSavingsPhoneApproval, current
    <2> QED
      BY <1>2, <2>1, <2>2 DEF saveLedgerSavingsPhoneApproval, FlightTyped, PagesTyped
  <1>3. CASE saveLedgerSavingsSigned(p)
    <2> DEFINE signed == [pending EXCEPT !.tx = p,
                             !.phase = IF @ = "broadcast" THEN @ ELSE "signed"]
    <2>0. /\ \/ /\ current(flight[p].cand)
                /\ Shows(p, signed) /\ Continues(p, "send")
             \/ view' = view /\ Ends(p)
          /\ flight[p].step = "keep" /\ UNCHANGED <<open, reading, faults>>
      BY <1>3 DEF saveLedgerSavingsSigned, At
    <2>1. /\ Continues(p, "send") \/ Ends(p)
          /\ (view' = view \/ (pending \in Record /\ Shows(p, signed)))
          /\ flight[p].step = "keep" /\ UNCHANGED <<open, reading, faults>>
      <3> HIDE DEF signed
      <3> QED
        BY <2>0 DEF current
    <2>2. FlightTyped'
      BY <1>a, <1>b, <1>d, <2>1, EndsTyped, ContinuesTyped
    <2>3. pending \in Record => signed \in Record
      BY UpdatesTyped
    <2>4. view' \in [Pages -> View \cup {Nothing}]
      <3> HIDE DEF signed
      <3> QED
        BY <2>1, <2>3, ShowsTyped
    <2> QED
      BY <2>1, <2>2, <2>4 DEF FlightTyped, PagesTyped
  <1>4. CASE ReconcileReview(p) \/ ReconcileApproval(p) \/ ReconcileReopened(p)
    <2>1. /\ Ends(p) \/ \E step \in {"drop", "quote", "send", "mark"} : Continues(p, step)
          /\ (view' = view \/ Shows(p, Reconciled))
          /\ flight[p].step = "reconcile" /\ UNCHANGED <<open, reading, faults>>
      BY <1>4 DEF ReconcileReview, ReconcileApproval, ReconcileReopened, At, page
    <2>2. FlightTyped'
      BY <1>a, <1>b, <1>d, <2>1, EndsTyped, ContinuesTyped
    <2>3. view' \in [Pages -> View \cup {Nothing}]
      BY <1>c, <2>1, ShowsTyped
    <2> QED
      BY <2>1, <2>2, <2>3 DEF FlightTyped, PagesTyped
  <1>5. CASE retainLedgerSavingsPayment(p)
    <2> DEFINE c == flight[p].cand
               kept == IF current(c) THEN pending ELSE Prepared(c)
    <2>1. /\ Ends(p) /\ (view' = view \/ Shows(p, kept))
          /\ flight[p].step = "retain" /\ UNCHANGED <<open, reading, faults>>
      BY <1>5 DEF retainLedgerSavingsPayment, At
    <2>2. kept \in Record
      BY <1>d, <2>1 DEF current, Prepared, Record, Phases
    <2>3. view' \in [Pages -> View \cup {Nothing}]
      <3> HIDE DEF kept
      <3> QED
        BY <2>1, <2>2, ShowsTyped
    <2>4. FlightTyped'
      BY <1>a, <2>1, EndsTyped
    <2> HIDE DEF kept, c
    <2> QED
      BY <2>1, <2>3, <2>4 DEF FlightTyped, PagesTyped
  <1>6. CASE markLedgerSavingsSigning(p)
    <2> DEFINE marked == [pending EXCEPT !.phase = IF @ = "prepared" THEN "signing" ELSE @]
    <2>0. /\ Goes(p, "unlock") \/ Ends(p)
          /\ (view' = view \/ (current(flight[p].cand) /\ Shows(p, marked)))
          /\ flight[p].step = "mark" /\ UNCHANGED <<open, reading, faults>>
      BY <1>6 DEF markLedgerSavingsSigning, At
    <2>1. (view' = view \/ (pending \in Record /\ Shows(p, marked)))
      <3> HIDE DEF marked
      <3> QED
        BY <2>0 DEF current
    <2>2. FlightTyped'
      BY <1>a, <1>b, <1>d, <2>0, EndsTyped, GoesTyped
    <2>3. pending \in Record => marked \in Record
      BY UpdatesTyped
    <2>4. view' \in [Pages -> View \cup {Nothing}]
      <3> HIDE DEF marked
      <3> QED
        BY <2>1, <2>3, ShowsTyped
    <2> QED
      BY <2>0, <2>2, <2>4 DEF FlightTyped, PagesTyped
  <1>7. CASE broadcastLedgerSavingsPayment(p)
    BY <1>7, <1>a, EndsTyped DEF broadcastLedgerSavingsPayment, page, FlightTyped, PagesTyped
  <1>8. CASE ReadReconciles(p)
    <2>1. view' \in [Pages -> View \cup {Nothing}]
      BY <1>8, <1>c, ShownTyped DEF ReadReconciles
    <2> QED
      BY <1>8, <2>1 DEF ReadReconciles, PagesTyped, Flights
  <1> QED
    BY <1>1, <1>2, <1>3, <1>4, <1>5, <1>6, <1>7, <1>8 DEF Saving

-------------------------------------------------------------------------------
(* Records that cover others *)

(* A record of the same payment that is as far and keeps its approvals. *)
Covers(r, s) ==
    /\ s.id = r.id /\ Rank(s.phase) >= Rank(r.phase)
    /\ r.phone # Nothing => s.phone = r.phone
    /\ r.tx # Nothing => s.tx = r.tx

(* The order of the phases. *)
LEMMA RankOrder ==
    /\ Rank("prepared") = 0 /\ Rank("signing") = 1
    /\ Rank("signed") = 2 /\ Rank("broadcast") = 3
    /\ \A phase \in Phases : Rank(phase) \in 0..3
  BY DEF Rank, Phases

(* Covering is reflexive and transitive. *)
LEMMA CoversOrder ==
    ASSUME NEW r \in Record, NEW s \in Record, NEW t \in Record
    PROVE  Covers(r, r) /\ (Covers(r, s) /\ Covers(s, t) => Covers(r, t))
  <1>1. /\ Rank(r.phase) \in 0..3 /\ Rank(s.phase) \in 0..3 /\ Rank(t.phase) \in 0..3
    BY RankOrder DEF Record
  <1> QED
    BY <1>1 DEF Covers

(* Of two records of a payment that do not contradict each other, the one  *)
(* a merge keeps covers both.                                              *)
LEMMA MergeCovers ==
    ASSUME NEW r \in Record, NEW a \in Record, r.id = a.id, Formed(r), Formed(a),
           ~Conflicting(r, a)
    PROVE  Merge(r, a) \in {r, a} /\ Covers(r, Merge(r, a)) /\ Covers(a, Merge(r, a))
  <1>1. r.phase \in Phases /\ a.phase \in Phases
    BY DEF Record
  <1>2. /\ r.phone # Nothing /\ a.phone # Nothing => r.phone = a.phone
        /\ r.tx # Nothing /\ a.tx # Nothing => r.tx = a.tx
    BY DEF Conflicting
  <1>3. CASE Rank(a.phase) > Rank(r.phase)
    <2>1. Merge(r, a) = a
      BY <1>3 DEF Merge
    <2> QED
      BY <1>1, <1>2, <1>3, <2>1, RankOrder DEF Covers, Formed, Phases
  <1>4. CASE ~(Rank(a.phase) > Rank(r.phase)) /\ r.phone = Nothing /\ a.phone # Nothing
    <2>1. Merge(r, a) = a
      BY <1>4 DEF Merge
    <2> QED
      BY <1>1, <1>2, <1>4, <2>1, RankOrder DEF Covers, Formed, Phases
  <1>5. CASE ~(Rank(a.phase) > Rank(r.phase)) /\ ~(r.phone = Nothing /\ a.phone # Nothing)
    <2>1. Merge(r, a) = r
      BY <1>5 DEF Merge
    <2> QED
      BY <1>1, <1>2, <1>5, <2>1, RankOrder DEF Covers, Formed, Phases
  <1> QED
    BY <1>3, <1>4, <1>5

(* One record for each payment. *)
Unique(rs) == \A r, s \in rs : r.id = s.id => r = s

(* Merging two sets of records. *)
LEMMA MergedCovers ==
    ASSUME NEW A \in SUBSET Record, NEW B \in SUBSET Record, Unique(A), Unique(B),
           \A r \in A \cup B : Formed(r),
           \A r \in A, b \in B : r.id = b.id => ~Conflicting(r, b)
    PROVE  /\ Merged(A, B) \subseteq A \cup B /\ Unique(Merged(A, B))
           /\ \A r \in A \cup B : \E s \in Merged(A, B) : Covers(r, s)
           /\ \A s \in Merged(A, B) : s.id \notin Identities(A) => s \in B
           /\ \A s \in Merged(A, B) : s.id \notin Identities(B) => s \in A
  <1> DEFINE M(r) == IF \E b \in B : b.id = r.id
                     THEN Merge(r, CHOOSE b \in B : b.id = r.id) ELSE r
             N == {b \in B : b.id \notin Identities(A)}
  <1>1. Merged(A, B) = {M(r) : r \in A} \cup N
    BY DEF Merged
  <1>2. ASSUME NEW r \in A, NEW b \in B, b.id = r.id
        PROVE  M(r) \in {r, b} /\ Covers(r, M(r)) /\ Covers(b, M(r))
    <2>1. b = CHOOSE x \in B : x.id = r.id
      BY <1>2 DEF Unique
    <2>2. M(r) = Merge(r, b)
      BY <1>2, <2>1
    <2>3. r \in Record /\ b \in Record /\ Formed(r) /\ Formed(b) /\ ~Conflicting(r, b)
      BY <1>2
    <2> QED
      BY <1>2, <2>2, <2>3, MergeCovers
  <1>3. ASSUME NEW r \in A, ~\E b \in B : b.id = r.id
        PROVE  M(r) = r /\ Covers(r, M(r))
    BY <1>3, CoversOrder
  <1>4. \A r \in A : M(r) \in A \cup B /\ M(r).id = r.id /\ Covers(r, M(r))
    BY <1>2, <1>3
  <1> HIDE DEF M
  <1>5. Merged(A, B) \subseteq A \cup B
    BY <1>1, <1>4
  <1>6. Unique(Merged(A, B))
    <2> SUFFICES ASSUME NEW s \in Merged(A, B), NEW t \in Merged(A, B), s.id = t.id
                 PROVE  s = t
      BY DEF Unique
    <2>1. CASE s \in N /\ t \in N
      BY <2>1 DEF Unique
    <2>2. CASE s \notin N \/ t \notin N
      <3>1. ASSUME NEW x \in {s, t}, x \notin N PROVE \E r \in A : x = M(r) /\ r.id = s.id
        BY <3>1, <1>1, <1>4
      <3>2. s.id \in Identities(A)
        BY <2>2, <3>1 DEF Identities
      <3>3. s \notin N /\ t \notin N
        BY <3>2
      <3>4. PICK r \in A : s = M(r) /\ r.id = s.id
        BY <3>1, <3>3
      <3>5. PICK q \in A : t = M(q) /\ q.id = s.id
        BY <3>1, <3>3
      <3> QED
        BY <3>4, <3>5 DEF Unique
    <2> QED
      BY <2>1, <2>2
  <1>7. ASSUME NEW r \in A \cup B PROVE \E s \in Merged(A, B) : Covers(r, s)
    <2>1. CASE r \in A
      BY <2>1, <1>1, <1>4
    <2>2. CASE r \in N
      BY <2>2, <1>1, CoversOrder
    <2>3. CASE r \in B /\ r \notin N
      <3>1. PICK q \in A : q.id = r.id
        BY <2>3 DEF Identities
      <3>2. Covers(r, M(q))
        BY <2>3, <3>1, <1>2
      <3> QED
        BY <3>2, <1>1
    <2> QED
      BY <2>1, <2>2, <2>3
  <1>8. ASSUME NEW s \in Merged(A, B), s.id \notin Identities(A) PROVE s \in B
    BY <1>1, <1>4, <1>8 DEF Identities
  <1>9. ASSUME NEW s \in Merged(A, B), s.id \notin Identities(B) PROVE s \in A
    <2>1. ~\E b \in B : b.id = s.id
      BY <1>9 DEF Identities
    <2>2. PICK r \in A : s = M(r)
      BY <2>1, <1>1
    <2> QED
      BY <2>1, <2>2, <1>3, <1>4
  <1> QED
    BY <1>5, <1>6, <1>7, <1>8, <1>9

-------------------------------------------------------------------------------
(* The moves of the journal *)

Kept == pending' = pending /\ history' = history

(* The pending record goes on. *)
Advances ==
    /\ history' = history
    /\ pending \in Record /\ pending' \in Record
    /\ Formed(pending') /\ Covers(pending, pending')

(* A payment nothing was signed for is dropped. *)
DropsPrepared ==
    /\ history' = history
    /\ pending \in Record /\ pending.phase = "prepared" /\ pending' = Nothing

(* A new payment takes the place of one the chain has answered for. *)
Retains ==
    \E c \in Candidates :
        /\ c \notin Identities(history) /\ ~current(c)
        /\ pending' = Prepared(c) /\ history' = Records
        /\ pending # Nothing => Spent(pending.id)

JournalMoves == Kept \/ Advances \/ DropsPrepared \/ Retains

(* A record with an update of one approval or of its phase. *)
LEMMA UpdatesCover ==
    ASSUME NEW r \in Record, NEW p \in Pages, Formed(r)
    PROVE  /\ r.phase = "signing" /\ r.phone \in {Nothing, p} =>
                Formed([r EXCEPT !.phone = p]) /\ Covers(r, [r EXCEPT !.phone = p])
           /\ r.phone # Nothing /\ r.tx \in {Nothing, p} =>
                LET s == [r EXCEPT !.tx = p,
                             !.phase = IF @ = "broadcast" THEN @ ELSE "signed"]
                IN  Formed(s) /\ Covers(r, s)
           /\ r.tx # Nothing =>
                LET s == [r EXCEPT !.phase = "broadcast"]
                IN  Formed(s) /\ Covers(r, s)
           /\ LET s == [r EXCEPT !.phase = IF @ = "prepared" THEN "signing" ELSE @]
              IN  Formed(s) /\ Covers(r, s)
  <1>1. /\ r.phase \in Phases /\ p # Nothing
        /\ Rank(r.phase) \in 0..3
    BY NullAssumption, RankOrder DEF Record
  <1>2. ASSUME r.phase = "signing", r.phone \in {Nothing, p}
        PROVE  Formed([r EXCEPT !.phone = p]) /\ Covers(r, [r EXCEPT !.phone = p])
    <2>1. PICK s \in Record : s = [r EXCEPT !.phone = p]
      BY UpdatesTyped
    <2>2. s.id = r.id /\ s.phase = r.phase /\ s.phone = p /\ s.tx = r.tx
      BY <2>1 DEF Record
    <2>3. Formed(s) /\ Covers(r, s)
      BY <1>1, <1>2, <2>2 DEF Formed, Covers
    <2> QED
      BY <2>1, <2>3
  <1>3. ASSUME r.phone # Nothing, r.tx \in {Nothing, p},
               NEW s, s = [r EXCEPT !.tx = p,
                             !.phase = IF @ = "broadcast" THEN @ ELSE "signed"]
        PROVE  Formed(s) /\ Covers(r, s)
    <2>1. /\ s.id = r.id /\ s.phone = r.phone /\ s.tx = p
          /\ s.phase = IF r.phase = "broadcast" THEN "broadcast" ELSE "signed"
      BY <1>3 DEF Record
    <2>2. Formed(s)
      BY <1>1, <1>3, <2>1 DEF Formed
    <2>3. Rank(s.phase) >= Rank(r.phase)
      BY <1>1, <2>1, RankOrder DEF Phases
    <2> QED
      BY <1>3, <2>1, <2>2, <2>3 DEF Covers
  <1>4. ASSUME r.tx # Nothing, NEW s, s = [r EXCEPT !.phase = "broadcast"]
        PROVE  Formed(s) /\ Covers(r, s)
    <2>1. s.id = r.id /\ s.phone = r.phone /\ s.tx = r.tx /\ s.phase = "broadcast"
      BY <1>4 DEF Record
    <2>2. Formed(s)
      BY <1>4, <2>1 DEF Formed
    <2>3. Rank(s.phase) >= Rank(r.phase)
      BY <1>1, <2>1, RankOrder
    <2> QED
      BY <1>4, <2>1, <2>2, <2>3 DEF Covers
  <1>5. ASSUME NEW s, s = [r EXCEPT !.phase = IF @ = "prepared" THEN "signing" ELSE @]
        PROVE  Formed(s) /\ Covers(r, s)
    <2>1. /\ s.id = r.id /\ s.phone = r.phone /\ s.tx = r.tx
          /\ s.phase = IF r.phase = "prepared" THEN "signing" ELSE r.phase
      BY <1>5 DEF Record
    <2>2. Formed(s)
      BY <1>1, <2>1 DEF Formed
    <2>3. Rank(s.phase) >= Rank(r.phase)
      BY <1>1, <2>1, RankOrder DEF Phases
    <2> QED
      BY <1>5, <2>1, <2>2, <2>3 DEF Covers
  <1> QED
    BY <1>2, <1>3, <1>4, <1>5

(* A reconciliation moves the journal on or leaves it. *)
LEMMA ReconciledMoves ==
    ASSUME IInv, pending' = Reconciled, history' = history
    PROVE  JournalMoves
  <1>1. CASE evidence \in {"broadcast", "confirmed"} /\ pending.tx # Nothing
    <2>1. pending \in Record /\ Formed(pending)
      BY <1>1 DEF IInv, TypeOK, Answers, Settled, Journals, Sound
    <2>2. pending' = [pending EXCEPT !.phase = "broadcast"]
      BY <1>1 DEF Reconciled
    <2>3. pending' \in Record
      BY <2>1, <2>2 DEF Record, Phases
    <2>4. Formed(pending') /\ Covers(pending, pending')
      <3>1. PICK p : p = pending
        OBVIOUS
      <3>2. [p EXCEPT !.phase = "broadcast"].id = p.id /\
            [p EXCEPT !.phase = "broadcast"].phone = p.phone /\
            [p EXCEPT !.phase = "broadcast"].tx = p.tx /\
            [p EXCEPT !.phase = "broadcast"].phase = "broadcast"
        BY <2>1, <3>1 DEF Record
      <3>3. /\ pending'.id = pending.id /\ pending'.phone = pending.phone
            /\ pending'.tx = pending.tx /\ pending'.phase = "broadcast"
        BY <2>2, <3>1, <3>2
      <3>4. Rank("broadcast") >= Rank(pending.phase)
        BY <2>1, RankOrder DEF Record
      <3> QED
        BY <1>1, <2>1, <3>3, <3>4 DEF Formed, Covers
    <2> QED
      BY <2>1, <2>3, <2>4 DEF JournalMoves, Advances
  <1>2. CASE ~(evidence \in {"broadcast", "confirmed"} /\ pending.tx # Nothing)
    BY <1>2 DEF Reconciled, JournalMoves, Kept
  <1> QED
    BY <1>1, <1>2

(* An update that covers the pending record moves the journal. *)
LEMMA AdvanceMoves ==
    ASSUME pending \in Record, pending' \in Record, Formed(pending'),
           Covers(pending, pending'), history' = history
    PROVE  JournalMoves
  BY DEF JournalMoves, Advances

(* What each save does to the journal, and that it gives the lock back. *)
LEMMA SavingMoves ==
    ASSUME IInv, NEW p \in Pages, Saving(p)
    PROVE  /\ JournalMoves /\ UNCHANGED <<backup, network>>
           /\ holder' = Nothing /\ evidence' = "none"
  <1>a. /\ pending \in Record \cup {Nothing}
        /\ pending # Nothing => pending \in Record /\ Formed(pending)
    BY DEF IInv, TypeOK, Journals, Sound
  <1>b. holder = Nothing => evidence = "none"
    BY DEF IInv, Answers
  <1>1. UNCHANGED <<backup, network>> /\ holder' = Nothing /\ evidence' = "none"
    <2>1. \/ Releases
          \/ holder = Nothing /\ UNCHANGED <<holder, evidence>>
      BY DEF Saving, cancelLedgerSavingsPayment, saveLedgerSavingsPhoneApproval,
             saveLedgerSavingsSigned, ReconcileReview, ReconcileApproval, ReconcileReopened,
             retainLedgerSavingsPayment, markLedgerSavingsSigning,
             broadcastLedgerSavingsPayment, ReadReconciles
    <2>2. UNCHANGED <<backup, network>>
      BY DEF Saving, cancelLedgerSavingsPayment, saveLedgerSavingsPhoneApproval,
             saveLedgerSavingsSigned, ReconcileReview, ReconcileApproval, ReconcileReopened,
             retainLedgerSavingsPayment, markLedgerSavingsSigning,
             broadcastLedgerSavingsPayment, ReadReconciles
    <2> QED
      BY <1>b, <2>1, <2>2 DEF Releases
  <1>2. JournalMoves
    <2>1. CASE cancelLedgerSavingsPayment(p)
      BY <2>1, <1>a DEF cancelLedgerSavingsPayment, current, JournalMoves, Kept, DropsPrepared
    <2>2. CASE saveLedgerSavingsPhoneApproval(p)
      <3>1. history' = history
        BY <2>2 DEF saveLedgerSavingsPhoneApproval
      <3>2. CASE pending' = pending
        BY <3>1, <3>2 DEF JournalMoves, Kept
      <3>3. CASE pending' # pending
        <4>1. /\ current(flight[p].cand) /\ pending.phase = "signing"
              /\ pending.phone \in {Nothing, p} /\ pending' = [pending EXCEPT !.phone = p]
          BY <2>2, <3>3 DEF saveLedgerSavingsPhoneApproval
        <4>2. pending \in Record /\ Formed(pending)
          BY <1>a, <4>1 DEF current
        <4>3. pending' \in Record /\ Formed(pending') /\ Covers(pending, pending')
          BY <4>1, <4>2, UpdatesTyped, UpdatesCover
        <4> QED
          BY <3>1, <4>2, <4>3, AdvanceMoves
      <3> QED
        BY <3>2, <3>3
    <2>3. CASE saveLedgerSavingsSigned(p)
      <3>1. history' = history
        BY <2>3 DEF saveLedgerSavingsSigned
      <3>2. CASE pending' = pending
        BY <3>1, <3>2 DEF JournalMoves, Kept
      <3>3. CASE pending' # pending
        <4>1. /\ current(flight[p].cand) /\ pending.phone # Nothing
              /\ pending.tx \in {Nothing, p}
              /\ pending' = [pending EXCEPT !.tx = p,
                                !.phase = IF @ = "broadcast" THEN @ ELSE "signed"]
          BY <2>3, <3>3 DEF saveLedgerSavingsSigned
        <4>2. pending \in Record /\ Formed(pending)
          BY <1>a, <4>1 DEF current
        <4>3. pending' \in Record
          BY <4>1, <4>2, UpdatesTyped
        <4>4. Formed(pending') /\ Covers(pending, pending')
          BY <4>1, <4>2, UpdatesCover
        <4> QED
          BY <3>1, <4>2, <4>3, <4>4, AdvanceMoves
      <3> QED
        BY <3>2, <3>3
    <2>4. CASE ReconcileReview(p) \/ ReconcileApproval(p) \/ ReconcileReopened(p)
      <3>1. pending' = Reconciled /\ history' = history
        BY <2>4 DEF ReconcileReview, ReconcileApproval, ReconcileReopened
      <3> QED
        BY <3>1, ReconciledMoves
    <2>5. CASE retainLedgerSavingsPayment(p)
      <3>1. flight[p].cand \in Candidates
        BY <2>5 DEF retainLedgerSavingsPayment, At, IInv, Flights
      <3>2. PICK c \in Candidates : c = flight[p].cand
        BY <3>1
      <3>3. CASE Kept
        BY <3>3 DEF JournalMoves
      <3>4. CASE ~Kept
        <4>1. Retainable(c) /\ ~current(c) /\ pending' = Prepared(c) /\ history' = Records
          BY <2>5, <3>2, <3>4 DEF retainLedgerSavingsPayment, Kept
        <4>2. c \notin Identities(history) /\ (pending # Nothing => evidence \in Settled)
          BY <4>1 DEF Retainable
        <4>3. pending # Nothing => Spent(pending.id)
          BY <4>2 DEF IInv, Answers
        <4> QED
          BY <4>1, <4>2, <4>3 DEF JournalMoves, Retains
      <3> QED
        BY <3>3, <3>4
    <2>6. CASE markLedgerSavingsSigning(p)
      <3>1. history' = history
        BY <2>6 DEF markLedgerSavingsSigning
      <3>2. CASE pending' = pending
        BY <3>1, <3>2 DEF JournalMoves, Kept
      <3>3. CASE pending' # pending
        <4>1. /\ current(flight[p].cand)
              /\ pending' = [pending EXCEPT !.phase = IF @ = "prepared" THEN "signing" ELSE @]
          BY <2>6, <3>3 DEF markLedgerSavingsSigning
        <4>2. pending \in Record /\ Formed(pending)
          BY <1>a, <4>1 DEF current
        <4>3. pending' \in Record
          BY <4>1, <4>2, UpdatesTyped
        <4>4. Formed(pending') /\ Covers(pending, pending')
          BY <4>1, <4>2, UpdatesCover
        <4> QED
          BY <3>1, <4>2, <4>3, <4>4, AdvanceMoves
      <3> QED
        BY <3>2, <3>3
    <2>7. CASE broadcastLedgerSavingsPayment(p)
      <3>1. /\ history' = history /\ evidence = "sent"
            /\ pending' = [pending EXCEPT !.phase = "broadcast"]
        BY <2>7 DEF broadcastLedgerSavingsPayment
      <3>2. pending \in Record /\ Formed(pending) /\ pending.tx # Nothing
        BY <1>a, <3>1 DEF IInv, Answers
      <3>3. pending' \in Record
        BY <3>1, <3>2, UpdatesTyped
      <3>4. Formed(pending') /\ Covers(pending, pending')
        BY <3>1, <3>2, UpdatesCover
      <3> QED
        BY <3>1, <3>2, <3>3, <3>4, AdvanceMoves
    <2>8. CASE ReadReconciles(p)
      <3>1. history' = history /\ (pending' = pending \/ pending' = Reconciled)
        BY <2>8 DEF ReadReconciles
      <3> QED
        BY <3>1, ReconciledMoves DEF JournalMoves, Kept
    <2> QED
      BY <2>1, <2>2, <2>3, <2>4, <2>5, <2>6, <2>7, <2>8 DEF Saving
  <1> QED
    BY <1>1, <1>2

-------------------------------------------------------------------------------
(* The chain *)

(* What the chain has answered for, it answers for later. *)
Later == \A c \in Candidates : Spent(c) => Spent(c)'

ChainTyped ==
    /\ chain \in [Candidates -> {"absent", "mempool", "confirmed"}]
    /\ foreign \subseteq Coins /\ seen \subseteq Candidates

(* What stays true while confirmations stay and the other spends grow. *)
LEMMA LaterKeeps ==
    ASSUME seen \subseteq seen', foreign \subseteq foreign',
           \A x \in Candidates : chain[x] = "confirmed" => chain'[x] = "confirmed"
    PROVE  Later
  BY DEF Later, Spent, Conflicted

(* The chain takes a candidate it has seen. *)
LEMMA HoldingKeeps ==
    ASSUME ChainTyped, ChainSeen, NEW c \in Candidates, NEW state \in {"mempool", "confirmed"},
           chain' = Holding(c, state), seen \subseteq seen', seen' \subseteq Candidates,
           c \in seen', foreign' = foreign
    PROVE  ChainTyped' /\ ChainSeen' /\ Later
  <1>1. \A x \in Candidates : chain[x] = "confirmed" => chain'[x] = "confirmed"
    BY DEF Holding
  <1>2. chain' \in [Candidates -> {"absent", "mempool", "confirmed"}]
    BY DEF Holding, ChainTyped
  <1>3. ChainSeen'
    BY DEF Holding, ChainSeen
  <1> QED
    BY <1>1, <1>2, <1>3, LaterKeeps DEF ChainTyped

(* The chain's own steps, and that no other step changes it. *)
LEMMA ChainKeeps ==
    ASSUME IInv, [Next]_vars
    PROVE  ChainTyped' /\ ChainSeen' /\ Later
  <1>a. ChainTyped /\ ChainSeen
    BY DEF IInv, TypeOK, ChainTyped
  <1>b. CASE UNCHANGED network
    BY <1>a, <1>b, LaterKeeps DEF network, ChainTyped, ChainSeen
  <1>1. ASSUME NEW p \in Pages, AskBroadcast(p) PROVE ChainTyped' /\ ChainSeen' /\ Later
    <2>1. pending.id \in Candidates /\ foreign' = foreign
      BY <1>1 DEF AskBroadcast, current, IInv, TypeOK, Record
    <2>2. CASE UNCHANGED <<chain, seen>>
      BY <2>1, <2>2, <1>b DEF network
    <2>3. CASE chain' = Holding(pending.id, "mempool") /\ seen' = seen \cup {pending.id}
      BY <1>a, <2>1, <2>3, HoldingKeeps DEF ChainTyped
    <2> QED
      BY <1>1, <2>2, <2>3 DEF AskBroadcast
  <1>2. CASE OtherDeviceSends
    <2>1. PICK b \in Journal : b = backup
      BY <1>2 DEF OtherDeviceSends, IInv, TypeOK
    <2>2. b.pending.id \in Candidates
      BY <1>2, <2>1 DEF OtherDeviceSends, Journal, Record
    <2>3. /\ chain' = Holding(b.pending.id, "mempool") /\ seen' = seen \cup {b.pending.id}
          /\ foreign' = foreign
      BY <1>2, <2>1 DEF OtherDeviceSends
    <2> QED
      BY <1>a, <2>2, <2>3, HoldingKeeps DEF ChainTyped
  <1>3. ASSUME NEW c \in Candidates, Confirms(c) PROVE ChainTyped' /\ ChainSeen' /\ Later
    <2>1. c \in seen
      BY <1>a, <1>3 DEF Confirms, ChainSeen
    <2> QED
      BY <1>a, <1>3, <2>1, HoldingKeeps DEF Confirms, ChainTyped
  <1>4. ASSUME NEW c \in Candidates, Drops(c) PROVE ChainTyped' /\ ChainSeen' /\ Later
    <2>1. /\ chain[c] = "mempool" /\ chain' = [chain EXCEPT ![c] = "absent"]
          /\ foreign' = foreign /\ seen' = seen
      BY <1>4 DEF Drops
    <2>2. ChainTyped'
      BY <1>a, <2>1 DEF ChainTyped
    <2>3. ChainSeen' /\ \A x \in Candidates : chain[x] = "confirmed" => chain'[x] = "confirmed"
      BY <1>a, <2>1 DEF ChainTyped, ChainSeen
    <2> QED
      BY <2>1, <2>2, <2>3, LaterKeeps
  <1>5. ASSUME NEW k \in Coins, ForeignSpend(k) PROVE ChainTyped' /\ ChainSeen' /\ Later
    <2>1. /\ \A c \in Candidates : chain[c] = "confirmed" => k \notin Inputs[c]
          /\ foreign' = foreign \cup {k} /\ seen' = seen
          /\ chain' = [c \in Candidates |-> IF k \in Inputs[c] THEN "absent" ELSE chain[c]]
      BY <1>5 DEF ForeignSpend
    <2>2. ChainTyped'
      BY <1>a, <2>1 DEF ChainTyped
    <2>3. ChainSeen' /\ \A x \in Candidates : chain[x] = "confirmed" => chain'[x] = "confirmed"
      BY <1>a, <2>1 DEF ChainTyped, ChainSeen
    <2> QED
      BY <2>1, <2>2, <2>3, LaterKeeps
  <1>6. CASE UNCHANGED vars
    BY <1>6, <1>b DEF vars, network
  <1>7. CASE exportLedgerSavingsPaymentJournal \/ restoreLedgerSavingsPaymentJournal
    BY <1>7, <1>b DEF exportLedgerSavingsPaymentJournal, restoreLedgerSavingsPaymentJournal
  <1>8. ASSUME NEW p \in Pages, Saving(p) PROVE ChainTyped' /\ ChainSeen' /\ Later
    BY <1>8, <1>b, SavingMoves
  <1>9. ASSUME NEW p \in Pages, Searching(p) PROVE UNCHANGED network
    BY <1>9 DEF Searching, LoadForReview, LoadForApproval, quoteLedgerSavingsPayment,
                Ready, Fails, Approved, ReadLoads
  <1>10. ASSUME NEW p \in Pages, AskOutcome(p) \/ AskCoins(p) \/ ReadAsks(p)
         PROVE  UNCHANGED network
    BY <1>10 DEF AskOutcome, AskCoins, ReadAsks
  <1>11. ASSUME NEW p \in Pages,
                \/ Unlock(p) \/ Lock(p) \/ CancelApproval(p) \/ Close(p)
                \/ \E d \in Drafts : review(p, d) \/ approve(p, d)
                \/ reopen(p) \/ approveWithLedger(p)
         PROVE  UNCHANGED network
    BY <1>11 DEF Unlock, Lock, CancelApproval, Close, review, approve, reopen,
                 approveWithLedger, run
  <1> QED
    BY <1>b, <1>1, <1>2, <1>3, <1>4, <1>5, <1>6, <1>7, <1>8, <1>9, <1>10, <1>11
       DEF Next, Saving, Searching

-------------------------------------------------------------------------------
(* The journals *)

(* A sound journal stays sound while the chain goes on. *)
LEMMA SoundLater ==
    ASSUME NEW q \in Record \cup {Nothing}, NEW h \in SUBSET Record, Sound(q, h), Later
    PROVE  Sound(q, h)'
  <1>1. \A r \in h : r.id \in Candidates
    BY DEF Record
  <1> QED
    BY <1>1 DEF Sound, Later, Formed, Identities

(* The moves of the journal keep it sound. *)
LEMMA MovesSound ==
    ASSUME IInv, JournalMoves, Later
    PROVE  /\ pending' \in Record \cup {Nothing} /\ history' \subseteq Record
           /\ Sound(pending, history)'
  <1>1. /\ pending \in Record \cup {Nothing} /\ history \subseteq Record
        /\ Sound(pending, history)
    BY DEF IInv, TypeOK, Journals
  <1>2. PICK q, h : q = pending' /\ h = history'
    OBVIOUS
  <1>3. q \in Record \cup {Nothing} /\ h \subseteq Record /\ Sound(q, h)
    <2>1. CASE Kept
      BY <1>1, <1>2, <2>1 DEF Kept
    <2>2. CASE Advances
      <3>1. q.id = pending.id /\ q \in Record /\ h = history /\ Formed(q) /\ pending # Nothing
        BY <1>2, <2>2, NullAssumption DEF Advances, Covers
      <3> QED
        BY <1>1, <3>1, NullAssumption DEF Sound
    <2>3. CASE DropsPrepared
      BY <1>1, <1>2, <2>3 DEF DropsPrepared, Sound
    <2>4. CASE Retains
      <3>1. PICK c \in Candidates :
               /\ c \notin Identities(history) /\ ~current(c)
               /\ q = Prepared(c) /\ h = Records
               /\ pending # Nothing => Spent(pending.id)
        BY <1>2, <2>4 DEF Retains
      <3>2. q \in Record /\ q.id = c /\ Formed(q) /\ h \subseteq Record
        BY <1>1, <3>1 DEF Prepared, Record, Phases, Formed, Records
      <3>3. c \notin Identities(h)
        BY <3>1 DEF Records, Identities, current
      <3>4. \A r, s \in h : r.id = s.id => r = s
        BY <1>1, <3>1 DEF Records, Sound, Identities
      <3>5. \A r \in h : Spent(r.id) /\ Formed(r)
        BY <1>1, <3>1 DEF Records, Sound
      <3> QED
        BY <3>2, <3>3, <3>4, <3>5 DEF Sound
    <2> QED
      BY <2>1, <2>2, <2>3, <2>4 DEF JournalMoves
  <1>4. Sound(q, h)'
    BY <1>3, SoundLater
  <1> QED
    BY <1>2, <1>3, <1>4 DEF Sound, Identities, Formed

(* The moves of the journal keep what is past "prepared". *)
LEMMA MovesKeep ==
    ASSUME IInv, JournalMoves
    PROVE  KeepsApproval
  <1> SUFFICES ASSUME NEW r \in Records, r.phase # "prepared"
               PROVE  \E s \in Records' : Covers(r, s)
    BY DEF KeepsApproval, Covers
  <1>1. r \in Record /\ pending \in Record \cup {Nothing} /\ Covers(r, r)
    BY CoversOrder DEF IInv, TypeOK, Records
  <1>2. CASE Kept
    BY <1>1, <1>2 DEF Kept, Records
  <1>3. CASE Advances
    <2>1. pending' # Nothing
      BY <1>3, NullAssumption DEF Advances
    <2> QED
      BY <1>1, <1>3, <2>1 DEF Advances, Records
  <1>4. CASE DropsPrepared
    BY <1>1, <1>4 DEF DropsPrepared, Records
  <1>5. CASE Retains
    BY <1>1, <1>5 DEF Retains, Records
  <1> QED
    BY <1>2, <1>3, <1>4, <1>5 DEF JournalMoves

(* A small set of records is about one payment. *)
LEMMA OnePayment ==
    ASSUME NEW r \in Record, NEW a \in Record,
           Cardinality(Identities({r, a} \ {Nothing})) <= 1
    PROVE  r.id = a.id
  <1>1. {r, a} \ {Nothing} = {r, a}
    BY NullAssumption
  <1>2. Identities({r, a}) = {r.id, a.id}
    BY DEF Identities
  <1>3. SUFFICES ASSUME r.id # a.id PROVE FALSE
    OBVIOUS
  <1>4. IsFiniteSet({r.id}) /\ Cardinality({r.id}) = 1
    BY FS_Singleton
  <1>5. Cardinality({r.id} \cup {a.id}) = 2
    BY <1>3, <1>4, FS_AddElement
  <1>6. {r.id} \cup {a.id} = {r.id, a.id}
    OBVIOUS
  <1> QED
    BY <1>1, <1>2, <1>5, <1>6

(* A restored file: the journal is sound, it covers what it held, and it   *)
(* covers the file.                                                        *)
LEMMA RestoreMoves ==
    ASSUME IInv, restoreLedgerSavingsPaymentJournal
    PROVE  /\ pending' \in Record \cup {Nothing} /\ history' \subseteq Record
           /\ Sound(pending', history')
           /\ \A r \in Records : \E s \in Records' : Covers(r, s)
  <1> DEFINE past == Merged(history, backup.history)
             kept == IF backup.pending = Nothing THEN pending
                     ELSE IF pending = Nothing THEN backup.pending
                     ELSE Merge(pending, backup.pending)
             next == IF kept = Nothing \/ kept.id \notin Identities(past) THEN kept
                     ELSE Merge(CHOOSE r \in past : r.id = kept.id, kept)
             rest == IF kept = Nothing THEN past ELSE {r \in past : r.id # kept.id}
             file == backup.history \cup ({backup.pending} \ {Nothing})
  <1>1. /\ Cardinality(Identities({pending, backup.pending} \ {Nothing})) <= 1
        /\ \A r \in Records, a \in file : r.id = a.id => ~Conflicting(r, a)
        /\ pending' = next /\ history' = rest /\ backup # Nothing
    BY DEF restoreLedgerSavingsPaymentJournal
  <1>2. /\ pending \in Record \cup {Nothing} /\ history \subseteq Record
        /\ backup.pending \in Record \cup {Nothing} /\ backup.history \subseteq Record
        /\ Sound(pending, history) /\ Sound(backup.pending, backup.history)
    BY <1>1 DEF IInv, TypeOK, Journals, Journal
  <1>3. PICK q, h : q = backup.pending /\ h = backup.history
    OBVIOUS
  <1>4. /\ q \in Record \cup {Nothing} /\ h \subseteq Record /\ Sound(q, h)
        /\ past = Merged(history, h) /\ file = h \cup ({q} \ {Nothing})
    BY <1>2, <1>3
  <1>5. /\ past \subseteq history \cup h /\ Unique(past)
        /\ \A r \in history \cup h : \E s \in past : Covers(r, s)
        /\ \A s \in past : s.id \notin Identities(history) => s \in h
        /\ \A s \in past : s.id \notin Identities(h) => s \in history
    <2>1. Unique(history) /\ Unique(h) /\ \A r \in history \cup h : Formed(r)
      BY <1>2, <1>4 DEF Unique, Sound
    <2>2. \A r \in history, b \in h : r.id = b.id => ~Conflicting(r, b)
      BY <1>1, <1>4 DEF Records
    <2>3. history \in SUBSET Record /\ h \in SUBSET Record
      BY <1>2, <1>4
    <2> HIDE DEF past, kept, next, rest, file
    <2> QED
      BY <1>4, <2>1, <2>2, <2>3, MergedCovers
  <1>6. past \subseteq Record /\ \A r \in past : Formed(r) /\ Spent(r.id)
    BY <1>2, <1>4, <1>5 DEF Sound
  <1>7. \A r \in past : r.id = q.id => q = Nothing \/ r \in history
    BY <1>4, <1>5 DEF Sound
  <1>8. \A r \in past : r.id = pending.id => pending = Nothing \/ r \in h
    BY <1>2, <1>5 DEF Sound
  (* What is kept covers both pending records. *)
  <1>9. /\ kept \in Record \cup {Nothing}
        /\ kept # Nothing => Formed(kept)
        /\ pending # Nothing => kept # Nothing /\ Covers(pending, kept)
    <2>1. CASE q = Nothing
      <3>1. kept = pending
        BY <1>3, <2>1
      <3> QED
        BY <1>2, <3>1, CoversOrder DEF Sound
    <2>2. CASE q # Nothing /\ pending = Nothing
      <3>1. kept = q
        BY <1>3, <2>2
      <3> QED
        BY <1>4, <2>2, <3>1 DEF Sound
    <2>3. CASE q # Nothing /\ pending # Nothing
      <3>1. kept = Merge(pending, q) /\ pending \in Record /\ q \in Record
        BY <1>2, <1>3, <1>4, <2>3
      <3>2. pending.id = q.id
        BY <1>1, <1>3, <3>1, OnePayment
      <3>3. Formed(pending) /\ Formed(q) /\ ~Conflicting(pending, q)
        BY <1>1, <1>2, <1>4, <2>3, <3>2 DEF Sound, Records
      <3>4. Merge(pending, q) \in {pending, q} /\ Covers(pending, Merge(pending, q))
        BY <3>1, <3>2, <3>3, MergeCovers
      <3> QED
        BY <2>3, <3>1, <3>3, <3>4, NullAssumption
    <2> QED
      BY <2>1, <2>2, <2>3
  (* A retired record of the payment that is kept is merged into it. *)
  <1>10. ASSUME NEW o \in past, kept # Nothing, o.id = kept.id
         PROVE  ~Conflicting(o, kept)
    <2>1. CASE q = Nothing
      <3>1. kept = pending /\ pending # Nothing
        BY <1>3, <1>10, <2>1
      <3>2. o \in h /\ pending \in Records
        BY <1>8, <1>10, <3>1 DEF Records
      <3>3. ~Conflicting(pending, o)
        BY <1>1, <1>4, <1>10, <3>1, <3>2
      <3> QED
        BY <3>1, <3>3 DEF Conflicting
    <2>2. CASE q # Nothing /\ pending = Nothing
      <3>1. kept = q
        BY <1>3, <2>2
      <3>2. o \in Records /\ q \in file
        BY <1>4, <1>7, <1>10, <2>2, <3>1 DEF Records
      <3> QED
        BY <1>1, <1>10, <3>1, <3>2
    <2>3. CASE q # Nothing /\ pending # Nothing
      <3>1. pending.id = q.id
        BY <1>1, <1>2, <1>3, <1>4, <2>3, OnePayment
      <3>2. kept.id = pending.id
        BY <1>9, <2>3 DEF Covers
      <3>3. o \in history /\ o \in h
        BY <1>7, <1>8, <1>10, <2>3, <3>1, <3>2
      <3> QED
        BY <1>2, <1>10, <2>3, <3>2, <3>3 DEF Sound, Identities
    <2> QED
      BY <2>1, <2>2, <2>3
  <1>11. /\ next \in Record \cup {Nothing} /\ (next = Nothing <=> kept = Nothing)
         /\ next # Nothing => Formed(next)
         /\ next # Nothing => next.id = kept.id
         /\ kept # Nothing => Covers(kept, next)
         /\ \A o \in past : kept # Nothing /\ o.id = kept.id => Covers(o, next)
    <2> HIDE DEF past, kept, rest, file
    <2>1. CASE kept = Nothing \/ kept.id \notin Identities(past)
      <3>1. next = kept
        BY <2>1
      <3>2. kept # Nothing => Covers(kept, kept)
        BY <1>9, CoversOrder
      <3>3. \A o \in past : kept # Nothing => o.id # kept.id
        BY <2>1 DEF Identities
      <3> HIDE DEF next
      <3> QED
        BY <1>9, <3>1, <3>2, <3>3
    <2>2. CASE kept # Nothing /\ kept.id \in Identities(past)
      <3>1. PICK o \in past : o.id = kept.id
        BY <2>2 DEF Identities
      <3>2. \A x \in past : x.id = kept.id => x = o
        BY <1>5, <3>1 DEF Unique
      <3>3. o = CHOOSE r \in past : r.id = kept.id
        BY <3>1, <3>2
      <3>4. next = Merge(o, kept)
        BY <2>2, <3>3
      <3>5. o \in Record /\ kept \in Record /\ Formed(o) /\ Formed(kept) /\ ~Conflicting(o, kept)
        BY <1>6, <1>9, <1>10, <2>2, <3>1
      <3>6. /\ Merge(o, kept) \in {o, kept} /\ Covers(o, Merge(o, kept))
            /\ Covers(kept, Merge(o, kept))
        BY <3>1, <3>5, MergeCovers
      <3> HIDE DEF next
      <3>7. next \in Record /\ next # Nothing /\ Formed(next) /\ next.id = kept.id
        BY <3>1, <3>4, <3>5, <3>6, NullAssumption
      <3> QED
        BY <2>2, <3>2, <3>4, <3>6, <3>7
    <2> QED
      BY <2>1, <2>2
  <1>12. /\ rest \subseteq past /\ (kept # Nothing => kept.id \notin Identities(rest))
         /\ \A s \in past : s \in rest \/ (kept # Nothing /\ s.id = kept.id)
    <2> HIDE DEF past, kept, next, file
    <2> QED
      BY DEF Identities
  <1> HIDE DEF past, kept, next, rest, file
  <1>13. pending' \in Record \cup {Nothing} /\ history' \subseteq Record
    BY <1>1, <1>6, <1>11, <1>12
  <1>14. Sound(next, rest)
    <2>1. \A r \in rest \cup ({next} \ {Nothing}) : Formed(r)
      BY <1>6, <1>11, <1>12
    <2>2. \A r, s \in rest : r.id = s.id => r = s
      BY <1>5, <1>12 DEF Unique
    <2>3. next # Nothing => next.id \notin Identities(rest)
      BY <1>11, <1>12
    <2>4. \A r \in rest : Spent(r.id)
      BY <1>6, <1>12
    <2> QED
      BY <2>1, <2>2, <2>3, <2>4 DEF Sound
  <1>15. ASSUME NEW r \in Records PROVE \E s \in Records' : Covers(r, s)
    <2>1. Records' = rest \cup ({next} \ {Nothing})
      BY <1>1 DEF Records
    <2>2. CASE r \in history
      <3>1. PICK s \in past : Covers(r, s)
        BY <1>5, <2>2
      <3>2. CASE s \in rest
        BY <2>1, <3>1, <3>2
      <3>3. CASE kept # Nothing /\ s.id = kept.id
        <4>1. Covers(s, next) /\ next \in Record /\ next # Nothing
          BY <1>11, <3>3
        <4>2. Covers(r, next)
          BY <1>2, <1>6, <2>2, <3>1, <4>1, CoversOrder
        <4> QED
          BY <2>1, <4>1, <4>2
      <3> QED
        BY <1>12, <3>2, <3>3
    <2>3. CASE r = pending /\ pending # Nothing
      <3>1. kept # Nothing /\ kept \in Record /\ Covers(pending, kept) /\ pending \in Record
        BY <1>2, <1>9, <2>3
      <3>2. next # Nothing /\ next \in Record /\ Covers(kept, next)
        BY <1>11, <3>1
      <3>3. Covers(pending, next)
        BY <3>1, <3>2, CoversOrder
      <3> QED
        BY <2>1, <2>3, <3>2, <3>3
    <2> QED
      BY <2>2, <2>3 DEF Records
  <1> QED
    BY <1>1, <1>13, <1>14, <1>15

-------------------------------------------------------------------------------
(* The steps *)

Session(p) ==
    \/ Unlock(p) \/ Lock(p) \/ CancelApproval(p) \/ Close(p)
    \/ \E d \in Drafts : review(p, d) \/ approve(p, d)
    \/ reopen(p) \/ approveWithLedger(p)

(* What the steps around the pages do. *)
Around ==
    \/ exportLedgerSavingsPaymentJournal \/ restoreLedgerSavingsPaymentJournal
    \/ OtherDeviceSends
    \/ \E c \in Candidates : Confirms(c) \/ Drops(c)
    \/ \E k \in Coins : ForeignSpend(k)

(* The steps, by what they do. *)
LEMMA NextParts ==
    ASSUME Next
    PROVE  \/ \E p \in Pages : Session(p) \/ Searching(p) \/ Asking(p) \/ Saving(p)
           \/ Around
  BY DEF Next, Session, Searching, Asking, Saving, Around

(* Every step keeps the pages typed. *)
LEMMA PagesKeep ==
    ASSUME IInv, [Next]_vars
    PROVE  PagesTyped'
  <1>1. CASE UNCHANGED vars
    BY <1>1 DEF vars, IInv, TypeOK, PagesTyped, Flights
  <1>2. ASSUME NEW p \in Pages, Session(p) \/ Searching(p) \/ Asking(p) \/ Saving(p)
        PROVE  PagesTyped'
    BY <1>2, SessionTyped, SearchingTyped, AskingTyped, SavingTyped DEF Session
  <1>3. CASE Around
    <2>1. UNCHANGED <<flight, page>> /\ (UNCHANGED faults \/ Fault)
      BY <1>3 DEF Around, exportLedgerSavingsPaymentJournal, OtherDeviceSends,
                  restoreLedgerSavingsPaymentJournal, Confirms, Drops, ForeignSpend
    <2>2. faults' \in 0..MaxFaults
      BY <2>1, BoundAssumption DEF Fault, IInv, TypeOK
    <2> QED
      BY <2>1, <2>2 DEF page, IInv, TypeOK, PagesTyped, Flights
  <1> QED
    BY <1>1, <1>2, <1>3, NextParts

JournalTyped ==
    /\ pending \in Record \cup {Nothing} /\ history \subseteq Record
    /\ backup \in Journal \cup {Nothing} /\ Journals

(* Every step keeps the stored and the saved journal sound. *)
LEMMA JournalKeeps ==
    ASSUME IInv, [Next]_vars
    PROVE  JournalTyped' /\ KeepsApproval
  <1>a. Later
    BY ChainKeeps
  <1>b. JournalTyped
    BY DEF IInv, TypeOK, JournalTyped
  <1>1. ASSUME backup' = backup PROVE backup' # Nothing => Sound(backup.pending, backup.history)'
    <2>1. ASSUME backup # Nothing PROVE Sound(backup.pending, backup.history)'
      <3>1. PICK q, h : q = backup.pending /\ h = backup.history
        OBVIOUS
      <3>2. q \in Record \cup {Nothing} /\ h \in SUBSET Record /\ Sound(q, h)
        BY <1>b, <2>1, <3>1 DEF JournalTyped, Journals, Journal
      <3>3. Sound(q, h)'
        BY <1>a, <3>2, SoundLater
      <3> QED
        BY <1>1, <3>1, <3>3 DEF Sound, Identities, Formed
    <2> QED
      BY <1>1, <2>1
  <1>2. ASSUME JournalMoves, backup' = backup PROVE JournalTyped' /\ KeepsApproval
    <2>1. /\ pending' \in Record \cup {Nothing} /\ history' \subseteq Record
          /\ Sound(pending, history)' /\ KeepsApproval
      BY <1>a, <1>2, MovesSound, MovesKeep
    <2> QED
      BY <1>b, <1>1, <1>2, <2>1 DEF JournalTyped, Journals
  <1>3. ASSUME UNCHANGED journal PROVE JournalMoves
    BY <1>3 DEF journal, JournalMoves, Kept
  <1>4. CASE UNCHANGED vars
    BY <1>2, <1>3, <1>4 DEF vars, journal
  <1>5. ASSUME NEW p \in Pages, Session(p) PROVE UNCHANGED <<journal, backup>>
    BY <1>5 DEF Session, Unlock, Lock, CancelApproval, Close, review, approve, reopen,
                approveWithLedger, run
  <1>6. ASSUME NEW p \in Pages, Searching(p) \/ Asking(p) PROVE UNCHANGED <<journal, backup>>
    BY <1>6 DEF Searching, LoadForReview, LoadForApproval, quoteLedgerSavingsPayment,
                Ready, Fails, Approved, ReadLoads, Asking, AskOutcome, AskCoins, ReadAsks,
                AskBroadcast
  <1>7. ASSUME NEW p \in Pages, Saving(p) PROVE JournalMoves /\ backup' = backup
    BY <1>7, SavingMoves
  <1>8. CASE exportLedgerSavingsPaymentJournal
    <2>1. JournalMoves /\ backup' = [pending |-> pending, history |-> history]
      BY <1>3, <1>8 DEF exportLedgerSavingsPaymentJournal
    <2>2. /\ pending' \in Record \cup {Nothing} /\ history' \subseteq Record
          /\ Sound(pending, history)' /\ KeepsApproval
      BY <1>a, <2>1, MovesSound, MovesKeep
    <2>3. UNCHANGED journal
      BY <1>8 DEF exportLedgerSavingsPaymentJournal
    <2>4. backup' \in Journal
      BY <1>b, <2>1 DEF JournalTyped, Journal
    <2>5. backup'.pending = pending' /\ backup'.history = history'
      BY <2>1, <2>3 DEF journal
    <2>6. Sound(backup.pending, backup.history)'
      BY <2>2, <2>5 DEF Sound, Identities, Formed
    <2> QED
      BY <2>2, <2>4, <2>6 DEF JournalTyped, Journals
  <1>9. CASE restoreLedgerSavingsPaymentJournal
    <2>1. /\ pending' \in Record \cup {Nothing} /\ history' \subseteq Record
          /\ Sound(pending', history')
          /\ \A r \in Records : \E s \in Records' : Covers(r, s)
      BY <1>9, RestoreMoves
    <2>2. PICK q, h : q = pending' /\ h = history'
      OBVIOUS
    <2>3. Sound(q, h)'
      BY <1>a, <2>1, <2>2, SoundLater
    <2>4. Sound(pending, history)'
      BY <2>2, <2>3 DEF Sound, Identities, Formed
    <2>5. backup' = backup
      BY <1>9 DEF restoreLedgerSavingsPaymentJournal
    <2>6. KeepsApproval
      BY <2>1 DEF KeepsApproval, Covers
    <2> QED
      BY <1>b, <1>1, <2>1, <2>4, <2>5, <2>6 DEF JournalTyped, Journals
  <1>10. ASSUME Around, ~exportLedgerSavingsPaymentJournal, ~restoreLedgerSavingsPaymentJournal
         PROVE  UNCHANGED <<journal, backup>>
    BY <1>10 DEF Around, OtherDeviceSends, Confirms, Drops, ForeignSpend
  <1> QED
    BY <1>2, <1>3, <1>4, <1>5, <1>6, <1>7, <1>8, <1>9, <1>10, NextParts

AnswersTyped ==
    /\ holder \in (Pages \X {"flight", "read"}) \cup {Nothing}
    /\ evidence \in Evidence /\ Answers

(* What the chain answers is one of the answers, and holds. *)
LEMMA OutcomeHolds ==
    ASSUME IInv, pending # Nothing
    PROVE  /\ outcome(pending) \in Evidence \ {"sent"}
           /\ outcome(pending) \in Settled => Spent(pending.id)
  <1>1. pending \in Record /\ pending.id \in Candidates
    BY DEF IInv, TypeOK, Record
  <1> QED
    BY <1>1 DEF IInv, TypeOK, ChainSeen, outcome, Evidence, Settled, Spent

(* Every step keeps what the holder of the lock was told true. *)
LEMMA AnswersKeep ==
    ASSUME IInv, [Next]_vars
    PROVE  AnswersTyped'
  <1>a. Later
    BY ChainKeeps
  <1>b. AnswersTyped /\ (pending # Nothing => pending.id \in Candidates)
    BY DEF IInv, TypeOK, AnswersTyped, Record
  <1>1. ASSUME holder' = Nothing, evidence' = "none" PROVE AnswersTyped'
    BY <1>1 DEF AnswersTyped, Answers, Evidence, Settled
  <1>2. ASSUME UNCHANGED <<holder, evidence, journal>> PROVE AnswersTyped'
    <2>1. UNCHANGED <<holder, evidence, pending>>
      BY <1>2 DEF journal
    <2>2. Spent(pending.id) /\ pending # Nothing => Spent(pending.id)'
      <3>1. PICK c : c = pending.id
        OBVIOUS
      <3>2. Spent(c) /\ pending # Nothing => Spent(c)'
        BY <1>a, <1>b, <3>1 DEF Later
      <3> QED
        BY <2>1, <3>1, <3>2 DEF Spent, Conflicted
    <2> QED
      BY <1>b, <2>1, <2>2 DEF AnswersTyped, Answers
  <1>3. CASE UNCHANGED vars
    BY <1>2, <1>3 DEF vars, journal
  <1>4. ASSUME NEW p \in Pages, Session(p) PROVE AnswersTyped'
    <2>1. \/ UNCHANGED <<holder, evidence, journal>>
          \/ holder' = Nothing /\ evidence' = "none"
      BY <1>4 DEF Session, Unlock, Lock, CancelApproval, Close, review, approve, reopen,
                  approveWithLedger, run
    <2> QED
      BY <1>1, <1>2, <2>1
  <1>5. ASSUME NEW p \in Pages, Searching(p) PROVE AnswersTyped'
    <2>1. \/ UNCHANGED <<holder, evidence, journal>>
          \/ holder' = Nothing /\ evidence' = "none"
      BY <1>5 DEF Searching, LoadForReview, LoadForApproval, quoteLedgerSavingsPayment,
                  Ready, Fails, Approved, ReadLoads, Releases
    <2> QED
      BY <1>1, <1>2, <2>1
  <1>6. ASSUME NEW p \in Pages, Asking(p) PROVE AnswersTyped'
    <2>1. CASE AskOutcome(p) \/ ReadAsks(p)
      <3>1. /\ holder' \in Pages \X {"flight", "read"}
            /\ evidence' = IF pending = Nothing THEN "none" ELSE outcome(pending)
            /\ UNCHANGED <<journal, network>>
        BY <2>1 DEF AskOutcome, ReadAsks, Asks
      <3>2. CASE pending = Nothing
        BY <3>1, <3>2, NullAssumption DEF AnswersTyped, Answers, Evidence, Settled
      <3>3. CASE pending # Nothing
        <4>1. /\ evidence' \in Evidence \ {"sent"}
              /\ evidence' \in Settled => Spent(pending.id)
          BY <3>1, <3>3, OutcomeHolds
        <4>2. pending' = pending /\ (Spent(pending.id) => Spent(pending.id)')
          BY <3>1 DEF journal, network, Spent, Conflicted
        <4> QED
          BY <3>1, <3>3, <4>1, <4>2, NullAssumption DEF AnswersTyped, Answers, Evidence
      <3> QED
        BY <3>2, <3>3
    <2>2. CASE AskCoins(p)
      <3>1. holder' \in Pages \X {"flight", "read"} /\ evidence' \in {"available", "gone"}
        BY <2>2 DEF AskCoins, Asks
      <3> QED
        BY <3>1, NullAssumption DEF AnswersTyped, Answers, Evidence, Settled
    <2>3. CASE AskBroadcast(p)
      <3>1. /\ holder' \in Pages \X {"flight", "read"} /\ evidence' \in {"sent", "refused"}
            /\ pending' = pending /\ pending # Nothing /\ pending.tx # Nothing
        BY <2>3 DEF AskBroadcast, current, journal
      <3> QED
        BY <3>1, NullAssumption DEF AnswersTyped, Answers, Evidence, Settled
    <2> QED
      BY <1>6, <2>1, <2>2, <2>3 DEF Asking
  <1>7. ASSUME NEW p \in Pages, Saving(p) PROVE AnswersTyped'
    BY <1>1, <1>7, SavingMoves
  <1>8. CASE restoreLedgerSavingsPaymentJournal
    <2>1. holder' = Nothing /\ evidence' = "none"
      BY <1>8 DEF restoreLedgerSavingsPaymentJournal, IInv, Answers
    <2> QED
      BY <1>1, <2>1
  <1>9. ASSUME Around, ~restoreLedgerSavingsPaymentJournal PROVE AnswersTyped'
    <2>1. UNCHANGED <<holder, evidence, journal>>
      BY <1>9 DEF Around, exportLedgerSavingsPaymentJournal, OtherDeviceSends, Confirms,
                  Drops, ForeignSpend
    <2> QED
      BY <1>2, <2>1
  <1> QED
    BY <1>3, <1>4, <1>5, <1>6, <1>7, <1>8, <1>9, NextParts

-------------------------------------------------------------------------------
(* The theorems *)

(* The invariant holds at the start. *)
LEMMA InitIInv == Init => IInv
  <1> SUFFICES ASSUME Init PROVE IInv
    OBVIOUS
  <1>1. TypeOK
    BY IdleTyped, BoundAssumption DEF Init, TypeOK, Evidence
  <1>2. Journals
    BY DEF Init, Journals, Sound, Identities
  <1>3. Answers /\ ChainSeen
    BY DEF Init, Answers, ChainSeen, Settled
  <1>4. Flights
    BY IdleTyped DEF Init, Flights
  <1> QED
    BY <1>1, <1>2, <1>3, <1>4 DEF IInv

(* Every step keeps it. *)
LEMMA NextIInv == IInv /\ [Next]_vars => IInv'
  <1> SUFFICES ASSUME IInv, [Next]_vars PROVE IInv'
    OBVIOUS
  <1>1. PagesTyped' /\ ChainTyped' /\ ChainSeen' /\ JournalTyped' /\ AnswersTyped'
    BY PagesKeep, ChainKeeps, JournalKeeps, AnswersKeep
  <1> QED
    BY <1>1 DEF IInv, TypeOK, PagesTyped, ChainTyped, JournalTyped, AnswersTyped

THEOREM Invariant == Spec => []IInv
  BY InitIInv, NextIInv, PTL DEF Spec

(* The journal, the lock and the pages stay typed (LedgerSavingsPaymentJournal *)
(* and the state of a payment owner).                                          *)
THEOREM TypeCorrect == Spec => []TypeOK
  <1>1. IInv => TypeOK
    BY DEF IInv
  <1> QED
    BY <1>1, Invariant, PTL

(* At most one approved payment can still be paid, and it is the pending one   *)
(* of the journal: retainLedgerSavingsPayment makes room only for what the     *)
(* chain has answered for, and restored files retire nothing else.             *)
THEOREM PayableIsPending == Spec => []OnePayable
  <1>1. ASSUME IInv PROVE OnePayable
    <2>1. ASSUME NEW c \in Candidates, Payable(c) PROVE current(c)
      <3>1. PICK r \in Records : r.id = c
        BY <2>1 DEF Payable
      <3>2. ~Spent(c)
        BY <2>1 DEF Payable, Spent
      <3>3. r \notin history
        BY <1>1, <3>1, <3>2 DEF IInv, Journals, Sound
      <3> QED
        BY <3>1, <3>3 DEF Records, current
    <2> QED
      BY <2>1 DEF OnePayable
  <1> QED
    BY <1>1, Invariant, PTL

(* What is past "prepared" stays in the journal, keeps its approvals and never *)
(* goes back a phase, whatever pages, observations and restored files do.      *)
THEOREM ApprovalKept == Spec => ApprovalOnlyGrows
  <1>1. IInv /\ [Next]_vars => [KeepsApproval]_vars
    BY JournalKeeps
  <1> QED
    BY <1>1, Invariant, PTL DEF Spec, ApprovalOnlyGrows

===============================================================================
