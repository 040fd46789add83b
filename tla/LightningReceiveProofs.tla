------------------------ MODULE LightningReceiveProofs -------------------------
(***************************************************************************)
(* Proofs about LightningReceive, for any receives, services, restores and *)
(* failures: its types, the bound on the stamps included, and that an      *)
(* invoice keeps its record and one claim until the committed file has it. *)
(***************************************************************************)
EXTENDS LightningReceive, TLAPS

-------------------------------------------------------------------------------
(* The inductive invariant *)

(* Copies of the record of a receive. *)
Copies(r) == {rec[r], file.entries[r], kept.entries[r]} \ {NoRecord}

(* A copy without a claim is older than every copy with one. *)
Ordered(r) ==
    \A a \in Copies(r) :
        /\ a.at <= writes[r]
        /\ \A b \in Copies(r) : a.claim = NoClaim /\ b.claim # NoClaim => a.at < b.at

(* Until the retirement the store has the record, and its claim is the     *)
(* only one any copy has.                                                  *)
Agreed(r) ==
    receipt[r] = NoClaim =>
        \A a \in Copies(r) :
            rec[r] # NoRecord /\ (a.claim # NoClaim => rec[r].claim = a.claim)

(* Only a shown invoice is paid. *)
Paying(r) ==
    /\ \A o \in Outputs : coin[r][o] # "none" => r \in shown
    /\ \A a \in Copies(r) : a.claim # NoClaim => r \in shown
    /\ receipt[r] # NoClaim => r \in shown

(* SecretBuysOneOutput, of one receive. *)
Secret(r) ==
    IF receipt[r] = NoClaim
    THEN /\ r \in shown => rec[r] # NoRecord /\ r \in contract
         /\ \A o \in Outputs : <<r, o>> \in submitted =>
               rec[r] # NoRecord /\ rec[r].claim = o
    ELSE file.entries[r] # NoRecord /\ file.entries[r].claim = receipt[r]

Invoices ==
    \A r \in Receives \ Addressed : Ordered(r) /\ Agreed(r) /\ Paying(r) /\ Secret(r)

(* What the holder of the lock read is still so. *)
Asking == \A r \in Receives :
    /\ At("register", r) \/ At("save", r) =>
          rec[r] = NoRecord /\ r \notin Addressed /\ r \notin shown
    /\ At("save", r) \/ At("show", r) => r \in contract
Reading ==
    /\ task.step = "import" => todo \subseteq Addressed
    /\ task.step \in {"look", "judge"} => \A x \in todo :
          rec[x] # NoRecord /\ copy[x] = rec[x] /\ rec[x].state = "pending"
    /\ task.step \in {"submit", "answer"} => \A x \in todo \ {task.r} :
          rec[x] # NoRecord /\ copy[x] = rec[x] /\ rec[x].state = "pending"
    /\ task.step = "judge" =>
          task.r \in todo /\ (seen # {} => task.r \in shown \cup Addressed)
    /\ task.step = "submit" =>
          task.r \in Receives /\ rec[task.r] # NoRecord /\ rec[task.r].claim # NoClaim
Retiring ==
    /\ task.step = "prove" =>
          /\ task.r \in Receives
          /\ rec[task.r] # NoRecord /\ copy[task.r] = rec[task.r]
          /\ rec[task.r].state = "settled"
    /\ task.step = "remove" => task.r \in Receives /\ receipt[task.r] # NoClaim
Restoring ==
    task.step = "restore" => \A x \in todo :
        /\ copy[x] # NoRecord /\ copy[x] \in {file.entries[x], kept.entries[x]}
        /\ rec[x] # NoRecord => rec[x].claim \in {NoClaim, copy[x].claim}

(* The stamped writes a receive has left: three of a record, two of a      *)
(* restored one.                                                           *)
Left(r) ==
    IF r = NoRecord THEN 0
    ELSE IF r.state = "settled" THEN 0 ELSE IF r.claim = NoClaim THEN 2 ELSE 1
Asked(r) == IF At("register", r) \/ At("save", r) THEN 3 ELSE 0
Restored(r) == IF task.step = "restore" /\ r \in todo THEN 2 ELSE 0
Counted ==
    \A r \in Receives :
        writes[r] + Left(rec[r]) + Asked(r) + Restored(r) <= 3 * imports[r] + 2 * restores

IInv == TypeOK /\ Counted /\ Asking /\ Reading /\ Retiring /\ Restoring /\ Invoices

-------------------------------------------------------------------------------
(* The steps *)

(* Steps of the holder of the lock that write nothing. *)
Passes == StartPass \/ ImportFails \/ ReadReceives \/ EndPass \/ GiveUp
Looks(r) ==
    \/ LookAtLockup(r) \/ SkipReceive(r) \/ PassThrows(r) \/ ClaimAnswered(r)
    \/ ProveRetirement(r) \/ KeepReceive(r)

(* Steps that write a record, and those that do not. *)
Writes(r) ==
    \/ SaveInvoice(r) \/ ImportReceipt(r) \/ AdoptClaim(r) \/ SettleReceive(r)
    \/ SaveClaim(r) \/ RemoveReceive(r) \/ RestoreRecord(r)
Asks(r) == RequestInvoice(r) \/ RegisterLockup(r) \/ ShowInvoice(r)
Archives == CaptureReceives \/ KeepFile

(* What the services and the clock do. *)
Serves(r, o) ==
    \/ ExecuteClaim(r, o) \/ IndexPayout(r, o) \/ FundLockup(r, o)
    \/ LoseClaim(r, o) \/ ServiceClaims(r, o) \/ RefundLockup(r, o)

(* A step is one of these.                                                     *)
LEMMA NextParts ==
    ASSUME Next
    PROVE  \/ Passes \/ Archives \/ RestoreStep \/ RefundTime
           \/ \E r \in Receives :
                 \/ Looks(r) \/ Asks(r) \/ Writes(r) \/ WriteReceipt(r) \/ SubmitClaim(r)
                 \/ \E o \in Outputs : Serves(r, o)
  BY DEF Next, TaskStep, ServiceStep, Passes, Looks, Asks, Writes, Archives, Serves

-------------------------------------------------------------------------------
(* Records *)

(* A stamped write. *)
LEMMA SaveMoves ==
    ASSUME NEW r \in Receives, NEW s \in ReceiveRecord, Save(r, s), writes[r] + 1 \in Stamps
    PROVE  \E t \in ReceiveRecord :
              /\ rec' = [rec EXCEPT ![r] = t] /\ writes' = [writes EXCEPT ![r] = writes[r] + 1]
              /\ t.state = s.state /\ t.claim = s.claim /\ t.at = writes[r] + 1
  <1>1. PICK t : t = [s EXCEPT !.at = writes[r] + 1]
    OBVIOUS
  <1>2. t \in ReceiveRecord /\ t.state = s.state /\ t.claim = s.claim /\ t.at = writes[r] + 1
    BY <1>1 DEF ReceiveRecord
  <1> QED
    BY <1>1, <1>2 DEF Save

(* There is room for another stamp where the count leaves some. *)
LEMMA Room ==
    ASSUME TypeOK, NEW r \in Receives, NEW n \in 0..3,
           \/ Counted /\ n <= Left(rec[r]) + Asked(r)
           \/ Counted /\ imports[r] < MaxImports
    PROVE  writes[r] + n \in Stamps
  <1>1. /\ writes[r] \in Nat /\ imports[r] \in 0..MaxImports /\ restores \in 0..MaxRestores
        /\ MaxImports \in Nat /\ MaxRestores \in Nat
    BY ReceiveAssumption DEF TypeOK, Stamps
  <1>2. Left(rec[r]) \in Nat /\ Asked(r) \in Nat /\ Restored(r) \in Nat
    BY DEF Left, Asked, Restored
  <1>3. Counted
    OBVIOUS
  <1>4. writes[r] + Left(rec[r]) + Asked(r) + Restored(r) <= 3 * imports[r] + 2 * restores
    BY <1>3 DEF Counted
  <1> QED
    BY <1>1, <1>2, <1>4 DEF Stamps

(* What each step writes into the records. *)
Wrote(r, t, n) ==
    /\ rec' = [rec EXCEPT ![r] = t]
    /\ writes' = [writes EXCEPT ![r] = writes[r] + n]

(* The first record of a receive is pending and carries no claim, but for one  *)
(* of the address service.                                                     *)
LEMMA InvoiceMoves ==
    ASSUME IInv, NEW r \in Receives, SaveInvoice(r) \/ ImportReceipt(r)
    PROVE  /\ rec[r] = NoRecord
           /\ \E t \in ReceiveRecord :
                 /\ Wrote(r, t, 1) /\ t.at = writes[r] + 1 /\ t.state = "pending"
                 /\ r \notin Addressed => t.claim = NoClaim
  <1>1. PICK c \in Outputs \cup {NoClaim} :
             Save(r, NewRecord(c)) /\ (r \notin Addressed => c = NoClaim)
    <2>1. CASE SaveInvoice(r)
      BY <2>1 DEF SaveInvoice
    <2>2. CASE ImportReceipt(r)
      <3>1. r \in Addressed
        BY <2>2 DEF ImportReceipt, IInv, Reading, At
      <3> QED
        BY <2>2, <3>1 DEF ImportReceipt, IInv, TypeOK
    <2> QED
      BY <2>1, <2>2
  <1>2. PICK s : s = NewRecord(c)
    OBVIOUS
  <1>3. s \in ReceiveRecord /\ s.state = "pending" /\ s.claim = c
    BY <1>2, ReceiveAssumption DEF NewRecord, ReceiveRecord, Stamps
  <1>4. rec[r] = NoRecord
    BY DEF SaveInvoice, ImportReceipt, IInv, Asking
  <1>5. writes[r] + 1 \in Stamps
    <2>1. SaveInvoice(r) => Asked(r) = 3
      BY DEF SaveInvoice, Asked
    <2>2. Left(rec[r]) = 0
      BY <1>4 DEF Left
    <2> QED
      BY <2>1, <2>2, Room DEF IInv, ImportReceipt
  <1> QED
    BY <1>1, <1>2, <1>3, <1>4, <1>5, SaveMoves DEF Wrote

(* A taken-over claim is written with the stamp of the record it is put in.    *)
LEMMA AdoptMoves ==
    ASSUME IInv, NEW r \in Receives, AdoptClaim(r)
    PROVE  /\ r \in Addressed /\ rec[r] # NoRecord
           /\ \E t \in ReceiveRecord : Wrote(r, t, 0) /\ Left(t) <= Left(rec[r])
  <1>1. r \in Addressed /\ rec[r] # NoRecord /\ rec[r] \in ReceiveRecord /\ writes[r] \in Nat
    BY DEF AdoptClaim, IInv, Reading, At, TypeOK, Entries, Stamps
  <1>2. PICK s \in ReceiveRecord, c \in Outputs \cup {NoClaim} : s = rec[r] /\ c = service[r]
    BY <1>1 DEF IInv, TypeOK
  <1>3. writes' = [writes EXCEPT ![r] = writes[r] + 0]
    BY <1>1 DEF AdoptClaim, IInv, TypeOK
  <1>4. CASE rec' = rec
    <2>1. rec' = [rec EXCEPT ![r] = s]
      BY <1>2, <1>4 DEF IInv, TypeOK, Entries
    <2>2. Left(s) <= Left(s)
      BY DEF Left
    <2> QED
      BY <1>1, <1>2, <1>3, <2>1, <2>2 DEF Wrote
  <1>5. CASE s.claim = NoClaim /\ s.state = "pending" /\ rec' = [rec EXCEPT ![r].claim = c]
    <2>1. PICK t : t = [s EXCEPT !.claim = c]
      OBVIOUS
    <2>2. t \in ReceiveRecord /\ t.state = "pending"
      BY <1>5, <2>1 DEF ReceiveRecord
    <2>3. rec' = [rec EXCEPT ![r] = t]
      BY <1>2, <1>5, <2>1
    <2>4. Left(t) <= Left(s)
      BY <1>5, <2>2, NoneAssumption DEF Left
    <2> QED
      BY <1>1, <1>2, <1>3, <2>2, <2>3, <2>4 DEF Wrote
  <1> QED
    BY <1>2, <1>4, <1>5 DEF AdoptClaim

(* The settled record keeps the claim whose payout was indexed.                *)
LEMMA SettleMoves ==
    ASSUME IInv, NEW r \in Receives, SettleReceive(r)
    PROVE  /\ rec[r] # NoRecord /\ rec[r].claim # NoClaim /\ Left(rec[r]) = 1
           /\ \E t \in ReceiveRecord :
                 /\ Wrote(r, t, 1) /\ t.at = writes[r] + 1 /\ t.state = "settled"
                 /\ t.claim = rec[r].claim
  <1>1. rec[r] # NoRecord /\ copy[r] = rec[r] /\ rec[r].state = "pending"
    BY DEF SettleReceive, IInv, Reading, At
  <1>2. rec[r] \in ReceiveRecord
    BY <1>1 DEF IInv, TypeOK, Entries
  <1>3. PICK s \in ReceiveRecord : s = rec[r]
    BY <1>2
  <1>4. s.claim # NoClaim /\ Left(s) = 1
    BY <1>1, <1>3 DEF SettleReceive, Paid, Left
  <1>5. PICK u : u = [s EXCEPT !.state = "settled"]
    OBVIOUS
  <1>6. u \in ReceiveRecord /\ u.state = "settled" /\ u.claim = s.claim
    BY <1>4, <1>5, NoneAssumption DEF ReceiveRecord
  <1>7. writes[r] + 1 \in Stamps
    <2>1. Asked(r) \in Nat
      BY DEF Asked
    <2> QED
      BY <1>3, <1>4, <2>1, Room DEF IInv
  <1>8. Save(r, u)
    BY <1>1, <1>3, <1>5 DEF SettleReceive
  <1> QED
    BY <1>1, <1>3, <1>4, <1>6, <1>7, <1>8, SaveMoves DEF Wrote

(* A saved claim is the first of its record, or that claim again.              *)
LEMMA ClaimMoves ==
    ASSUME IInv, NEW r \in Receives, SaveClaim(r)
    PROVE  /\ rec[r] # NoRecord /\ rec[r].state = "pending"
           /\ r \in todo /\ r \in shown \cup Addressed
           /\ \E o \in Outputs, t \in ReceiveRecord, n \in {0, 1} :
                 /\ rec[r].claim = IF n = 0 THEN o ELSE NoClaim
                 /\ Wrote(r, t, n) /\ t.at = writes[r] + n
                 /\ t.state = "pending" /\ t.claim = o
  <1>1. /\ rec[r] # NoRecord /\ copy[r] = rec[r] /\ rec[r].state = "pending"
        /\ r \in todo /\ (seen # {} => r \in shown \cup Addressed)
    BY DEF SaveClaim, IInv, Reading, At
  <1>2. rec[r] \in ReceiveRecord /\ writes[r] \in Stamps /\ writes[r] \in Nat
    BY <1>1 DEF IInv, TypeOK, Entries, Stamps
  <1>3. PICK s \in ReceiveRecord : s = rec[r]
    BY <1>2
  <1>4. PICK o \in Outputs : seen = {o} /\ s.claim \in {NoClaim, o} /\ SaveClaimed(r, o)
    BY <1>1, <1>3 DEF SaveClaim
  <1>5. CASE s.claim = o
    <2>1. PICK t : t = [s EXCEPT !.at = writes[r]]
      OBVIOUS
    <2>2. t \in ReceiveRecord /\ t.at = writes[r] /\ t.state = s.state /\ t.claim = s.claim
      BY <1>2, <2>1 DEF ReceiveRecord
    <2>3. Wrote(r, t, 0)
      BY <1>1, <1>2, <1>3, <1>4, <1>5, <2>1 DEF SaveClaimed, Wrote, IInv, TypeOK
    <2>4. t.at = writes[r] + 0
      BY <1>2, <2>2
    <2> QED
      BY <1>1, <1>3, <1>4, <1>5, <2>2, <2>3, <2>4
  <1>6. CASE s.claim # o
    <2>1. s.claim = NoClaim /\ Left(s) = 2
      BY <1>1, <1>3, <1>4, <1>6 DEF Left
    <2>2. PICK u : u = [s EXCEPT !.claim = o]
      OBVIOUS
    <2>3. u \in ReceiveRecord /\ u.state = "pending" /\ u.claim = o
      BY <1>1, <1>3, <2>2, NoneAssumption DEF ReceiveRecord
    <2>4. writes[r] + 1 \in Stamps
      <3>1. Asked(r) \in Nat
        BY DEF Asked
      <3> QED
        BY <1>3, <2>1, <3>1, Room DEF IInv
    <2>5. Save(r, u)
      BY <1>1, <1>3, <1>4, <1>6, <2>2 DEF SaveClaimed
    <2>6. \E t \in ReceiveRecord : /\ Wrote(r, t, 1) /\ t.at = writes[r] + 1
                                   /\ t.state = "pending" /\ t.claim = o
      BY <2>3, <2>4, <2>5, SaveMoves DEF Wrote
    <2> QED
      BY <1>1, <1>3, <1>4, <2>1, <2>6
  <1> QED
    BY <1>5, <1>6

-------------------------------------------------------------------------------
(* The types *)

HolderTyped ==
    /\ task = Idle \/ task \in [step : Steps, r : Receives \cup {NoRecord}]
    /\ todo \subseteq Receives /\ copy \in Entries /\ seen \subseteq Outputs
    /\ failures \in 0..MaxFailures

(* What the holder of the lock does without writing. *)
LEMMA LooksTyped ==
    ASSUME IInv, Passes \/ \E r \in Receives : Looks(r)
    PROVE  /\ UNCHANGED <<rec, contract, receipt, file, kept, coin, service, late, wire,
                          submitted, shown, imports, writes, restores>>
           /\ HolderTyped'
           /\ task'.step \in {"idle", "import", "look", "judge", "prove"}
  <1>a. /\ HolderTyped /\ NoEntries \in Entries /\ rec \in Entries
        /\ \A r \in Receives : Live(r) \subseteq Outputs
        /\ Addressed \subseteq Receives
    BY ReceiveAssumption DEF IInv, TypeOK, HolderTyped, NoEntries, Entries, Live
  <1>b. /\ \A step \in Steps, r \in Receives \cup {NoRecord} :
             Goto(step, r) => /\ task' \in [step : Steps, r : Receives \cup {NoRecord}]
                              /\ task'.step = step
        /\ {"import", "look", "judge", "prove"} \subseteq Steps
    BY DEF Goto, Steps
  <1>c. Fail => failures' \in 0..MaxFailures
    BY <1>a, ReceiveAssumption DEF Fail, HolderTyped
  <1>d. Release => /\ task' = Idle /\ task'.step = "idle"
                   /\ todo' \subseteq Receives /\ copy' \in Entries /\ seen' \subseteq Outputs
    BY <1>a DEF Release, Idle
  <1>1. CASE Passes
    <2>1. CASE StartPass
      BY <1>a, <1>b, <2>1 DEF StartPass, HolderTyped, stores, files, chain, sent, budget
    <2>2. CASE ImportFails
      <3>1. task'.step = "import"
        BY <2>2 DEF ImportFails, At
      <3> QED
        BY <1>a, <1>c, <2>2, <3>1 DEF ImportFails, HolderTyped, stores, files, chain, sent
    <2>3. CASE ReadReceives
      <3>1. copy' \in Entries /\ todo' \subseteq Receives
        BY <1>a, <2>3 DEF ReadReceives, Entries
      <3> QED
        BY <1>a, <1>b, <2>3, <3>1
           DEF ReadReceives, HolderTyped, stores, files, chain, sent, budget
    <2>4. CASE EndPass
      BY <1>a, <1>d, <2>4 DEF EndPass, HolderTyped, stores, files, chain, sent, budget
    <2>5. CASE GiveUp
      BY <1>a, <1>c, <1>d, <2>5 DEF GiveUp, HolderTyped, stores, files, chain, sent
    <2> QED
      BY <1>1, <2>1, <2>2, <2>3, <2>4, <2>5 DEF Passes
  <1>2. ASSUME NEW r \in Receives, Looks(r)
        PROVE  /\ UNCHANGED <<rec, contract, receipt, file, kept, coin, service, late, wire,
                              submitted, shown, imports, writes, restores>>
               /\ HolderTyped'
               /\ task'.step \in {"idle", "import", "look", "judge", "prove"}
    <2>1. UNCHANGED <<rec, contract, receipt, file, kept, coin, service, late, wire,
                      submitted, shown, imports, writes, restores, failures>>
      BY <1>2 DEF Looks, LookAtLockup, SkipReceive, PassThrows, ClaimAnswered,
                  ProveRetirement, KeepReceive, stores, files, chain, sent, budget
    <2>2. CASE LookAtLockup(r)
      BY <1>a, <1>b, <2>1, <2>2 DEF LookAtLockup, HolderTyped
    <2>3. CASE NextReceive(r)
      <3>1. copy' \in Entries
        BY <1>a, <2>3 DEF NextReceive, HolderTyped, Entries
      <3> QED
        BY <1>a, <1>b, <2>1, <2>3, <3>1 DEF NextReceive, HolderTyped
    <2>4. CASE Release
      BY <1>a, <1>d, <2>1, <2>4 DEF HolderTyped
    <2>5. CASE ProveRetirement(r)
      <3>1. copy' \in Entries
        BY <1>a, <2>5 DEF ProveRetirement, Entries
      <3> QED
        BY <1>a, <1>b, <2>1, <2>5, <3>1 DEF ProveRetirement, HolderTyped
    <2> QED
      BY <1>2, <2>2, <2>3, <2>4, <2>5
         DEF Looks, SkipReceive, PassThrows, ClaimAnswered, KeepReceive
  <1> QED
    BY <1>1, <1>2

(* What the services and the clock do. *)
LEMMA ServesTyped ==
    ASSUME IInv, RefundTime \/ \E r \in Receives, o \in Outputs : Serves(r, o)
    PROVE  /\ UNCHANGED <<rec, contract, receipt, file, kept, submitted, shown, imports,
                          writes, task, todo, copy, seen, restores>>
           /\ coin' \in [Receives -> [Outputs -> {"none", "live", "claimed", "paid", "refunded"}]]
           /\ service' \in [Addressed -> Outputs \cup {NoClaim}]
           /\ late' \in BOOLEAN /\ wire' \subseteq wire /\ failures' \in 0..MaxFailures
           /\ \A r \in Receives, o \in Outputs :
                 coin'[r][o] # "none" => coin[r][o] # "none" \/ r \in shown \cup Addressed
  <1>a. /\ coin \in [Receives -> [Outputs -> {"none", "live", "claimed", "paid", "refunded"}]]
        /\ service \in [Addressed -> Outputs \cup {NoClaim}] /\ late \in BOOLEAN
        /\ failures \in 0..MaxFailures
    BY DEF IInv, TypeOK
  <1>b. ASSUME NEW r \in Receives, NEW o \in Outputs,
               NEW s \in {"live", "claimed", "paid", "refunded"}, SetCoin(r, o, s),
               coin[r][o] # "none" \/ r \in shown \cup Addressed
        PROVE  /\ coin' \in [Receives ->
                                [Outputs -> {"none", "live", "claimed", "paid", "refunded"}]]
               /\ \A x \in Receives, n \in Outputs :
                     coin'[x][n] # "none" => coin[x][n] # "none" \/ x \in shown \cup Addressed
    <2>1. coin' = [coin EXCEPT ![r][o] = s]
      BY <1>b DEF SetCoin
    <2>2. PICK f : f = [coin[r] EXCEPT ![o] = s]
      OBVIOUS
    <2>3. /\ f \in [Outputs -> {"none", "live", "claimed", "paid", "refunded"}]
          /\ \A n \in Outputs : f[n] = IF n = o THEN s ELSE coin[r][n]
      BY <1>a, <2>2
    <2>4. coin' = [coin EXCEPT ![r] = f]
      BY <2>1, <2>2
    <2>5. coin'[r] = f /\ \A x \in Receives \ {r} : coin'[x] = coin[x]
      BY <1>a, <2>4
    <2>6. coin' \in [Receives -> [Outputs -> {"none", "live", "claimed", "paid", "refunded"}]]
      BY <1>a, <2>3, <2>4
    <2> QED
      BY <1>b, <2>3, <2>5, <2>6
  <1>1. CASE RefundTime
    BY <1>a, <1>1 DEF RefundTime, Outside, stores, files, holder, budget, sent
  <1>2. ASSUME NEW r \in Receives, NEW o \in Outputs, Serves(r, o)
        PROVE  /\ UNCHANGED <<rec, contract, receipt, file, kept, submitted, shown, imports,
                              writes, task, todo, copy, seen, restores, late>>
               /\ wire' \subseteq wire
               /\ failures' = failures \/ Fail
               /\ \/ UNCHANGED service
                  \/ r \in Addressed /\ service' = [service EXCEPT ![r] = o]
               /\ \/ UNCHANGED coin
                  \/ \E s \in {"live", "claimed", "paid", "refunded"} :
                        SetCoin(r, o, s) /\ (coin[r][o] # "none" \/ r \in shown \cup Addressed)
    <2>1. CASE FundLockup(r, o)
      BY <2>1 DEF FundLockup, Outside, stores, files, holder, budget, sent
    <2>2. CASE ExecuteClaim(r, o)
      BY <2>2 DEF ExecuteClaim, Outside, stores, files, holder, budget
    <2>3. CASE LoseClaim(r, o)
      BY <2>3 DEF LoseClaim, stores, files, chain, holder
    <2>4. CASE IndexPayout(r, o) \/ ServiceClaims(r, o) \/ RefundLockup(r, o)
      BY <2>4 DEF IndexPayout, ServiceClaims, RefundLockup, Outside, stores, files, holder,
                  budget, sent
    <2> QED
      BY <1>2, <2>1, <2>2, <2>3, <2>4 DEF Serves
  <1>3. ASSUME NEW r \in Receives, NEW o \in Outputs, Serves(r, o)
        PROVE  /\ service' \in [Addressed -> Outputs \cup {NoClaim}]
               /\ failures' \in 0..MaxFailures
    BY <1>a, <1>2, <1>3, ReceiveAssumption DEF Fail
  <1>4. ASSUME NEW r \in Receives, NEW o \in Outputs, Serves(r, o)
        PROVE  /\ coin' \in [Receives ->
                                [Outputs -> {"none", "live", "claimed", "paid", "refunded"}]]
               /\ \A x \in Receives, n \in Outputs :
                     coin'[x][n] # "none" => coin[x][n] # "none" \/ x \in shown \cup Addressed
    BY <1>a, <1>b, <1>2, <1>4
  <1> QED
    BY <1>a, <1>1, <1>2, <1>3, <1>4

(* What the writes do to the records and to their count. *)
LEMMA WritesMove ==
    ASSUME IInv, NEW r \in Receives, Writes(r)
    PROVE  /\ rec' \in Entries /\ writes' \in [Receives -> Stamps]
           /\ \A x \in Receives \ {r} : rec'[x] = rec[x] /\ writes'[x] = writes[x]
           /\ contract \subseteq contract' /\ contract' \subseteq Receives
           /\ UNCHANGED <<receipt, file, kept, coin, service, late, wire, submitted, shown,
                          restores, failures>>
           /\ imports' \in [Receives -> 0..MaxImports]
           /\ \A x \in Receives \ {r} : imports'[x] = imports[x]
           /\ imports'[r] = imports[r] + (IF ImportReceipt(r) THEN 1 ELSE 0)
  <1>a. /\ rec \in Entries /\ copy \in Entries /\ writes \in [Receives -> Stamps]
        /\ contract \subseteq Receives /\ imports \in [Receives -> 0..MaxImports]
        /\ \A x \in Receives : imports[x] \in Nat
        /\ MaxImports \in Nat
    BY ReceiveAssumption DEF IInv, TypeOK
  <1>1. /\ contract \subseteq contract' /\ contract' \subseteq Receives
        /\ UNCHANGED <<receipt, file, kept, coin, service, late, wire, submitted, shown,
                       restores, failures>>
    BY <1>a DEF Writes, SaveInvoice, ImportReceipt, AdoptClaim, SettleReceive, SaveClaim,
                RemoveReceive, RestoreRecord, files, chain, sent, budget
  <1>2. /\ imports' \in [Receives -> 0..MaxImports]
        /\ \A x \in Receives \ {r} : imports'[x] = imports[x]
        /\ imports'[r] = imports[r] + (IF ImportReceipt(r) THEN 1 ELSE 0)
    <2>1. CASE ImportReceipt(r)
      <3>1. imports' = [imports EXCEPT ![r] = imports[r] + 1] /\ imports[r] < MaxImports
        BY <2>1 DEF ImportReceipt
      <3>2. imports[r] + 1 \in 0..MaxImports
        BY <1>a, <3>1
      <3> QED
        BY <1>a, <2>1, <3>1, <3>2
    <2>2. CASE ~ImportReceipt(r)
      <3>1. imports' = imports
        BY <2>2 DEF Writes, SaveInvoice, AdoptClaim, SettleReceive, SaveClaim,
                RemoveReceive, RestoreRecord
      <3> QED
        BY <1>a, <2>2, <3>1
    <2> QED
      BY <2>1, <2>2
  <1>3. CASE \E t \in ReceiveRecord \cup {NoRecord}, n \in {0, 1} :
                Wrote(r, t, n) /\ writes[r] + n \in Stamps
    BY <1>a, <1>1, <1>2, <1>3 DEF Wrote, Entries
  <1>4. \A t \in ReceiveRecord : t.at \in Stamps
    BY DEF ReceiveRecord
  <1>5. CASE SaveInvoice(r) \/ ImportReceipt(r) \/ SettleReceive(r) \/ SaveClaim(r)
    BY <1>3, <1>4, <1>5, InvoiceMoves, SettleMoves, ClaimMoves
  <1>6. /\ writes[r] + 0 \in Stamps
        /\ writes' = writes <=> writes' = [writes EXCEPT ![r] = writes[r] + 0]
    <2>1. writes[r] \in Stamps /\ writes[r] \in Nat
      BY <1>a DEF Stamps
    <2> QED
      BY <1>a, <2>1
  <1>7. CASE AdoptClaim(r)
    BY <1>3, <1>6, <1>7, AdoptMoves DEF Wrote, AdoptClaim
  <1>8. CASE RemoveReceive(r) \/ RestoreRecord(r)
    <2>1. copy[r] \in ReceiveRecord \cup {NoRecord}
      BY <1>a DEF Entries
    <2> QED
      BY <1>3, <1>6, <1>8, <2>1 DEF RemoveReceive, RestoreRecord, Wrote
  <1> QED
    BY <1>5, <1>7, <1>8 DEF Writes

(* What the writes do to their holder. *)
LEMMA WritesTyped ==
    ASSUME IInv, NEW r \in Receives, Writes(r)
    PROVE  /\ HolderTyped'
           /\ task' = task \/ task'.step \in {"idle", "show", "look", "submit"}
  <1>a. HolderTyped /\ NoEntries \in Entries /\ failures' = failures
    BY WritesMove DEF IInv, TypeOK, HolderTyped, NoEntries, Entries
  <1>b. /\ \A step \in Steps, x \in Receives \cup {NoRecord} :
             Goto(step, x) => /\ task' \in [step : Steps, r : Receives \cup {NoRecord}]
                              /\ task'.step = step
        /\ {"show", "look", "submit"} \subseteq Steps
    BY DEF Goto, Steps
  <1>c. Release => /\ task' = Idle /\ task'.step = "idle"
                   /\ todo' \subseteq Receives /\ copy' \in Entries /\ seen' \subseteq Outputs
    BY <1>a DEF Release, Idle
  <1>d. [copy EXCEPT ![r] = NoRecord] \in Entries
    BY <1>a DEF HolderTyped, Entries
  <1>1. CASE SaveInvoice(r)
    BY <1>a, <1>b, <1>1 DEF SaveInvoice, HolderTyped
  <1>2. CASE ImportReceipt(r) \/ AdoptClaim(r)
    BY <1>a, <1>2 DEF ImportReceipt, AdoptClaim, HolderTyped
  <1>3. CASE SettleReceive(r)
    BY <1>a, <1>b, <1>d, <1>3 DEF SettleReceive, NextReceive, HolderTyped
  <1>4. CASE SaveClaim(r)
    BY <1>a, <1>b, <1>d, <1>4 DEF SaveClaim, HolderTyped
  <1>5. CASE RemoveReceive(r)
    BY <1>a, <1>c, <1>5 DEF RemoveReceive, HolderTyped
  <1>6. CASE RestoreRecord(r)
    BY <1>a, <1>6 DEF RestoreRecord, HolderTyped, Idle
  <1> QED
    BY <1>1, <1>2, <1>3, <1>4, <1>5, <1>6 DEF Writes

(* A merge keeps one of the two copies. *)
LEMMA MergeKeeps ==
    ASSUME NEW a, NEW b
    PROVE  retainedRecord(a, b) \in {a, b}
  BY DEF retainedRecord

(* The asking of an invoice, the recovery file and the submission. *)
LEMMA AsksTyped ==
    ASSUME IInv, NEW r \in Receives, Asks(r) \/ WriteReceipt(r) \/ SubmitClaim(r)
    PROVE  /\ HolderTyped' /\ UNCHANGED <<rec, file, kept, coin, service, late, writes, restores>>
           /\ contract \subseteq contract' /\ contract' \subseteq Receives
           /\ receipt' \in [Receives -> Outputs \cup {NoClaim}]
           /\ wire' \subseteq submitted' /\ submitted' \subseteq Receives \X Outputs
           /\ shown' \subseteq Receives
           /\ imports' \in [Receives -> 0..MaxImports]
           /\ \A x \in Receives : imports'[x] >= imports[x]
           /\ task'.step \in {"register", "save", "idle", "remove", "answer"}
  <1>a. /\ HolderTyped /\ NoEntries \in Entries /\ contract \subseteq Receives
        /\ receipt \in [Receives -> Outputs \cup {NoClaim}]
        /\ wire \subseteq submitted /\ submitted \subseteq Receives \X Outputs
        /\ shown \subseteq Receives /\ imports \in [Receives -> 0..MaxImports]
        /\ \A x \in Receives : imports[x] \in Nat
        /\ rec \in Entries /\ MaxImports \in Nat
    BY ReceiveAssumption DEF IInv, TypeOK, HolderTyped, NoEntries, Entries
  <1>b. \A x \in Receives : imports[x] >= imports[x]
    BY <1>a
  <1>c. /\ \A step \in Steps, x \in Receives \cup {NoRecord} :
             Goto(step, x) => /\ task' \in [step : Steps, r : Receives \cup {NoRecord}]
                              /\ task'.step = step
        /\ {"register", "save", "remove", "answer"} \subseteq Steps
    BY DEF Goto, Steps
  <1>1. CASE RequestInvoice(r)
    <2>1. imports' = [imports EXCEPT ![r] = imports[r] + 1] /\ imports[r] < MaxImports
      BY <1>1 DEF RequestInvoice
    <2>2. imports[r] + 1 \in 0..MaxImports
      BY <1>a, <2>1
    <2>3. /\ imports' \in [Receives -> 0..MaxImports]
          /\ \A x \in Receives : imports'[x] >= imports[x]
      BY <1>a, <2>1, <2>2
    <2> QED
      BY <1>a, <1>c, <1>1, <2>3 DEF RequestInvoice, HolderTyped, files, chain, sent, budget
  <1>2. CASE RegisterLockup(r)
    BY <1>a, <1>b, <1>c, <1>2 DEF RegisterLockup, HolderTyped, files, chain, sent, budget
  <1>3. CASE ShowInvoice(r)
    BY <1>a, <1>b, <1>3 DEF ShowInvoice, Release, Idle, HolderTyped, stores, files, chain, budget
  <1>4. CASE WriteReceipt(r)
    <2>1. copy[r].claim \in Outputs \cup {NoClaim}
      <3>1. rec[r] \in ReceiveRecord /\ copy[r] = rec[r]
        BY <1>a, <1>4 DEF WriteReceipt, At, IInv, Retiring, Entries
      <3> QED
        BY <3>1 DEF ReceiveRecord
    <2>2. receipt' \in [Receives -> Outputs \cup {NoClaim}]
      BY <1>a, <1>4, <2>1 DEF WriteReceipt
    <2> QED
      BY <1>a, <1>b, <1>c, <1>4, <2>2 DEF WriteReceipt, HolderTyped, files, chain, sent, budget
  <1>5. CASE SubmitClaim(r)
    <2>1. rec[r].claim \in Outputs
      <3>1. rec[r] \in ReceiveRecord /\ rec[r].claim # NoClaim
        BY <1>a, <1>5 DEF SubmitClaim, At, IInv, Reading, Entries
      <3> QED
        BY <3>1 DEF ReceiveRecord
    <2>2. wire' \subseteq submitted' /\ submitted' \subseteq Receives \X Outputs
      BY <1>a, <1>5, <2>1 DEF SubmitClaim
    <2> QED
      BY <1>a, <1>b, <1>c, <1>5, <2>2 DEF SubmitClaim, HolderTyped, stores, files, chain, budget
  <1> QED
    BY <1>1, <1>2, <1>3, <1>4, <1>5 DEF Asks

(* A capture keeps one copy of each receive; a copy of the file is a file.     *)
LEMMA ArchivesTyped ==
    ASSUME IInv, Archives
    PROVE  /\ UNCHANGED <<rec, contract, receipt, coin, service, late, wire, submitted, shown,
                          imports, writes, task, todo, copy, seen, restores, failures>>
           /\ task = Idle
           /\ file' \in Files /\ kept' \in Files
           /\ \/ KeepFile /\ UNCHANGED file /\ kept' = file
              \/ /\ UNCHANGED kept
                 /\ \A r \in Receives :
                       /\ ~Conflict(rec[r], file.entries[r])
                       /\ file'.entries[r] = IF rec[r] = NoRecord THEN file.entries[r]
                                             ELSE retainedRecord(rec[r], file.entries[r])
  <1>a. file \in Files /\ kept \in Files /\ rec \in Entries /\ file.entries \in Entries
    BY DEF IInv, TypeOK, Files
  <1>1. CASE KeepFile
    BY <1>a, <1>1 DEF KeepFile, LockFree, stores, chain, sent, holder, budget
  <1>2. CASE CaptureReceives
    <2>1. PICK e : e = [r \in Receives |->
             IF rec[r] = NoRecord THEN file.entries[r]
             ELSE retainedRecord(rec[r], file.entries[r])]
      OBVIOUS
    <2>2. \A r \in Receives :
             retainedRecord(rec[r], file.entries[r]) \in {rec[r], file.entries[r]}
      BY MergeKeeps
    <2>3. e \in Entries
      BY <1>a, <2>1, <2>2 DEF Entries
    <2>4. PICK c \in SUBSET (Receives \X Outputs) : file' = [entries |-> e, covered |-> c]
      BY <1>2, <2>1 DEF CaptureReceives
    <2>5. file' \in Files /\ file'.entries = e
      BY <2>3, <2>4 DEF Files
    <2> QED
      BY <1>a, <1>2, <2>1, <2>5
         DEF CaptureReceives, LockFree, stores, chain, sent, holder, budget
  <1> QED
    BY <1>1, <1>2 DEF Archives

(* A restore works on copies of the file, none of which conflicts.             *)
LEMMA RestoreTyped ==
    ASSUME IInv, RestoreStep
    PROVE  /\ UNCHANGED <<rec, contract, receipt, file, kept, coin, service, late, wire,
                          submitted, shown, imports, writes, failures>>
           /\ task = Idle /\ task' = [step |-> "restore", r |-> NoRecord]
           /\ HolderTyped' /\ restores' = restores + 1 /\ restores' \in 0..MaxRestores
           /\ \A x \in todo' :
                 /\ copy'[x] # NoRecord /\ copy'[x] \in {file.entries[x], kept.entries[x]}
                 /\ rec[x] # NoRecord => rec[x].claim \in {NoClaim, copy'[x].claim}
  <1>a. /\ file \in Files /\ kept \in Files /\ rec \in Entries /\ NoRecord \notin ReceiveRecord
        /\ HolderTyped /\ restores \in 0..MaxRestores /\ MaxRestores \in Nat
    BY ReceiveAssumption, NoneAssumption DEF IInv, TypeOK, HolderTyped
  <1>1. PICK from \in {file, kept} : StartRestore(from)
    BY DEF RestoreStep
  <1>2. PICK e \in Entries : e = from.entries /\ e \in {file.entries, kept.entries}
    BY <1>a DEF Files
  <1>3. copy' = [r \in Receives |->
           IF e[r] = NoRecord \/ retiredReceiveBindsEntry(r, e[r])
           THEN NoRecord ELSE retainedRecord(rec[r], e[r])]
    BY <1>1, <1>2 DEF StartRestore
  <1>4. \A r \in Receives : retainedRecord(rec[r], e[r]) \in {rec[r], e[r]}
    BY MergeKeeps
  <1>5. copy' \in Entries
    BY <1>a, <1>3, <1>4 DEF Entries
  <1>6. /\ UNCHANGED <<rec, contract, receipt, file, kept, coin, service, late, wire,
                       submitted, shown, imports, writes, failures, seen>>
        /\ task = Idle /\ task' = [step |-> "restore", r |-> NoRecord]
        /\ todo' = {r \in Receives : copy'[r] # NoRecord /\ copy'[r] # rec[r]}
        /\ restores < MaxRestores /\ restores' = restores + 1
    BY <1>1 DEF StartRestore, LockFree, Goto, stores, files, chain, sent
  <1>7. restores' \in 0..MaxRestores
    BY <1>a, <1>6
  <1>8. HolderTyped'
    BY <1>a, <1>5, <1>6 DEF HolderTyped, Steps
  <1>9. ASSUME NEW x \in todo'
        PROVE  /\ copy'[x] # NoRecord /\ copy'[x] \in {file.entries[x], kept.entries[x]}
               /\ rec[x] # NoRecord => rec[x].claim \in {NoClaim, copy'[x].claim}
    <2>1. x \in Receives /\ copy'[x] # NoRecord /\ copy'[x] # rec[x]
      BY <1>6
    <2>2. copy'[x] = e[x] /\ copy'[x] = retainedRecord(rec[x], e[x]) /\ e[x] # NoRecord
      BY <1>3, <1>4, <2>1
    <2>3. ~Conflict(rec[x], e[x])
      BY <1>1, <1>2, <2>1 DEF StartRestore
    <2>4. ASSUME rec[x] # NoRecord PROVE rec[x].claim \in {NoClaim, e[x].claim}
      BY <2>1, <2>2, <2>3, <2>4 DEF Conflict, retainedRecord
    <2> QED
      BY <1>2, <2>1, <2>2, <2>4
  <1> QED
    BY <1>6, <1>7, <1>8, <1>9

(* Every step keeps the types. *)
LEMMA TypesKeep ==
    ASSUME IInv, Next
    PROVE  TypeOK'
  <1>a. /\ rec \in Entries /\ contract \subseteq Receives
        /\ receipt \in [Receives -> Outputs \cup {NoClaim}]
        /\ file \in Files /\ kept \in Files
        /\ coin \in [Receives -> [Outputs -> {"none", "live", "claimed", "paid", "refunded"}]]
        /\ service \in [Addressed -> Outputs \cup {NoClaim}] /\ late \in BOOLEAN
        /\ wire \subseteq submitted /\ submitted \subseteq Receives \X Outputs
        /\ shown \subseteq Receives
        /\ imports \in [Receives -> 0..MaxImports] /\ writes \in [Receives -> Stamps]
        /\ restores \in 0..MaxRestores /\ failures \in 0..MaxFailures /\ HolderTyped
    BY DEF IInv, TypeOK, HolderTyped
  <1>1. CASE Passes \/ \E r \in Receives : Looks(r)
    BY <1>a, <1>1, LooksTyped DEF TypeOK, HolderTyped
  <1>2. CASE RefundTime \/ \E r \in Receives, o \in Outputs : Serves(r, o)
    <2>1. HolderTyped'
      BY <1>a, <1>2, ServesTyped DEF HolderTyped
    <2>2. wire' \subseteq submitted'
      BY <1>a, <1>2, ServesTyped
    <2> QED
      BY <1>a, <1>2, <2>1, <2>2, ServesTyped DEF TypeOK, HolderTyped
  <1>3. ASSUME NEW r \in Receives, Writes(r) PROVE TypeOK'
    BY <1>a, <1>3, WritesMove, WritesTyped DEF TypeOK, HolderTyped
  <1>4. ASSUME NEW r \in Receives, Asks(r) \/ WriteReceipt(r) \/ SubmitClaim(r) PROVE TypeOK'
    BY <1>a, <1>4, AsksTyped DEF TypeOK, HolderTyped
  <1>5. CASE Archives
    BY <1>a, <1>5, ArchivesTyped DEF TypeOK, HolderTyped
  <1>6. CASE RestoreStep
    BY <1>a, <1>6, RestoreTyped DEF TypeOK, HolderTyped
  <1> QED
    BY <1>1, <1>2, <1>3, <1>4, <1>5, <1>6, NextParts

-------------------------------------------------------------------------------
(* The count of the stamps *)

CountedAt(x) == writes[x] + Left(rec[x]) + Asked(x) + Restored(x) <= 3 * imports[x] + 2 * restores

(* A step that does not write leaves the count. *)
LEMMA CountStays ==
    ASSUME IInv, NEW x \in Receives, rec'[x] = rec[x], writes'[x] = writes[x],
           imports'[x] \in Nat, imports'[x] >= imports[x], restores' \in Nat,
           restores' >= restores,
           \/ Asked(x)' <= Asked(x)
           \/ imports'[x] >= imports[x] + 1,
           \/ Restored(x)' <= Restored(x)
           \/ restores' = restores + 1
    PROVE  CountedAt(x)'
  <1>1. /\ writes[x] \in Nat /\ imports[x] \in Nat /\ restores \in Nat
    BY ReceiveAssumption DEF IInv, TypeOK, Stamps
  <1>2. Left(rec[x]) \in {0, 1, 2} /\ Left(rec[x])' = Left(rec[x])
    BY DEF Left
  <1>3. /\ Asked(x) \in {0, 3} /\ Asked(x)' \in {0, 3}
        /\ Restored(x) \in {0, 2} /\ Restored(x)' \in {0, 2}
    BY DEF Asked, Restored
  <1>4. CountedAt(x)
    BY DEF CountedAt, IInv, Counted
  <1> QED
    BY <1>1, <1>2, <1>3, <1>4 DEF CountedAt

(* Every step leaves room for the stamps that are owed.                        *)
LEMMA CountedKeeps ==
    ASSUME IInv, Next
    PROVE  Counted'
  <1> SUFFICES ASSUME NEW x \in Receives PROVE CountedAt(x)'
    BY DEF Counted, CountedAt
  <1>a. /\ writes[x] \in Nat /\ imports[x] \in Nat /\ restores \in Nat
        /\ imports[x] >= imports[x] /\ restores >= restores
        /\ Left(rec[x]) \in {0, 1, 2}
        /\ Asked(x) \in {0, 3} /\ Restored(x) \in {0, 2}
        /\ Asked(x)' \in {0, 3} /\ Restored(x)' \in {0, 2}
        /\ CountedAt(x)
    BY ReceiveAssumption DEF IInv, TypeOK, Stamps, Left, Asked, Restored, Counted, CountedAt
  <1>b. /\ task'.step \notin {"register", "save"} => Asked(x)' = 0
        /\ task'.step # "restore" => Restored(x)' = 0
    BY DEF Asked, Restored, At
  <1>1. CASE Passes \/ \E r \in Receives : Looks(r)
    <2>1. Asked(x)' = 0 /\ Restored(x)' = 0
      BY <1>1, <1>b, LooksTyped
    <2> QED
      BY <1>1, <1>a, <2>1, LooksTyped, CountStays
  <1>2. CASE RefundTime \/ \E r \in Receives, o \in Outputs : Serves(r, o)
    <2>1. UNCHANGED <<rec, writes, imports, restores, task, todo>>
      BY <1>2, ServesTyped
    <2>2. Asked(x)' = Asked(x) /\ Restored(x)' = Restored(x)
      BY <2>1 DEF Asked, Restored, At
    <2> QED
      BY <1>a, <2>1, <2>2, CountStays
  <1>3. CASE Archives
    <2>1. UNCHANGED <<rec, writes, imports, restores, task, todo>>
      BY <1>3, ArchivesTyped
    <2>2. Asked(x)' = Asked(x) /\ Restored(x)' = Restored(x)
      BY <2>1 DEF Asked, Restored, At
    <2> QED
      BY <1>a, <2>1, <2>2, CountStays
  <1>4. CASE RestoreStep
    <2>1. Asked(x)' = 0
      BY <1>4, <1>b, RestoreTyped
    <2> QED
      BY <1>4, <1>a, <2>1, RestoreTyped, CountStays
  <1>5. ASSUME NEW r \in Receives, Asks(r) \/ WriteReceipt(r) \/ SubmitClaim(r)
        PROVE  CountedAt(x)'
    <2>1. /\ UNCHANGED <<rec, writes, restores>> /\ imports'[x] >= imports[x]
          /\ imports'[x] \in Nat /\ Restored(x)' = 0
      BY <1>5, <1>b, AsksTyped
    <2>2. CASE RequestInvoice(r)
      <3>1. imports'[x] = imports[x] + (IF x = r THEN 1 ELSE 0)
        BY <2>2 DEF RequestInvoice, IInv, TypeOK
      <3>2. x # r => Asked(x)' = 0
        BY <2>2 DEF RequestInvoice, Goto, Asked, At
      <3> QED
        BY <1>a, <2>1, <3>1, <3>2, CountStays
    <2>3. CASE RegisterLockup(r)
      <3>1. Asked(x)' <= Asked(x)
        BY <2>3 DEF RegisterLockup, Goto, Asked, At
      <3> QED
        BY <1>a, <2>1, <3>1, CountStays
    <2>4. CASE ShowInvoice(r) \/ WriteReceipt(r) \/ SubmitClaim(r)
      <3>1. task'.step \in {"idle", "remove", "answer"}
        BY <2>4 DEF ShowInvoice, WriteReceipt, SubmitClaim, Release, Idle, Goto
      <3> QED
        BY <1>a, <1>b, <2>1, <3>1, CountStays
    <2> QED
      BY <1>5, <2>2, <2>3, <2>4 DEF Asks
  <1>6. ASSUME NEW r \in Receives, Writes(r), x # r PROVE CountedAt(x)'
    <2>1. /\ rec'[x] = rec[x] /\ writes'[x] = writes[x] /\ imports'[x] = imports[x]
          /\ restores' = restores
      BY <1>6, WritesMove
    <2>2. Asked(x)' <= Asked(x)
      <3>1. CASE task' = task
        BY <1>a, <3>1 DEF Asked, At
      <3> QED
        BY <1>6, <1>a, <1>b, <3>1, WritesTyped
    <2>3. Restored(x)' <= Restored(x)
      <3>1. CASE task' = task
        <4>1. task.step = "restore" => todo' = todo \ {r}
          BY <1>6, <3>1 DEF Writes, SaveInvoice, ImportReceipt, AdoptClaim, SettleReceive,
                            SaveClaim, RemoveReceive, RestoreRecord, At
        <4> QED
          BY <3>1, <4>1 DEF Restored
      <3> QED
        BY <1>6, <1>a, <1>b, <3>1, WritesTyped
    <2> QED
      BY <1>a, <2>1, <2>2, <2>3, CountStays
  <1>7. ASSUME Writes(x) PROVE CountedAt(x)'
    <2>1. /\ restores' = restores
          /\ imports'[x] = imports[x] + (IF ImportReceipt(x) THEN 1 ELSE 0)
      BY <1>7, WritesMove
    <2>2. Left(rec[x])' \in {0, 1, 2}
      BY DEF Left
    <2>3. \A t, n : Wrote(x, t, n) => rec'[x] = t /\ writes'[x] = writes[x] + n
      BY DEF Wrote, IInv, TypeOK, Entries
    <2>4. \A t \in ReceiveRecord : t # NoRecord
      BY NoneAssumption
    <2>5. CASE SaveInvoice(x)
      <3>1. rec[x] = NoRecord /\ writes'[x] = writes[x] + 1
        BY <2>3, <2>5, InvoiceMoves
      <3>2. Asked(x) = 3 /\ Asked(x)' = 0 /\ Restored(x)' = 0 /\ Left(rec[x]) = 0
        BY <1>b, <2>5, <3>1 DEF SaveInvoice, Goto, Asked, Left
      <3>3. imports'[x] = imports[x]
        BY <2>5 DEF SaveInvoice
      <3> QED
        BY <1>a, <2>1, <2>2, <3>1, <3>2, <3>3 DEF CountedAt
    <2>6. CASE ImportReceipt(x)
      <3>1. rec[x] = NoRecord /\ writes'[x] = writes[x] + 1
        BY <2>3, <2>6, InvoiceMoves
      <3>2. Asked(x)' = 0 /\ Restored(x)' = 0 /\ Left(rec[x]) = 0
        BY <1>b, <2>6, <3>1 DEF ImportReceipt, At, Left
      <3> QED
        BY <1>a, <2>1, <2>2, <2>6, <3>1, <3>2 DEF CountedAt
    <2>7. CASE AdoptClaim(x)
      <3>1. Left(rec[x])' <= Left(rec[x]) /\ writes'[x] = writes[x] + 0
        BY <2>3, <2>7, AdoptMoves DEF Left
      <3>2. Asked(x)' = 0 /\ Restored(x)' = 0 /\ imports'[x] = imports[x]
        BY <1>b, <2>7 DEF AdoptClaim, At
      <3> QED
        BY <1>a, <2>1, <2>2, <3>1, <3>2 DEF CountedAt
    <2>8. CASE SettleReceive(x)
      <3>1. PICK t \in ReceiveRecord : /\ Wrote(x, t, 1) /\ t.state = "settled"
                                       /\ Left(rec[x]) = 1
        BY <2>8, SettleMoves
      <3>2. Left(rec[x])' = 0 /\ writes'[x] = writes[x] + 1
        BY <2>3, <3>1 DEF Left
      <3>3. Asked(x)' = 0 /\ Restored(x)' = 0 /\ imports'[x] = imports[x]
        BY <1>b, <2>8 DEF SettleReceive, NextReceive, Goto
      <3> QED
        BY <1>a, <2>1, <3>1, <3>2, <3>3 DEF CountedAt
    <2>9. CASE SaveClaim(x)
      <3>1. PICK o \in Outputs, t \in ReceiveRecord, n \in {0, 1} :
                 /\ rec[x].claim = IF n = 0 THEN o ELSE NoClaim
                 /\ Wrote(x, t, n) /\ t.state = "pending" /\ t.claim = o
        BY <2>9, ClaimMoves
      <3>2. rec[x] # NoRecord /\ rec[x].state = "pending"
        BY <2>9, ClaimMoves
      <3>3. Left(rec[x])' = 1 /\ Left(rec[x]) = n + 1 /\ writes'[x] = writes[x] + n
        BY <2>3, <2>4, <3>1, <3>2, NoneAssumption DEF Left
      <3>4. Asked(x)' = 0 /\ Restored(x)' = 0 /\ imports'[x] = imports[x]
        BY <1>b, <2>9 DEF SaveClaim, Goto
      <3> QED
        BY <1>a, <2>1, <3>1, <3>3, <3>4 DEF CountedAt
    <2>10. CASE RemoveReceive(x)
      <3>1. /\ rec'[x] = NoRecord /\ writes' = writes /\ imports' = imports
            /\ Asked(x)' = 0 /\ Restored(x)' = 0
        BY <1>b, <2>10 DEF RemoveReceive, Release, Idle, IInv, TypeOK, Entries
      <3>2. Left(rec[x])' = 0
        BY <3>1 DEF Left
      <3> QED
        BY <1>a, <2>1, <3>1, <3>2 DEF CountedAt
    <2>11. CASE RestoreRecord(x)
      <3>1. /\ writes' = writes /\ imports' = imports
            /\ Restored(x) = 2 /\ x \notin todo'
            /\ task'.step \in {"restore", "idle"}
        BY <2>11 DEF RestoreRecord, At, Restored, Idle
      <3>2. Asked(x)' = 0 /\ Restored(x)' = 0
        BY <1>b, <3>1 DEF Restored
      <3> QED
        BY <1>a, <2>1, <2>2, <3>1, <3>2 DEF CountedAt
    <2> QED
      BY <1>7, <2>5, <2>6, <2>7, <2>8, <2>9, <2>10, <2>11 DEF Writes
  <1> QED
    BY <1>1, <1>2, <1>3, <1>4, <1>5, <1>6, <1>7, NextParts

-------------------------------------------------------------------------------
(* What the holder of the lock read *)

(* Nobody else writes what an invoice is being made of.                        *)
LEMMA AskingKeeps ==
    ASSUME IInv, Next
    PROVE  Asking'
  <1>a. Asking
    BY DEF IInv
  <1>b. task'.step \notin {"register", "save", "show"} => Asking'
    BY DEF Asking, At
  <1>1. CASE Passes \/ \E r \in Receives : Looks(r)
    BY <1>1, <1>b, LooksTyped
  <1>2. CASE RefundTime \/ \E r \in Receives, o \in Outputs : Serves(r, o)
    <2>1. UNCHANGED <<rec, contract, shown, task>>
      BY <1>2, ServesTyped
    <2> QED
      BY <1>a, <2>1 DEF Asking, At
  <1>3. CASE Archives \/ RestoreStep
    <2>1. task'.step \in {"idle", "restore"}
      BY <1>3, ArchivesTyped, RestoreTyped DEF Idle
    <2> QED
      BY <1>b, <2>1
  <1>4. ASSUME NEW r \in Receives, RequestInvoice(r) PROVE Asking'
    <2>1. /\ task' = [step |-> "register", r |-> r] /\ UNCHANGED <<rec, contract, shown>>
          /\ rec[r] = NoRecord /\ r \notin Addressed /\ r \notin shown
      BY <1>4 DEF RequestInvoice, Goto, sent
    <2> QED
      BY <2>1 DEF Asking, At
  <1>5. ASSUME NEW r \in Receives, RegisterLockup(r) PROVE Asking'
    <2>1. /\ task' = [step |-> "save", r |-> r] /\ UNCHANGED <<rec, shown>>
          /\ contract' = contract \cup {r} /\ At("register", r)
      BY <1>5 DEF RegisterLockup, Goto, sent
    <2> QED
      BY <1>a, <2>1 DEF Asking, At
  <1>6. ASSUME NEW r \in Receives, SaveInvoice(r) PROVE Asking'
    <2>1. task' = [step |-> "show", r |-> r] /\ contract' = contract /\ At("save", r)
      BY <1>6 DEF SaveInvoice, Goto
    <2> QED
      BY <1>a, <2>1 DEF Asking, At
  <1>7. ASSUME NEW r \in Receives, ShowInvoice(r) \/ WriteReceipt(r) \/ SubmitClaim(r)
        PROVE  Asking'
    <2>1. task'.step \in {"idle", "remove", "answer"}
      BY <1>7 DEF ShowInvoice, WriteReceipt, SubmitClaim, Release, Idle, Goto
    <2> QED
      BY <1>b, <2>1
  <1>8. ASSUME NEW r \in Receives, Writes(r), ~SaveInvoice(r) PROVE Asking'
    <2>1. task'.step \in {"idle", "look", "submit", "import", "restore"}
      BY <1>8 DEF Writes, ImportReceipt, AdoptClaim, SettleReceive, SaveClaim, NextReceive,
                  RemoveReceive, RestoreRecord, At, Idle, Release, Goto
    <2> QED
      BY <1>b, <2>1
  <1> QED
    BY <1>1, <1>2, <1>3, <1>4, <1>5, <1>6, <1>7, <1>8, NextParts DEF Asks

(* Nobody else writes the records a pass has read.                             *)
LEMMA ReadingKeeps ==
    ASSUME IInv, Next
    PROVE  Reading'
  <1>a. /\ Reading /\ rec \in Entries /\ copy \in Entries /\ todo \subseteq Receives
        /\ \A r \in Receives \ Addressed, o \in Outputs : coin[r][o] # "none" => r \in shown
    BY DEF IInv, TypeOK, Invoices, Paying
  <1>b. task'.step \notin {"import", "look", "judge", "submit", "answer"} => Reading'
    BY DEF Reading
  <1>c. ASSUME NEW r \in Receives, NextReceive(r),
               \A x \in todo \ {r} :
                  rec'[x] # NoRecord /\ copy[x] = rec'[x] /\ rec'[x].state = "pending"
        PROVE  Reading'
    <2>1. /\ task'.step = "look" /\ todo' = todo \ {r}
          /\ copy' = [copy EXCEPT ![r] = NoRecord]
      BY <1>c DEF NextReceive, Goto
    <2>2. \A x \in todo' : copy'[x] = copy[x]
      BY <1>a, <2>1 DEF Entries
    <2> QED
      BY <1>c, <2>1, <2>2 DEF Reading
  <1>1. CASE Passes
    <2>1. CASE StartPass \/ ImportFails
      <3>1. task'.step = "import" /\ (todo' = Addressed \/ todo' = {})
        BY <2>1 DEF StartPass, ImportFails, Goto, At
      <3> QED
        BY <3>1 DEF Reading
    <2>2. CASE ReadReceives
      <3>1. /\ task'.step = "look" /\ rec' = rec
            /\ \A x \in todo' : x \in Receives /\ rec[x] # NoRecord /\ rec[x].state = "pending"
            /\ copy' = [r \in Receives |-> IF r \in todo' THEN rec[r] ELSE NoRecord]
        BY <2>2 DEF ReadReceives, Goto, stores
      <3>2. \A x \in todo' : copy'[x] = rec[x]
        BY <3>1
      <3> QED
        BY <3>1, <3>2 DEF Reading
    <2>3. CASE EndPass \/ GiveUp
      BY <1>b, <2>3 DEF EndPass, GiveUp, Release, Idle
    <2> QED
      BY <1>1, <2>1, <2>2, <2>3 DEF Passes
  <1>2. ASSUME NEW r \in Receives, Looks(r) PROVE Reading'
    <2>1. rec' = rec /\ shown' = shown
      BY <1>2, LooksTyped
    <2>2. CASE LookAtLockup(r)
      <3>1. /\ task.step = "look" /\ task' = [step |-> "judge", r |-> r] /\ r \in todo
            /\ seen' = Live(r) /\ UNCHANGED <<todo, copy>>
        BY <2>2 DEF LookAtLockup, At, Goto
      <3>2. seen' # {} => r \in shown \cup Addressed
        BY <1>a, <3>1 DEF Live
      <3> QED
        BY <1>a, <2>1, <3>1, <3>2 DEF Reading
    <2>3. CASE SkipReceive(r)
      <3>1. task.step = "judge" /\ NextReceive(r)
        BY <2>3 DEF SkipReceive, At
      <3> QED
        BY <1>a, <1>c, <2>1, <3>1 DEF Reading
    <2>4. CASE ClaimAnswered(r)
      <3>1. task.step = "answer" /\ task.r = r /\ NextReceive(r)
        BY <2>4 DEF ClaimAnswered, At
      <3> QED
        BY <1>a, <1>c, <2>1, <3>1 DEF Reading
    <2>5. CASE PassThrows(r) \/ ProveRetirement(r) \/ KeepReceive(r)
      BY <1>b, <2>5 DEF PassThrows, ProveRetirement, KeepReceive, Release, Idle, Goto
    <2> QED
      BY <1>2, <2>2, <2>3, <2>4, <2>5 DEF Looks
  <1>3. CASE RefundTime \/ \E r \in Receives, o \in Outputs : Serves(r, o)
    <2>1. UNCHANGED <<rec, shown, task, todo, copy, seen>>
      BY <1>3, ServesTyped
    <2> QED
      BY <1>a, <2>1 DEF Reading
  <1>4. CASE Archives \/ RestoreStep
    <2>1. task'.step \in {"idle", "restore"}
      BY <1>4, ArchivesTyped, RestoreTyped DEF Idle
    <2> QED
      BY <1>b, <2>1
  <1>5. ASSUME NEW r \in Receives, Asks(r) \/ WriteReceipt(r) PROVE Reading'
    <2>1. task'.step \in {"register", "save", "idle", "remove"}
      BY <1>5 DEF Asks, RequestInvoice, RegisterLockup, ShowInvoice, WriteReceipt, Release,
                  Idle, Goto
    <2> QED
      BY <1>b, <2>1
  <1>6. ASSUME NEW r \in Receives, SubmitClaim(r) PROVE Reading'
    <2>1. /\ task.step = "submit" /\ task.r = r /\ task' = [step |-> "answer", r |-> r]
          /\ UNCHANGED <<rec, todo, copy>>
      BY <1>6 DEF SubmitClaim, At, Goto, stores
    <2> QED
      BY <1>a, <2>1 DEF Reading
  <1>7. ASSUME NEW r \in Receives, Writes(r) PROVE Reading'
    <2>1. \A x \in Receives \ {r} : rec'[x] = rec[x]
      BY <1>7, WritesMove
    <2>2. CASE SaveInvoice(r) \/ RemoveReceive(r) \/ RestoreRecord(r)
      <3>1. task'.step \in {"show", "idle", "restore"}
        BY <2>2 DEF SaveInvoice, RemoveReceive, RestoreRecord, Release, Idle, Goto, At
      <3> QED
        BY <1>b, <3>1
    <2>3. CASE ImportReceipt(r) \/ AdoptClaim(r)
      <3>1. task.step = "import" /\ task' = task /\ todo' = todo \ {r}
        BY <2>3 DEF ImportReceipt, AdoptClaim, At
      <3> QED
        BY <1>a, <3>1 DEF Reading
    <2>4. CASE SettleReceive(r)
      <3>1. task.step = "judge" /\ NextReceive(r)
        BY <2>4 DEF SettleReceive, At
      <3> QED
        BY <1>a, <1>c, <2>1, <3>1 DEF Reading
    <2>5. CASE SaveClaim(r)
      <3>1. /\ task.step = "judge" /\ task' = [step |-> "submit", r |-> r] /\ todo' = todo
            /\ copy' = [copy EXCEPT ![r] = NoRecord]
        BY <2>5 DEF SaveClaim, At, Goto
      <3>2. \A x \in todo \ {r} : copy'[x] = copy[x]
        BY <1>a, <3>1 DEF Entries
      <3>3. PICK t \in ReceiveRecord : rec'[r] = t /\ t.claim \in Outputs
        BY <1>a, <2>5, ClaimMoves DEF Wrote, Entries
      <3> QED
        BY <1>a, <2>1, <3>1, <3>2, <3>3, NoneAssumption DEF Reading
    <2> QED
      BY <1>7, <2>2, <2>3, <2>4, <2>5 DEF Writes
  <1> QED
    BY <1>1, <1>2, <1>3, <1>4, <1>5, <1>6, <1>7, NextParts

(* Nobody else writes the record that is being retired.                        *)
LEMMA RetiringKeeps ==
    ASSUME IInv, Next
    PROVE  Retiring'
  <1>a. Retiring /\ rec \in Entries
    BY DEF IInv, TypeOK
  <1>b. task'.step \notin {"prove", "remove"} => Retiring'
    BY DEF Retiring
  <1>1. ASSUME NEW r \in Receives, ProveRetirement(r) PROVE Retiring'
    <2>1. /\ task' = [step |-> "prove", r |-> r] /\ rec' = rec
          /\ rec[r] # NoRecord /\ rec[r].state = "settled"
          /\ copy' = [NoEntries EXCEPT ![r] = rec[r]]
      BY <1>1 DEF ProveRetirement, Goto, stores
    <2>2. copy'[r] = rec[r]
      BY <2>1 DEF NoEntries
    <2> QED
      BY <2>1, <2>2 DEF Retiring
  <1>2. ASSUME NEW r \in Receives, WriteReceipt(r) PROVE Retiring'
    <2>1. /\ task' = [step |-> "remove", r |-> r] /\ task.step = "prove" /\ task.r = r
          /\ receipt' = [receipt EXCEPT ![r] = copy[r].claim]
      BY <1>2 DEF WriteReceipt, Goto, At
    <2>2. copy[r] = rec[r] /\ rec[r] \in ReceiveRecord /\ rec[r].state = "settled"
      BY <1>a, <2>1 DEF Retiring, Entries
    <2>3. copy[r].claim # NoClaim
      BY <2>2, NoneAssumption DEF ReceiveRecord
    <2> QED
      BY <2>1, <2>3 DEF Retiring, IInv, TypeOK
  <1>3. CASE RefundTime \/ \E r \in Receives, o \in Outputs : Serves(r, o)
    <2>1. UNCHANGED <<rec, receipt, task, copy>>
      BY <1>3, ServesTyped
    <2> QED
      BY <1>a, <2>1 DEF Retiring
  <1>4. CASE Archives \/ RestoreStep
    <2>1. task'.step \in {"idle", "restore"}
      BY <1>4, ArchivesTyped, RestoreTyped DEF Idle
    <2> QED
      BY <1>b, <2>1
  <1>5. CASE Passes
    BY <1>b, <1>5 DEF Passes, StartPass, ImportFails, ReadReceives, EndPass, GiveUp, Release,
                      Idle, Goto, At
  <1>6. ASSUME NEW r \in Receives, Looks(r), ~ProveRetirement(r) PROVE Retiring'
    BY <1>b, <1>6 DEF Looks, LookAtLockup, SkipReceive, PassThrows, ClaimAnswered, KeepReceive,
                      NextReceive, Release, Idle, Goto
  <1>7. ASSUME NEW r \in Receives, Asks(r) \/ SubmitClaim(r) PROVE Retiring'
    BY <1>b, <1>7 DEF Asks, RequestInvoice, RegisterLockup, ShowInvoice, SubmitClaim, Release,
                      Idle, Goto
  <1>8. ASSUME NEW r \in Receives, Writes(r) PROVE Retiring'
    BY <1>b, <1>8 DEF Writes, SaveInvoice, ImportReceipt, AdoptClaim, SettleReceive, SaveClaim,
                      NextReceive, RemoveReceive, RestoreRecord, Release, Idle, Goto, At
  <1> QED
    BY <1>1, <1>2, <1>3, <1>4, <1>5, <1>6, <1>7, <1>8, NextParts

(* Nobody else writes what a restore decided on.                               *)
LEMMA RestoringKeeps ==
    ASSUME IInv, Next
    PROVE  Restoring'
  <1>a. Restoring
    BY DEF IInv
  <1>b. task'.step # "restore" => Restoring'
    BY DEF Restoring
  <1>1. CASE RestoreStep
    BY <1>1, RestoreTyped DEF Restoring
  <1>2. ASSUME NEW r \in Receives, RestoreRecord(r) PROVE Restoring'
    <2>1. CASE todo' = {}
      BY <2>1 DEF Restoring
    <2>2. CASE todo' # {}
      <3>1. task.step = "restore" /\ todo' = todo \ {r} /\ copy' = copy /\ task' = task
        BY <1>2, <2>2 DEF RestoreRecord, At
      <3>2. /\ \A x \in Receives \ {r} : rec'[x] = rec[x]
            /\ UNCHANGED <<file, kept>> /\ todo \subseteq Receives
        BY <1>2, WritesMove DEF Writes, IInv, TypeOK
      <3> QED
        BY <1>a, <3>1, <3>2 DEF Restoring
    <2> QED
      BY <2>1, <2>2
  <1>3. ASSUME NEW r \in Receives, Writes(r), ~RestoreRecord(r) PROVE Restoring'
    BY <1>b, <1>3 DEF Writes, SaveInvoice, ImportReceipt, AdoptClaim, SettleReceive, SaveClaim,
                      NextReceive, RemoveReceive, Release, Idle, Goto, At
  <1>4. CASE RefundTime \/ \E r \in Receives, o \in Outputs : Serves(r, o)
    <2>1. UNCHANGED <<rec, file, kept, task, todo, copy>>
      BY <1>4, ServesTyped
    <2> QED
      BY <1>a, <2>1 DEF Restoring
  <1>5. CASE Archives
    <2>1. task'.step = "idle"
      BY <1>5, ArchivesTyped DEF Idle
    <2> QED
      BY <1>b, <2>1
  <1>6. CASE Passes \/ \E r \in Receives : Looks(r)
    BY <1>b, <1>6, LooksTyped
  <1>7. ASSUME NEW r \in Receives, Asks(r) \/ WriteReceipt(r) \/ SubmitClaim(r)
        PROVE  Restoring'
    BY <1>b, <1>7, AsksTyped
  <1> QED
    BY <1>1, <1>2, <1>3, <1>4, <1>5, <1>6, <1>7, NextParts

-------------------------------------------------------------------------------
(* The invoices *)

(* What the invariant says of one invoice. *)
InvoiceOf(r) == Ordered(r) /\ Agreed(r) /\ Paying(r) /\ Secret(r)

(* Its records, where they are. *)
LEMMA InvoiceFacts ==
    ASSUME IInv, NEW r \in Receives \ Addressed
    PROVE  /\ InvoiceOf(r) /\ NoRecord \notin ReceiveRecord /\ NoClaim \notin Outputs
           /\ rec[r] \in ReceiveRecord \cup {NoRecord}
           /\ file.entries[r] \in ReceiveRecord \cup {NoRecord}
           /\ kept.entries[r] \in ReceiveRecord \cup {NoRecord}
           /\ writes[r] \in Nat /\ writes[r] \in Stamps
           /\ \A a \in ReceiveRecord :
                 /\ a.at \in Nat /\ a.claim \in Outputs \cup {NoClaim}
                 /\ a.state = "settled" => a.claim # NoClaim
  <1>1. InvoiceOf(r)
    BY DEF IInv, Invoices, InvoiceOf
  <1>2. /\ rec[r] \in ReceiveRecord \cup {NoRecord} /\ writes[r] \in Stamps
        /\ file.entries[r] \in ReceiveRecord \cup {NoRecord}
        /\ kept.entries[r] \in ReceiveRecord \cup {NoRecord}
    BY DEF IInv, TypeOK, Files, Entries
  <1>3. \A a \in ReceiveRecord :
           /\ a.at \in Stamps /\ a.claim \in Outputs \cup {NoClaim}
           /\ a.state = "settled" => a.claim # NoClaim
    BY NoneAssumption DEF ReceiveRecord
  <1>4. \A n \in Stamps : n \in Nat
    BY DEF Stamps
  <1> QED
    BY <1>1, <1>2, <1>3, <1>4, NoneAssumption

(* A step that leaves every copy of the record alone. *)
Leaves(r) ==
    /\ rec'[r] = rec[r] /\ writes'[r] = writes[r]
    /\ file'.entries[r] = file.entries[r] /\ kept'.entries[r] = kept.entries[r]
    /\ receipt'[r] = receipt[r] /\ submitted' = submitted
    /\ contract \subseteq contract' /\ shown \subseteq shown'
    /\ r \in shown' => (r \in shown \/ (rec[r] # NoRecord /\ r \in contract'))
    /\ \A o \in Outputs : coin'[r][o] # "none" => (coin[r][o] # "none" \/ r \in shown')

(* Such a step leaves the invoice as it was. *)
LEMMA InvoiceStays ==
    ASSUME IInv, NEW r \in Receives \ Addressed, Leaves(r)
    PROVE  InvoiceOf(r)'
  <1>1. InvoiceOf(r) /\ Copies(r)' = Copies(r)
    BY InvoiceFacts DEF Copies, Leaves
  <1>2. Ordered(r)' /\ Agreed(r)'
    BY <1>1 DEF InvoiceOf, Ordered, Agreed, Leaves
  <1>3. Paying(r)'
    BY <1>1 DEF InvoiceOf, Paying, Leaves
  <1>4. Secret(r)'
    BY <1>1 DEF InvoiceOf, Secret, Leaves
  <1> QED
    BY <1>2, <1>3, <1>4 DEF InvoiceOf

(* A step that writes the record only: no copy has another claim, and one      *)
(* with a claim is the newer one.                                              *)
LEMMA RecordWrites ==
    ASSUME IInv, NEW r \in Receives \ Addressed, NEW t \in ReceiveRecord, NEW n \in {0, 1},
           rec'[r] = t, writes'[r] = writes[r] + n, t.at <= writes[r] + n,
           UNCHANGED <<file, kept, receipt, submitted, shown, coin>>, contract \subseteq contract',
           \A a \in Copies(r) :
              /\ a.claim # NoClaim /\ t.claim = NoClaim => t.at < a.at
              /\ a.claim = NoClaim /\ t.claim # NoClaim => a.at < t.at,
           t.claim # NoClaim => r \in shown,
           receipt[r] = NoClaim /\ rec[r] # NoRecord /\ rec[r].claim # NoClaim =>
              t.claim = rec[r].claim
    PROVE  InvoiceOf(r)'
  <1>a. /\ InvoiceOf(r) /\ NoRecord \notin ReceiveRecord /\ writes[r] \in Nat
        /\ \A a \in Copies(r) : a \in ReceiveRecord /\ a.at \in Nat
        /\ t.at \in Nat
    BY InvoiceFacts DEF Copies
  <1>1. \A a \in Copies(r)' : a = t \/ a \in Copies(r)
    BY DEF Copies
  <1>2. Ordered(r)'
    BY <1>a, <1>1 DEF InvoiceOf, Ordered
  <1>3. Agreed(r)'
    <2> SUFFICES ASSUME receipt[r] = NoClaim, NEW a \in Copies(r), a.claim # NoClaim
                 PROVE  t.claim = a.claim
      BY <1>a, <1>1 DEF Agreed
    <2> QED
      BY <1>a DEF InvoiceOf, Agreed
  <1>4. Paying(r)'
    BY <1>a, <1>1 DEF InvoiceOf, Paying
  <1>5. Secret(r)'
    BY <1>a, NoneAssumption DEF InvoiceOf, Secret
  <1> QED
    BY <1>2, <1>3, <1>4, <1>5 DEF InvoiceOf

(* Every step keeps what is known of an invoice.                               *)
LEMMA InvoicesKeep ==
    ASSUME IInv, Next
    PROVE  Invoices'
  <1> SUFFICES ASSUME NEW x \in Receives \ Addressed PROVE InvoiceOf(x)'
    BY DEF Invoices, InvoiceOf
  <1>a. /\ InvoiceOf(x) /\ NoRecord \notin ReceiveRecord /\ NoClaim \notin Outputs
        /\ rec[x] \in ReceiveRecord \cup {NoRecord}
        /\ writes[x] \in Nat
        /\ \A a \in ReceiveRecord :
              /\ a.at \in Nat /\ a.claim \in Outputs \cup {NoClaim}
              /\ a.state = "settled" => a.claim # NoClaim
        /\ \A a \in Copies(x) : a \in ReceiveRecord /\ a.at <= writes[x]
        /\ receipt \in [Receives -> Outputs \cup {NoClaim}]
    BY InvoiceFacts DEF InvoiceOf, Ordered, Copies, IInv, TypeOK
  <1>1. CASE Passes \/ RestoreStep \/ \E r \in Receives : Looks(r)
    <2>1. UNCHANGED <<rec, contract, receipt, file, kept, coin, submitted, shown, writes>>
      <3>1. CASE RestoreStep
        BY <3>1, RestoreTyped
      <3> QED
        BY <1>1, <3>1, LooksTyped
    <2>2. Leaves(x)
      BY <2>1 DEF Leaves
    <2> QED
      BY <2>2, InvoiceStays
  <1>2. CASE RefundTime \/ \E r \in Receives, o \in Outputs : Serves(r, o)
    <2>1. UNCHANGED <<rec, contract, receipt, file, kept, submitted, shown, writes>>
      BY <1>2, ServesTyped
    <2>2. \A o \in Outputs : coin'[x][o] # "none" => coin[x][o] # "none" \/ x \in shown'
      BY <1>2, <2>1, ServesTyped
    <2>3. Leaves(x)
      BY <2>1, <2>2 DEF Leaves
    <2> QED
      BY <2>3, InvoiceStays
  <1>3. ASSUME NEW r \in Receives, Asks(r) PROVE InvoiceOf(x)'
    <2>1. /\ UNCHANGED <<rec, file, kept, coin, writes>> /\ contract \subseteq contract'
      BY <1>3, AsksTyped
    <2>2. UNCHANGED <<receipt, submitted>> /\ shown \subseteq shown'
      BY <1>3 DEF Asks, RequestInvoice, RegisterLockup, ShowInvoice, stores, sent
    <2>3. x \in shown' => (x \in shown \/ (rec[x] # NoRecord /\ x \in contract'))
      <3>1. CASE ShowInvoice(r)
        <4>1. At("show", r) /\ rec[r] # NoRecord /\ shown' = shown \cup {r}
          BY <3>1 DEF ShowInvoice
        <4>2. r \in contract
          BY <4>1 DEF IInv, Asking
        <4> QED
          BY <2>1, <4>1, <4>2
      <3>2. CASE RequestInvoice(r) \/ RegisterLockup(r)
        <4>1. shown' = shown
          BY <3>2 DEF RequestInvoice, RegisterLockup, sent
        <4> QED
          BY <4>1
      <3> QED
        BY <1>3, <3>1, <3>2 DEF Asks
    <2>4. Leaves(x)
      BY <2>1, <2>2, <2>3 DEF Leaves
    <2> QED
      BY <2>4, InvoiceStays
  <1>4. ASSUME NEW r \in Receives, SubmitClaim(r) PROVE InvoiceOf(x)'
    <2>1. /\ UNCHANGED <<rec, contract, receipt, file, kept, coin, shown, writes>>
          /\ submitted' = submitted \cup {<<r, rec[r].claim>>} /\ rec[r] # NoRecord
      BY <1>4 DEF SubmitClaim, stores, files, chain
    <2>2. Copies(x)' = Copies(x)
      BY <2>1 DEF Copies
    <2>3. Ordered(x)' /\ Agreed(x)' /\ Paying(x)'
      BY <1>a, <2>1, <2>2 DEF InvoiceOf, Ordered, Agreed, Paying
    <2>4. Secret(x)'
      BY <1>a, <2>1 DEF InvoiceOf, Secret
    <2> QED
      BY <2>3, <2>4 DEF InvoiceOf
  <1>5. ASSUME NEW r \in Receives, WriteReceipt(r) PROVE InvoiceOf(x)'
    <2>1. /\ UNCHANGED <<rec, contract, file, kept, coin, submitted, shown, writes>>
          /\ receipt' = [receipt EXCEPT ![r] = copy[r].claim]
          /\ file.entries[r] # NoRecord /\ file.entries[r].claim = copy[r].claim
          /\ copy[r] = rec[r]
      BY <1>5 DEF WriteReceipt, ArchiveBinds, files, chain, sent
    <2>2. rec[r] # NoRecord /\ rec[r].state = "settled"
      BY <1>5 DEF WriteReceipt, At, IInv, Retiring
    <2>3. CASE r = x
      <3>1. receipt'[x] = rec[x].claim /\ rec[x].claim # NoClaim /\ rec[x] \in Copies(x)
        BY <1>a, <2>1, <2>2, <2>3 DEF Copies
      <3>2. Copies(x)' = Copies(x)
        BY <2>1 DEF Copies
      <3>3. Ordered(x)' /\ Agreed(x)' /\ Paying(x)'
        BY <1>a, <2>1, <3>1, <3>2 DEF InvoiceOf, Ordered, Agreed, Paying
      <3>4. Secret(x)'
        BY <2>1, <2>3, <3>1 DEF Secret
      <3> QED
        BY <3>3, <3>4 DEF InvoiceOf
    <2>4. CASE r # x
      <3>1. receipt'[x] = receipt[x]
        BY <1>a, <2>1, <2>4
      <3>2. Leaves(x)
        BY <2>1, <3>1 DEF Leaves
      <3> QED
        BY <3>2, InvoiceStays
    <2> QED
      BY <2>3, <2>4
  <1>6. CASE Archives
    <2>1. /\ UNCHANGED <<rec, contract, receipt, coin, submitted, shown, writes>>
          /\ \/ UNCHANGED file /\ kept' = file
             \/ UNCHANGED kept /\ ~Conflict(rec[x], file.entries[x])
                /\ file'.entries[x] = IF rec[x] = NoRecord THEN file.entries[x]
                                      ELSE retainedRecord(rec[x], file.entries[x])
      BY <1>6, ArchivesTyped
    <2>2. file'.entries[x] \in {rec[x], file.entries[x]}
      BY <2>1, MergeKeeps
    <2>3. \A a \in Copies(x)' : a \in Copies(x)
      BY <2>1, <2>2 DEF Copies
    <2>4. Ordered(x)' /\ Agreed(x)' /\ Paying(x)'
      BY <1>a, <2>1, <2>3 DEF InvoiceOf, Ordered, Agreed, Paying
    <2>5. Secret(x)'
      <3>1. CASE receipt[x] = NoClaim
        BY <1>a, <2>1, <3>1 DEF InvoiceOf, Secret
      <3>2. CASE receipt[x] # NoClaim
        <4>1. file.entries[x] # NoRecord /\ file.entries[x].claim = receipt[x]
          BY <1>a, <3>2 DEF InvoiceOf, Secret
        <4>2. CASE file' = file \/ rec[x] = NoRecord
          BY <2>1, <3>2, <4>1, <4>2 DEF Secret
        <4>3. CASE file' # file /\ rec[x] # NoRecord
          <5>1. /\ ~Conflict(rec[x], file.entries[x])
                /\ file'.entries[x] = retainedRecord(rec[x], file.entries[x])
            BY <2>1, <4>3
          <5>2. rec[x].claim \in {NoClaim, receipt[x]}
            BY <3>2, <4>1, <4>3, <5>1 DEF Conflict
          <5>3. CASE rec[x].claim = receipt[x]
            BY <2>1, <2>2, <3>2, <4>1, <4>3, <5>3 DEF Secret
          <5>4. CASE rec[x].claim = NoClaim
            <6>1. /\ rec[x] \in Copies(x) /\ file.entries[x] \in Copies(x)
                  /\ rec[x] \in ReceiveRecord /\ file.entries[x] \in ReceiveRecord
              BY <1>a, <4>1, <4>3 DEF Copies
            <6>2. rec[x].at < file.entries[x].at
              BY <1>a, <3>2, <4>1, <5>4, <6>1 DEF InvoiceOf, Ordered
            <6>3. rec[x].state # "settled" /\ ~(rec[x].at >= file.entries[x].at)
              BY <1>a, <5>4, <6>1, <6>2
            <6>4. file'.entries[x] = file.entries[x]
              BY <4>1, <4>3, <5>1, <5>4, <6>3 DEF retainedRecord
            <6> QED
              BY <2>1, <3>2, <4>1, <6>4 DEF Secret
          <5> QED
            BY <5>2, <5>3, <5>4
        <4> QED
          BY <4>2, <4>3
      <3> QED
        BY <3>1, <3>2
    <2> QED
      BY <2>4, <2>5 DEF InvoiceOf
  <1>7. ASSUME NEW r \in Receives, Writes(r), r # x PROVE InvoiceOf(x)'
    <2>1. /\ UNCHANGED <<file, kept, receipt, submitted, shown, coin>>
          /\ contract \subseteq contract' /\ rec'[x] = rec[x] /\ writes'[x] = writes[x]
      BY <1>7, WritesMove
    <2>2. Leaves(x)
      BY <2>1 DEF Leaves
    <2> QED
      BY <2>2, InvoiceStays
  <1>8. ASSUME Writes(x) PROVE InvoiceOf(x)'
    <2>1. /\ UNCHANGED <<file, kept, receipt, submitted, shown, coin>>
          /\ contract \subseteq contract'
      BY <1>8, WritesMove
    <2>2. \A t, n : Wrote(x, t, n) => rec'[x] = t /\ writes'[x] = writes[x] + n
      BY DEF Wrote, IInv, TypeOK, Entries
    <2>3. ~ImportReceipt(x) /\ ~AdoptClaim(x)
      BY AdoptMoves DEF ImportReceipt, IInv, Reading, At
    <2>4. CASE SaveInvoice(x)
      <3>1. PICK t \in ReceiveRecord : /\ Wrote(x, t, 1) /\ t.at = writes[x] + 1
                                       /\ t.claim = NoClaim
        BY <2>4, InvoiceMoves
      <3>2. rec[x] = NoRecord /\ x \notin shown
        BY <2>4 DEF SaveInvoice, IInv, Asking
      <3>3. \A a \in Copies(x) : a.claim = NoClaim
        BY <1>a, <3>2 DEF InvoiceOf, Paying
      <3> QED
        BY <1>a, <2>1, <2>2, <3>1, <3>2, <3>3, RecordWrites
    <2>5. CASE SettleReceive(x)
      <3>1. rec[x] # NoRecord /\ rec[x].claim # NoClaim
        BY <2>5, SettleMoves
      <3>2. PICK t \in ReceiveRecord : /\ Wrote(x, t, 1) /\ t.at = writes[x] + 1
                                       /\ t.claim = rec[x].claim
        BY <2>5, SettleMoves
      <3>3. x \in shown
        BY <1>a, <3>1 DEF InvoiceOf, Paying, Copies
      <3>4. \A a \in Copies(x) : a.at < t.at
        BY <1>a, <3>2
      <3> QED
        BY <1>a, <2>1, <2>2, <3>1, <3>2, <3>3, <3>4, RecordWrites
    <2>6. CASE SaveClaim(x)
      <3>1. PICK o \in Outputs, t \in ReceiveRecord, n \in {0, 1} :
                 /\ rec[x].claim = IF n = 0 THEN o ELSE NoClaim
                 /\ Wrote(x, t, n) /\ t.at = writes[x] + n /\ t.claim = o
        BY <2>6, ClaimMoves
      <3>2. rec[x] # NoRecord /\ x \in shown
        BY <2>6, ClaimMoves
      <3>3. \A a \in Copies(x) : a.claim = NoClaim => a.at < t.at
        <4>1. CASE n = 0
          <5>1. rec[x].claim # NoClaim /\ rec[x] \in Copies(x)
            BY <1>a, <3>1, <3>2, <4>1 DEF Copies
          <5>2. \A a \in Copies(x) : a.claim = NoClaim => a.at < rec[x].at
            BY <1>a, <5>1 DEF InvoiceOf, Ordered
          <5>3. rec[x].at <= writes[x] /\ t.at = writes[x]
            BY <1>a, <3>1, <4>1, <5>1
          <5> QED
            BY <1>a, <5>1, <5>2, <5>3
        <4>2. CASE n = 1
          BY <1>a, <3>1, <4>2
        <4> QED
          BY <4>1, <4>2
      <3>4. rec[x].claim # NoClaim => t.claim = rec[x].claim
        BY <3>1
      <3> QED
        BY <1>a, <2>1, <2>2, <3>1, <3>2, <3>3, <3>4, RecordWrites
    <2>7. CASE RemoveReceive(x)
      <3>1. /\ receipt[x] # NoClaim /\ rec'[x] = NoRecord /\ writes' = writes
        BY <2>7 DEF RemoveReceive, At, IInv, Retiring, TypeOK, Entries
      <3>2. \A a \in Copies(x)' : a \in Copies(x)
        BY <2>1, <3>1 DEF Copies
      <3>3. Ordered(x)' /\ Agreed(x)' /\ Paying(x)' /\ Secret(x)'
        BY <1>a, <2>1, <3>1, <3>2 DEF InvoiceOf, Ordered, Agreed, Paying, Secret
      <3> QED
        BY <3>3 DEF InvoiceOf
    <2>8. CASE RestoreRecord(x)
      <3>1. /\ copy[x] # NoRecord /\ copy[x] \in {file.entries[x], kept.entries[x]}
            /\ rec[x] # NoRecord => rec[x].claim \in {NoClaim, copy[x].claim}
            /\ rec'[x] = copy[x] /\ writes' = writes
        BY <2>8 DEF RestoreRecord, At, IInv, Restoring, TypeOK, Entries
      <3>2. PICK t \in ReceiveRecord : t = copy[x] /\ t \in Copies(x)
        BY <1>a, <3>1 DEF Copies
      <3>3. t.at <= writes[x] + 0 /\ writes'[x] = writes[x] + 0
        BY <1>a, <3>1, <3>2
      <3>4. \A a \in Copies(x) :
              /\ a.claim # NoClaim /\ t.claim = NoClaim => t.at < a.at
              /\ a.claim = NoClaim /\ t.claim # NoClaim => a.at < t.at
        BY <1>a, <3>2 DEF InvoiceOf, Ordered
      <3>5. t.claim # NoClaim => x \in shown
        BY <1>a, <3>2 DEF InvoiceOf, Paying
      <3> QED
        BY <2>1, <3>1, <3>2, <3>3, <3>4, <3>5, RecordWrites
    <2> QED
      BY <1>8, <2>3, <2>4, <2>5, <2>6, <2>7, <2>8 DEF Writes
  <1> QED
    BY <1>1, <1>2, <1>3, <1>4, <1>5, <1>6, <1>7, <1>8, NextParts

-------------------------------------------------------------------------------
(* The theorems *)

(* A stutter leaves what the invariant reads. *)
LEMMA StutterIInv ==
    ASSUME IInv, UNCHANGED vars
    PROVE  IInv'
  <1>1. TypeOK'
    BY DEF IInv, TypeOK, vars
  <1>2. Counted'
    BY DEF IInv, Counted, Asked, Restored, At, vars
  <1>3. Asking'
    BY DEF IInv, Asking, At, vars
  <1>4. Reading' /\ Retiring' /\ Restoring'
    BY DEF IInv, Reading, Retiring, Restoring, vars
  <1>5. Invoices'
    BY DEF IInv, Invoices, Ordered, Agreed, Paying, Secret, Copies, vars
  <1> QED
    BY <1>1, <1>2, <1>3, <1>4, <1>5 DEF IInv

(* It holds at the start. *)
LEMMA InitIInv == Init => IInv
  <1> SUFFICES ASSUME Init PROVE IInv
    OBVIOUS
  <1>a. /\ \A r \in Receives : rec[r] = NoRecord /\ writes[r] = 0 /\ imports[r] = 0
        /\ \A r \in Receives : file.entries[r] = NoRecord /\ kept.entries[r] = NoRecord
        /\ restores = 0 /\ task.step = "idle" /\ \A step, r : ~At(step, r)
        /\ MaxImports \in Nat /\ MaxRestores \in Nat /\ MaxFailures \in Nat
    BY ReceiveAssumption DEF Init, NoEntries, EmptyFile, Idle, At
  <1>1. TypeOK
    <2>1. 0 \in Stamps /\ NoEntries \in Entries /\ EmptyFile \in Files
      BY <1>a DEF Stamps, NoEntries, EmptyFile, Entries, Files
    <2>2. /\ coin \in [Receives -> [Outputs -> {"none", "live", "claimed", "paid", "refunded"}]]
          /\ service \in [Addressed -> Outputs \cup {NoClaim}]
          /\ receipt \in [Receives -> Outputs \cup {NoClaim}]
      BY DEF Init
    <2>3. imports \in [Receives -> 0..MaxImports] /\ writes \in [Receives -> Stamps]
      <3>1. 0 \in 0..MaxImports
        BY <1>a
      <3> QED
        BY <2>1, <3>1 DEF Init
    <2>4. restores \in 0..MaxRestores /\ failures \in 0..MaxFailures
      BY <1>a DEF Init
    <2>5. /\ rec \in Entries /\ copy \in Entries /\ file \in Files /\ kept \in Files
          /\ contract \subseteq Receives /\ late \in BOOLEAN /\ wire \subseteq submitted
          /\ submitted \subseteq Receives \X Outputs /\ shown \subseteq Receives
          /\ task = Idle /\ todo \subseteq Receives /\ seen \subseteq Outputs
      BY <2>1 DEF Init
    <2> QED
      BY <2>2, <2>3, <2>4, <2>5 DEF TypeOK
  <1>2. Counted
    BY <1>a DEF Counted, Left, Asked, Restored
  <1>3. Asking /\ Reading /\ Retiring /\ Restoring
    BY <1>a DEF Asking, Reading, Retiring, Restoring
  <1>4. Invoices
    <2>1. \A r \in Receives : Copies(r) = {}
      BY <1>a DEF Copies
    <2> QED
      BY <2>1 DEF Invoices, Ordered, Agreed, Paying, Secret, Init
  <1> QED
    BY <1>1, <1>2, <1>3, <1>4 DEF IInv

(* Every step keeps it. *)
LEMMA NextIInv == IInv /\ [Next]_vars => IInv'
  <1>1. ASSUME IInv, Next PROVE IInv'
    BY <1>1, TypesKeep, CountedKeeps, AskingKeeps, ReadingKeeps, RetiringKeeps,
       RestoringKeeps, InvoicesKeep DEF IInv
  <1> QED
    BY <1>1, StutterIInv

(* The inductive invariant, of every behaviour. *)
THEOREM Invariant == Spec => []IInv
  BY InitIInv, NextIInv, PTL DEF Spec

(* The stores, the recovery file and the holder of the lock stay typed; the    *)
(* stamps of a receive never outgrow their bound, which counts the records     *)
(* made and restored (VaultLightningReceiveProfile).                           *)
THEOREM TypeCorrect == Spec => []TypeOK
  <1>1. IInv => TypeOK
    BY DEF IInv
  <1> QED
    BY <1>1, Invariant, PTL

(* A shown invoice keeps its record and its contract, and one claim only ever  *)
(* leaves the browser for it, whatever is retried, captured, restored or       *)
(* retired (saveRfqSwap, retainedRecord, writeRetiredLightningReceive).        *)
THEOREM OneClaimPerSecret == Spec => []SecretBuysOneOutput
  <1>1. IInv => SecretBuysOneOutput
    BY DEF IInv, Invoices, Secret, SecretBuysOneOutput
  <1> QED
    BY <1>1, Invariant, PTL

===============================================================================
