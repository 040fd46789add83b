----------------------- MODULE BitcoinSettlementProofs -----------------------
(* Proofs about BitcoinSettlement, for any number of tabs, operations and   *)
(* crashes.  They assume prompt pages: without them a status answer may be  *)
(* used when it no longer holds.                                            *)
EXTENDS BitcoinSettlement, TLAPS

(* A tab at work holds the lock, and works on the journaled operation. *)
Inside ==
    \A t \in Tabs :
        /\ pc[t] # "idle" =>
              /\ lock = t
              /\ copy[t] \in BitcoinPaymentJournal
              /\ copy[t].op = cur[t]
              /\ Holds(cur[t])
        /\ pc[t] = "idle" => view[t] = "waiting"

(* How far the payment of a tab at work is. *)
ProgressOf(t) ==
    /\ pc[t] \in {"prepare", "approve", "decline", "register", "batch", "final",
                  "check", "checked", "cancel"} => journal = copy[t]
    /\ pc[t] = "prepare" => copy[t].stage = "preparing"
    /\ pc[t] \in {"approve", "decline", "sign"} => copy[t].stage = "prepared"
    /\ pc[t] = "sign" => journal = [copy[t] EXCEPT !.deleteIntent = TRUE]
    /\ pc[t] = "register" => copy[t].stage = "registering" /\ copy[t].deleteIntent
    /\ pc[t] = "batch" => copy[t].stage = "registered" /\ copy[t].deleteIntent
    /\ pc[t] = "final" => copy[t].stage = "finalizing" /\ copy[t].deleteIntent /\ copy[t].final
    /\ pc[t] \in {"approve", "decline", "sign", "register", "batch", "final"} =>
          guardian[cur[t]] # "not_found"

Progress == \A t \in Tabs : ProgressOf(t)

(* What an answer says still holds when it is used. *)
ViewHolds ==
    \A t \in Tabs : pc[t] # "idle" =>
        /\ terminal(view[t]) => guardian[cur[t]] = view[t]
        /\ Committed(view[t]) => Committed(guardian[cur[t]])
        /\ view[t] = "confirmed" => guardian[cur[t]] = "confirmed"
        /\ view[t] = "prepared" => guardian[cur[t]] # "not_found"
        /\ pc[t] = "checked" /\ view[t] = "not_found" /\ cur[t] \in expired =>
              guardian[cur[t]] = "not_found"
        /\ pc[t] = "prepare" /\ view[t] = "refused" =>
              [call |-> "prepare", op |-> cur[t]] \notin net

(* What a request that is still under way can do. *)
RequestsAreBacked ==
    \A m \in net :
        /\ m.op \in used
        /\ m.call = "prepare" =>
              m.op \in expired \/ Holds(m.op) \/ guardian[m.op] # "not_found"
        /\ m.call \in {"register", "final"} => guardian[m.op] # "not_found"
        /\ m.call = "register" /\ Holds(m.op) => journal.deleteIntent
        /\ m.call = "final" /\ Holds(m.op) => journal.final

(* The journal and the Guardian know generated operations only, and a      *)
(* confirmed journal is of a confirmed operation.                          *)
Known ==
    /\ journal # NoJournal => journal.op \in used
    /\ journal # NoJournal /\ journal.stage = "confirmed" =>
          guardian[journal.op] = "confirmed"
    /\ \A o \in Ops : guardian[o] # "not_found" => o \in used

IInv ==
    /\ TypeOK /\ Inside /\ Progress /\ ViewHolds /\ RequestsAreBacked /\ Known
    /\ UnfinishedIsJournaled /\ EvidenceBeforeRequest /\ ReplacementBackedUp

-------------------------------------------------------------------------------
(* What a step of a tab does to the journal and to the requests *)

Evidence(j, k) ==
    /\ k.op = j.op
    /\ StageRank[k.stage] >= StageRank[j.stage]
    /\ j.deleteIntent => k.deleteIntent
    /\ j.final => k.final
    /\ j.receipt => k.receipt

Begins ==
    /\ journal = NoJournal
    /\ \E o \in Ops \ used : journal' = NewJournal(o) /\ used' = used \cup {o}

Grows ==
    /\ journal # NoJournal /\ journal' # NoJournal
    /\ Evidence(journal, journal')
    /\ journal'.stage = "confirmed" => guardian[journal.op] = "confirmed"
    /\ used' = used

Clears ==
    /\ journal # NoJournal /\ journal' = NoJournal
    /\ \/ terminal(guardian[journal.op])
       \/ /\ guardian[journal.op] = "not_found"
          /\ \/ journal.op \in expired
             \/ [call |-> "prepare", op |-> journal.op] \notin net
       \/ guardian[journal.op] = "confirmed" /\ journal.op \in covered
    /\ used' = used

Asks ==
    \/ net' = net
    \/ \E m \in [call : Calls, op : Ops] :
          /\ net' = net \cup {m}
          /\ journal' # NoJournal /\ journal'.op = m.op
          /\ m.call \in {"register", "final"} => guardian[m.op] # "not_found"
          /\ m.call = "register" => journal'.deleteIntent
          /\ m.call = "final" => journal'.final

JournalStep ==
    /\ (journal' = journal /\ used' = used) \/ Begins \/ Grows \/ Clears
    /\ Asks
    /\ UNCHANGED world

Tabbed == Inside /\ Progress /\ ViewHolds

(* A step of a tab keeps what relates the journal, the requests and the    *)
(* Guardian.                                                               *)
LEMMA JournalStepSafe ==
    ASSUME IInv, TypeOK', JournalStep
    PROVE  /\ RequestsAreBacked' /\ Known'
           /\ UnfinishedIsJournaled' /\ EvidenceBeforeRequest' /\ ReplacementBackedUp'
  <1> USE DEF IInv, TypeOK, JournalStep, world, Holds
  <1>1. /\ UnfinishedIsJournaled' /\ ReplacementBackedUp'
    BY DEF UnfinishedIsJournaled, ReplacementBackedUp, Known, Begins, Grows, Clears, Evidence,
      NewJournal, terminal
  <1>2. Known'
    BY DEF Known, Begins, Grows, Clears, Evidence, NewJournal, BitcoinPaymentJournal
  <1>3. EvidenceBeforeRequest'
    BY DEF EvidenceBeforeRequest, Known, Begins, Grows, Clears, Evidence, NewJournal
  <1>4. ASSUME NEW m \in net
        PROVE  /\ m.op \in used'
               /\ m.call = "prepare" =>
                     m.op \in expired \/ Holds(m.op)' \/ guardian[m.op] # "not_found"
               /\ m.call \in {"register", "final"} => guardian[m.op] # "not_found"
               /\ m.call = "register" /\ Holds(m.op)' => journal'.deleteIntent
               /\ m.call = "final" /\ Holds(m.op)' => journal'.final
    <2>1. m \in [call : Calls, op : Ops] /\ m.op \in used
      BY <1>4 DEF RequestsAreBacked
    <2>2. CASE journal' = journal /\ used' = used
      BY <1>4, <2>2 DEF RequestsAreBacked
    <2>3. CASE Begins
      BY <1>4, <2>1, <2>3 DEF RequestsAreBacked, Begins, NewJournal
    <2>4. CASE Grows
      BY <1>4, <2>4 DEF RequestsAreBacked, Grows, Evidence
    <2>5. CASE Clears
      <3>1. m = [call |-> m.call, op |-> m.op]
        BY <2>1
      <3> QED
        BY <1>4, <2>1, <2>5, <3>1 DEF RequestsAreBacked, Clears, terminal
    <2> QED
      BY <2>2, <2>3, <2>4, <2>5
  <1>5. RequestsAreBacked'
    <2>1. CASE net' = net
      BY <1>4, <2>1 DEF RequestsAreBacked
    <2>2. CASE net' # net
      <3>1. PICK m \in [call : Calls, op : Ops] :
                /\ net' = net \cup {m}
                /\ journal' # NoJournal /\ journal'.op = m.op
                /\ m.call \in {"register", "final"} => guardian[m.op] # "not_found"
                /\ m.call = "register" => journal'.deleteIntent
                /\ m.call = "final" => journal'.final
        BY <2>2 DEF Asks
      <3>2. m.op \in used'
        BY <1>2, <3>1 DEF Known
      <3> QED
        BY <1>4, <3>1, <3>2 DEF RequestsAreBacked
    <2> QED
      BY <2>1, <2>2
  <1> QED
    BY <1>1, <1>2, <1>3, <1>5

-------------------------------------------------------------------------------
(* What a step of a tab does to the tabs *)

(* While a tab is at work, every other tab is idle. *)
LEMMA Alone ==
    ASSUME IInv, NEW t \in Tabs, pc[t] # "idle", NEW u \in Tabs, u # t
    PROVE  pc[u] = "idle" /\ view[u] = "waiting"
  BY DEF IInv, Inside

(* A tab that enters finds every other tab idle. *)
LEMMA Empty ==
    ASSUME IInv, lock = NoTab, NEW u \in Tabs
    PROVE  pc[u] = "idle" /\ view[u] = "waiting"
  BY IdAssumption DEF IInv, Inside

(* Once the tab at work returns, all are idle. *)
LEMMA Returns ==
    ASSUME IInv, NEW t \in Tabs, pc[t] # "idle", Return(t)
    PROVE  /\ \A u \in Tabs : pc'[u] = "idle" /\ view'[u] = "waiting"
           /\ Tabbed'
  <1>1. \A u \in Tabs : pc'[u] = "idle" /\ view'[u] = "waiting"
    BY Alone DEF Return, Forget, IInv, TypeOK
  <1> QED
    BY <1>1 DEF Tabbed, Inside, Progress, ProgressOf, ViewHolds

(* The types of the locals after a return, a move or an entry. *)
LEMMA LocalsTyped ==
    ASSUME TypeOK, NEW t \in Tabs, NEW place \in Places,
           NEW j \in BitcoinPaymentJournal,
           \/ Return(t)
           \/ Goto(t, place) /\ copy' \in {copy, [copy EXCEPT ![t] = j]}
           \/ Enter(t, j, place)
    PROVE  /\ lock' \in Tabs \cup {NoTab}
           /\ pc' \in [Tabs -> Places]
           /\ cur' \in [Tabs -> Ops \cup {NoOp}]
           /\ copy' \in [Tabs -> BitcoinPaymentJournal \cup {NoJournal}]
           /\ view' \in [Tabs -> GuardianStates \cup {"waiting", "refused", "error"}]
  <1>1. j.op \in Ops
    BY DEF BitcoinPaymentJournal
  <1> QED
    BY <1>1 DEF TypeOK, Return, Forget, Goto, Enter, Places

(* A tab that goes on keeps the lock and its operation. *)
LEMMA Moves ==
    ASSUME IInv, NEW t \in Tabs, pc[t] # "idle", NEW place \in Places \ {"idle"},
           Goto(t, place),
           journal' # NoJournal /\ journal'.op = cur[t],
           \/ copy' = copy
           \/ \E j \in BitcoinPaymentJournal : j.op = cur[t] /\ copy' = [copy EXCEPT ![t] = j]
    PROVE  /\ Inside'
           /\ pc'[t] = place /\ view'[t] = "waiting" /\ cur'[t] = cur[t]
           /\ \A u \in Tabs \ {t} : pc'[u] = "idle"
  <1>1. \A u \in Tabs \ {t} : pc[u] = "idle" /\ view[u] = "waiting"
    BY Alone
  <1> QED
    BY <1>1 DEF IInv, TypeOK, Inside, Goto, Holds

(* A tab that enters takes the lock and works on the journaled operation. *)
LEMMA Enters ==
    ASSUME IInv, NEW t \in Tabs, NEW j \in BitcoinPaymentJournal,
           NEW place \in Places \ {"idle"}, Enter(t, j, place), journal' = j
    PROVE  /\ Inside'
           /\ pc'[t] = place /\ view'[t] = "waiting" /\ cur'[t] = j.op /\ copy'[t] = j
           /\ \A u \in Tabs \ {t} : pc'[u] = "idle"
  <1>1. \A u \in Tabs : pc[u] = "idle" /\ view[u] = "waiting"
    BY Empty DEF Enter
  <1>2. j # NoJournal
    BY JournalAssumption
  <1> QED
    BY <1>1, <1>2 DEF IInv, TypeOK, Inside, Enter, Holds

(* What one tab at work needs of Progress and ViewHolds is all they say. *)
LEMMA OnlyOne ==
    ASSUME NEW t \in Tabs, \A u \in Tabs \ {t} : pc'[u] = "idle",
           view'[t] = "waiting", pc'[t] # "checked"
    PROVE  ViewHolds'
  BY DEF ViewHolds, terminal, Committed

-------------------------------------------------------------------------------
(* The steps of a tab *)

TabSafe == TypeOK' /\ Tabbed' /\ JournalStep

(* The record a payment starts with. *)
LEMMA NewTyped ==
    ASSUME NEW o \in Ops
    PROVE  /\ NewJournal(o) \in BitcoinPaymentJournal
           /\ NewJournal(o).op = o /\ NewJournal(o).stage = "preparing"
           /\ NewJournal(o) # NoJournal
  <1>1. "preparing" \in DOMAIN StageRank
    BY DEF StageRank
  <1>2. NewJournal(o) \in BitcoinPaymentJournal
    BY <1>1 DEF NewJournal, BitcoinPaymentJournal
  <1>3. NewJournal(o) # NoJournal
    BY <1>2, JournalAssumption
  <1> QED
    BY <1>2, <1>3 DEF NewJournal

(* Starting a payment. *)
LEMMA SendSafe ==
    ASSUME IInv, NEW t \in Tabs, sendSpendingToBitcoin(t)
    PROVE  TabSafe
  <1>1. PICK o \in Ops \ used :
            /\ used' = used \cup {o}
            /\ journal' = NewJournal(o)
            /\ Enter(t, NewJournal(o), "prepare")
            /\ Post("prepare", o)
    BY DEF sendSpendingToBitcoin, saveBitcoinPayment
  <1> DEFINE j == NewJournal(o)
  <1>2. j \in BitcoinPaymentJournal /\ j.op = o /\ j.stage = "preparing" /\ j # NoJournal
    BY NewTyped
  <1>3. journal = NoJournal /\ UNCHANGED <<world, crashes>>
    BY DEF sendSpendingToBitcoin
  <1>4. /\ Inside'
        /\ pc'[t] = "prepare" /\ view'[t] = "waiting" /\ cur'[t] = o /\ copy'[t] = j
        /\ \A u \in Tabs \ {t} : pc'[u] = "idle"
    <2>1. "prepare" \in Places \ {"idle"}
      BY DEF Places
    <2> HIDE DEF j
    <2> QED
      BY <1>1, <1>2, <2>1, Enters DEF j
  <1>5. TypeOK'
    <2>1. "prepare" \in Places
      BY DEF Places
    <2>2. TypeOK
      BY DEF IInv
    <2>3. net' \subseteq [call : Calls, op : Ops]
      BY <1>1, <2>2 DEF Post, TypeOK, Calls
    <2> HIDE DEF j
    <2>4. /\ lock' \in Tabs \cup {NoTab}
          /\ pc' \in [Tabs -> Places]
          /\ cur' \in [Tabs -> Ops \cup {NoOp}]
          /\ copy' \in [Tabs -> BitcoinPaymentJournal \cup {NoJournal}]
          /\ view' \in [Tabs -> GuardianStates \cup {"waiting", "refused", "error"}]
      BY <1>1, <1>2, <2>1, <2>2, LocalsTyped DEF j
    <2> QED
      BY <1>1, <1>2, <1>3, <2>2, <2>3, <2>4 DEF TypeOK, world, j
  <1>6. Progress' /\ ViewHolds'
    <2>1. ViewHolds'
      BY <1>4, OnlyOne
    <2> HIDE DEF j
    <2>2. journal' = j
      BY <1>1 DEF j
    <2> QED
      BY <1>2, <1>4, <2>1, <2>2 DEF Progress, ProgressOf
  <1>7. JournalStep
    <2>1. Begins
      BY <1>1, <1>3 DEF Begins
    <2>2. [call |-> "prepare", op |-> o] \in [call : Calls, op : Ops]
      BY DEF Calls
    <2>3. Asks
      <3> HIDE DEF j
      <3> QED
        BY <1>1, <1>2, <2>2 DEF Asks, Post, j
    <2> QED
      BY <1>3, <2>1, <2>3 DEF JournalStep
  <1> QED
    BY <1>4, <1>5, <1>6, <1>7 DEF TabSafe, Tabbed

(* Entering to check or to cancel the saved payment. *)
LEMMA EnterSafe ==
    ASSUME IInv, NEW t \in Tabs, journal # NoJournal,
           NEW place \in {"check", "cancel"}, Enter(t, journal, place),
           net' = net \/ (place = "cancel" /\ Post("release", journal.op)),
           UNCHANGED <<journal, world, used, crashes>>
    PROVE  TabSafe
  <1>1. place \in Places \ {"idle"}
    BY DEF Places
  <1>2. TypeOK
    BY DEF IInv
  <1>3. journal \in BitcoinPaymentJournal /\ journal.op \in Ops
    BY <1>2 DEF TypeOK, BitcoinPaymentJournal
  <1>4. /\ Inside'
        /\ pc'[t] = place /\ view'[t] = "waiting" /\ copy'[t] = journal
        /\ \A u \in Tabs \ {t} : pc'[u] = "idle"
    BY <1>1, <1>3, Enters
  <1>5. ProgressOf(t)'
    BY <1>4 DEF ProgressOf
  <1>6. Progress' /\ ViewHolds'
    <2>1. \A u \in Tabs \ {t} : ProgressOf(u)'
      BY <1>4 DEF ProgressOf
    <2> QED
      BY <1>4, <1>5, <2>1, OnlyOne DEF Progress
  <1>7. Asks
    <2>1. [call |-> "release", op |-> journal.op] \in [call : Calls, op : Ops]
      BY <1>3 DEF Calls
    <2> QED
      BY <2>1 DEF Asks, Post
  <1>8. TypeOK'
    <2>1. net' \subseteq [call : Calls, op : Ops]
      BY <1>2, <1>7 DEF Asks, TypeOK
    <2>2. /\ lock' \in Tabs \cup {NoTab}
          /\ pc' \in [Tabs -> Places]
          /\ cur' \in [Tabs -> Ops \cup {NoOp}]
          /\ copy' \in [Tabs -> BitcoinPaymentJournal \cup {NoJournal}]
          /\ view' \in [Tabs -> GuardianStates \cup {"waiting", "refused", "error"}]
      BY <1>1, <1>2, <1>3, LocalsTyped
    <2> QED
      BY <1>2, <2>1, <2>2 DEF TypeOK, world
  <1> QED
    BY <1>4, <1>6, <1>7, <1>8 DEF TabSafe, Tabbed, JournalStep

(* Leaving the critical section. *)
LEMMA LeaveSafe ==
    ASSUME IInv, NEW t \in Tabs, pc[t] # "idle", Return(t),
           journal' \in BitcoinPaymentJournal \cup {NoJournal},
           (journal' = journal /\ used' = used) \/ Grows \/ Clears,
           UNCHANGED <<net, world>>, crashes' \in Nat
    PROVE  TabSafe
  <1>1. Tabbed'
    BY Returns
  <1>2. TypeOK
    BY DEF IInv
  <1>3. "idle" \in Places /\ used' = used
    BY DEF Places, Grows, Clears
  <1>4. TypeOK'
    <2>1. /\ lock' \in Tabs \cup {NoTab}
          /\ pc' \in [Tabs -> Places]
          /\ cur' \in [Tabs -> Ops \cup {NoOp}]
          /\ copy' \in [Tabs -> BitcoinPaymentJournal \cup {NoJournal}]
          /\ view' \in [Tabs -> GuardianStates \cup {"waiting", "refused", "error"}]
      BY <1>2, <1>3 DEF TypeOK, Return, Forget
    <2> QED
      BY <1>2, <1>3, <2>1 DEF TypeOK, world
  <1> QED
    BY <1>1, <1>4 DEF TabSafe, JournalStep, Asks

(* Going on, with the journal grown or as it was. *)
LEMMA MoveSafe ==
    ASSUME IInv, NEW t \in Tabs, pc[t] # "idle",
           NEW place \in Places \ {"idle", "checked"}, Goto(t, place),
           journal' \in BitcoinPaymentJournal, journal'.op = cur[t],
           journal' = journal \/ Grows,
           copy' = copy \/ copy' = [copy EXCEPT ![t] = journal'],
           Asks, UNCHANGED <<world, used, crashes>>,
           ProgressOf(t)'
    PROVE  TabSafe
  <1>1. journal' # NoJournal
    BY JournalAssumption
  <1>2. TypeOK
    BY DEF IInv
  <1>3. /\ Inside'
        /\ pc'[t] = place /\ view'[t] = "waiting"
        /\ \A u \in Tabs \ {t} : pc'[u] = "idle"
    BY <1>1, Moves
  <1>4. Progress' /\ ViewHolds'
    <2>1. \A u \in Tabs \ {t} : ProgressOf(u)'
      BY <1>3 DEF ProgressOf
    <2> QED
      BY <1>3, <2>1, OnlyOne DEF Progress
  <1>5. TypeOK'
    <2>1. net' \subseteq [call : Calls, op : Ops]
      BY <1>2 DEF Asks, TypeOK
    <2>2. /\ lock' \in Tabs \cup {NoTab}
          /\ pc' \in [Tabs -> Places]
          /\ cur' \in [Tabs -> Ops \cup {NoOp}]
          /\ copy' \in [Tabs -> BitcoinPaymentJournal \cup {NoJournal}]
          /\ view' \in [Tabs -> GuardianStates \cup {"waiting", "refused", "error"}]
      BY <1>2, LocalsTyped
    <2> QED
      BY <1>2, <2>1, <2>2 DEF TypeOK, world
  <1> QED
    BY <1>3, <1>4, <1>5 DEF TabSafe, Tabbed, JournalStep

(* What an answer makes of the journal: nothing, progress, or its end. *)
LEMMA RetainedWell ==
    ASSUME IInv, NEW t \in Tabs, pc[t] # "idle", retainBitcoinOutcome(view[t]), used' = used
    PROVE  /\ journal' \in BitcoinPaymentJournal \cup {NoJournal}
           /\ journal' = journal \/ Grows \/ Clears
  <1> USE DEF IInv
  <1>1. journal \in BitcoinPaymentJournal /\ journal # NoJournal /\ journal.op = cur[t]
    BY JournalAssumption DEF TypeOK, Inside, Holds
  <1>2. CASE terminal(view[t])
    <2>1. guardian[journal.op] = view[t]
      BY <1>1, <1>2 DEF ViewHolds
    <2> QED
      BY <1>1, <1>2, <2>1 DEF retainBitcoinOutcome, Retained, Clears
  <1>3. CASE ~terminal(view[t]) /\ Committed(view[t]) /\ journal.final
    <2> DEFINE s == IF view[t] = "confirmed" THEN "confirmed" ELSE journal.stage
    <2>1. journal' = [journal EXCEPT !.receipt = TRUE, !.stage = s]
      BY <1>1, <1>3 DEF retainBitcoinOutcome, Retained
    <2>2. /\ s \in DOMAIN StageRank /\ StageRank[s] >= StageRank[journal.stage]
          /\ s = "confirmed" => guardian[journal.op] = "confirmed"
      <3>1. journal.stage \in DOMAIN StageRank
        BY <1>1 DEF BitcoinPaymentJournal
      <3>2. "confirmed" \in DOMAIN StageRank
        BY DEF StageRank
      <3>3. \A r \in DOMAIN StageRank : StageRank[r] \in Nat /\ StageRank["confirmed"] >= StageRank[r]
        BY DEF StageRank
      <3>4. s = "confirmed" => guardian[journal.op] = "confirmed"
        BY <1>1 DEF ViewHolds, Known
      <3> QED
        BY <3>1, <3>2, <3>3, <3>4
    <2> HIDE DEF s
    <2>3. journal' \in BitcoinPaymentJournal
      BY <1>1, <2>1, <2>2 DEF BitcoinPaymentJournal
    <2>4. Evidence(journal, journal') /\ journal'.stage = s
      BY <1>1, <2>1, <2>2 DEF Evidence, BitcoinPaymentJournal
    <2> QED
      BY <1>1, <2>2, <2>3, <2>4, JournalAssumption DEF Grows
  <1>4. CASE ~terminal(view[t]) /\ ~(Committed(view[t]) /\ journal.final)
    BY <1>1, <1>4 DEF retainBitcoinOutcome, Retained
  <1> QED
    BY <1>2, <1>3, <1>4

(* The journal of a tab at work is there and is of its operation. *)
LEMMA AtWork ==
    ASSUME IInv, NEW t \in Tabs, pc[t] # "idle"
    PROVE  /\ journal \in BitcoinPaymentJournal /\ journal # NoJournal
           /\ copy[t] \in BitcoinPaymentJournal
           /\ cur[t] \in Ops /\ journal.op = cur[t] /\ copy[t].op = cur[t]
           /\ ProgressOf(t)
  BY JournalAssumption DEF IInv, TypeOK, Inside, Progress, Holds, BitcoinPaymentJournal

(* The stages and their ranks. *)
LEMMA StageOrder ==
    /\ DOMAIN StageRank = {"preparing", "prepared", "registering", "registered",
                           "finalizing", "submitted", "confirmed"}
    /\ StageRank["preparing"] = 0 /\ StageRank["prepared"] = 1
    /\ StageRank["registering"] = 2 /\ StageRank["registered"] = 3
    /\ StageRank["finalizing"] = 4 /\ StageRank["submitted"] = 5
    /\ StageRank["confirmed"] = 6
  BY DEF StageRank

(* Every stage has a rank. *)
LEMMA StageIsRanked ==
    ASSUME NEW r \in DOMAIN StageRank
    PROVE  StageRank[r] \in Nat
  BY DEF StageRank

(* Saving a later stage of the payment, with more evidence or the same. *)
LEMMA StageSaved ==
    ASSUME IInv, NEW t \in Tabs, pc[t] # "idle",
           NEW stage \in DOMAIN StageRank \ {"confirmed"},
           StageRank[stage] >= StageRank[journal.stage],
           journal' \in BitcoinPaymentJournal,
           journal'.op = journal.op, journal'.stage = stage,
           journal.deleteIntent => journal'.deleteIntent,
           journal.final => journal'.final, journal.receipt => journal'.receipt,
           used' = used
    PROVE  /\ Grows
           /\ journal'.op = cur[t]
  BY AtWork, JournalAssumption DEF Grows, Evidence

(* The plan is saved. *)
LEMMA PrepareAnsweredSafe ==
    ASSUME IInv, NEW t \in Tabs, PrepareAnswered(t)
    PROVE  TabSafe
  <1> DEFINE j == [copy[t] EXCEPT !.stage = "prepared"]
  <1>1. /\ pc[t] = "prepare" /\ view[t] = "prepared"
        /\ journal' = j /\ copy' = [copy EXCEPT ![t] = j]
        /\ Goto(t, "approve") /\ UNCHANGED <<net, world, used, crashes>>
    BY DEF PrepareAnswered, saveBitcoinPayment
  <1>2. /\ journal = copy[t] /\ journal.stage = "preparing"
        /\ journal \in BitcoinPaymentJournal /\ journal.op = cur[t] /\ cur[t] \in Ops
        /\ guardian[cur[t]] # "not_found"
    BY <1>1, AtWork DEF ProgressOf, IInv, ViewHolds
  <1>3. /\ j \in BitcoinPaymentJournal /\ j.op = cur[t] /\ j.stage = "prepared"
        /\ j.deleteIntent = journal.deleteIntent /\ j.final = journal.final
        /\ j.receipt = journal.receipt
    BY <1>2, StageOrder DEF BitcoinPaymentJournal
  <1> HIDE DEF j
  <1>4. Grows
    BY <1>1, <1>2, <1>3, StageSaved, StageOrder
  <1>5. ProgressOf(t)'
    <2>1. pc'[t] = "approve" /\ cur'[t] = cur[t] /\ copy'[t] = j
      BY <1>1 DEF Goto, IInv, TypeOK
    <2> QED
      BY <1>1, <1>2, <1>3, <2>1 DEF ProgressOf, world
  <1>6. "approve" \in Places \ {"idle", "checked"} /\ Asks
    BY <1>1 DEF Places, Asks
  <1> QED
    BY <1>1, <1>3, <1>4, <1>5, <1>6, MoveSafe

(* Refused, the draft is cleared: the Guardian does not know the operation *)
(* and its request is answered.                                            *)
LEMMA prepareRejectionSafe ==
    ASSUME IInv, NEW t \in Tabs, prepareRejection(t)
    PROVE  TabSafe
  <1>1. /\ pc[t] = "prepare" /\ view[t] = "refused"
        /\ UNCHANGED <<net, world, used, crashes>>
    BY DEF prepareRejection
  <1>2. CASE guardian[cur[t]] = "not_found" /\ journal' = NoJournal /\ Return(t)
    <2>1. Clears
      BY <1>1, <1>2, AtWork DEF Clears, IInv, ViewHolds
    <2> QED
      BY <1>1, <1>2, <2>1, LeaveSafe DEF IInv, TypeOK
  <1>3. CASE Goto(t, "caught") /\ UNCHANGED <<journal, copy>>
    <2>1. pc'[t] = "caught"
      BY <1>3 DEF Goto, IInv, TypeOK
    <2>2. ProgressOf(t)'
      BY <2>1 DEF ProgressOf
    <2>3. "caught" \in Places \ {"idle", "checked"} /\ Asks
      BY <1>1 DEF Places, Asks
    <2> QED
      BY <1>1, <1>3, <2>2, <2>3, AtWork, MoveSafe
  <1> QED
    BY <1>2, <1>3 DEF prepareRejection

(* The user declines. *)
LEMMA DeclineSafe ==
    ASSUME IInv, NEW t \in Tabs, Decline(t)
    PROVE  TabSafe
  <1>1. /\ pc[t] = "approve" /\ Goto(t, "decline") /\ Post("release", cur[t])
        /\ UNCHANGED <<journal, copy, world, used, crashes>>
    BY DEF Decline
  <1>2. /\ pc'[t] = "decline" /\ cur'[t] = cur[t] /\ copy'[t] = copy[t]
        /\ "decline" \in Places \ {"idle", "checked"}
    BY <1>1 DEF Goto, Places, IInv, TypeOK
  <1>3. ProgressOf(t)'
    BY <1>1, <1>2, AtWork DEF ProgressOf, world
  <1>4. Asks
    <2>1. [call |-> "release", op |-> cur[t]] \in [call : Calls, op : Ops]
      BY <1>1, AtWork DEF Calls
    <2> QED
      BY <1>1, <2>1, AtWork DEF Asks, Post
  <1> QED
    BY <1>1, <1>2, <1>3, <1>4, AtWork, MoveSafe

(* A declined draft is cleared only once released. *)
LEMMA DeclineAnsweredSafe ==
    ASSUME IInv, NEW t \in Tabs, DeclineAnswered(t)
    PROVE  TabSafe
  <1>1. /\ pc[t] = "decline" /\ Return(t) /\ UNCHANGED <<net, world, used, crashes>>
        /\ journal' = IF terminal(view[t]) THEN NoJournal ELSE journal
    BY DEF DeclineAnswered
  <1>2. journal' = journal \/ Clears
    BY <1>1, AtWork DEF Clears, IInv, ViewHolds
  <1> QED
    BY <1>1, <1>2, AtWork, LeaveSafe DEF IInv, TypeOK

(* The cancellation is stored. *)
LEMMA approveSafe ==
    ASSUME IInv, NEW t \in Tabs, approve(t)
    PROVE  TabSafe
  <1> DEFINE j == [copy[t] EXCEPT !.deleteIntent = TRUE]
  <1>1. /\ pc[t] = "approve" /\ journal' = j /\ Goto(t, "sign")
        /\ UNCHANGED <<copy, net, world, used, crashes>>
    BY DEF approve, saveBitcoinPayment
  <1>2. /\ journal = copy[t] /\ journal.stage = "prepared"
        /\ journal \in BitcoinPaymentJournal /\ journal.op = cur[t] /\ cur[t] \in Ops
        /\ guardian[cur[t]] # "not_found"
    BY <1>1, AtWork DEF ProgressOf
  <1>3. /\ j \in BitcoinPaymentJournal /\ j.op = cur[t] /\ j.stage = "prepared"
        /\ j.deleteIntent /\ j.final = journal.final /\ j.receipt = journal.receipt
    BY <1>2 DEF BitcoinPaymentJournal
  <1>4. ProgressOf(t)'
    <2>1. pc'[t] = "sign" /\ cur'[t] = cur[t] /\ copy'[t] = copy[t]
      BY <1>1 DEF Goto, IInv, TypeOK
    <2> QED
      BY <1>1, <1>2, <2>1 DEF ProgressOf, world
  <1> HIDE DEF j
  <1>5. Grows
    BY <1>1, <1>2, <1>3, StageSaved, StageOrder
  <1>6. "sign" \in Places \ {"idle", "checked"} /\ Asks
    BY <1>1 DEF Places, Asks
  <1> QED
    BY <1>1, <1>3, <1>4, <1>5, <1>6, MoveSafe

(* Registration is requested with the cancellation stored. *)
LEMMA registerIntentSafe ==
    ASSUME IInv, NEW t \in Tabs, registerIntent(t)
    PROVE  TabSafe
  <1> DEFINE j == [journal EXCEPT !.stage = "registering"]
  <1>1. /\ pc[t] = "sign" /\ journal.deleteIntent
        /\ journal' = j /\ copy' = [copy EXCEPT ![t] = j]
        /\ Goto(t, "register") /\ Post("register", cur[t])
        /\ UNCHANGED <<world, used, crashes>>
    BY DEF registerIntent, saveBitcoinPayment
  <1>2. /\ journal.stage = "prepared"
        /\ journal \in BitcoinPaymentJournal /\ journal.op = cur[t] /\ cur[t] \in Ops
        /\ guardian[cur[t]] # "not_found"
    <2>1. /\ journal = [copy[t] EXCEPT !.deleteIntent = TRUE]
          /\ copy[t].stage = "prepared" /\ copy[t] \in BitcoinPaymentJournal
      BY <1>1, AtWork DEF ProgressOf
    <2>2. journal.stage = "prepared"
      BY <2>1 DEF BitcoinPaymentJournal
    <2> QED
      BY <1>1, <2>2, AtWork DEF ProgressOf
  <1>3. /\ j \in BitcoinPaymentJournal /\ j.op = cur[t] /\ j.stage = "registering"
        /\ j.deleteIntent /\ j.final = journal.final /\ j.receipt = journal.receipt
    BY <1>1, <1>2, StageOrder DEF BitcoinPaymentJournal
  <1> HIDE DEF j
  <1>4. Grows
    BY <1>1, <1>2, <1>3, StageSaved, StageOrder
  <1>5. ProgressOf(t)'
    <2>1. pc'[t] = "register" /\ cur'[t] = cur[t] /\ copy'[t] = j
      BY <1>1 DEF Goto, IInv, TypeOK
    <2> QED
      BY <1>1, <1>2, <1>3, <2>1 DEF ProgressOf, world
  <1>6. "register" \in Places \ {"idle", "checked"}
    BY DEF Places
  <1>7. Asks
    <2>1. [call |-> "register", op |-> cur[t]] \in [call : Calls, op : Ops]
      BY <1>2 DEF Calls
    <2>2. journal' # NoJournal /\ journal'.op = cur[t]
      BY <1>1, <1>3, JournalAssumption
    <2> QED
      BY <1>1, <1>2, <1>3, <2>1, <2>2 DEF Asks, Post
  <1> QED
    BY <1>1, <1>3, <1>4, <1>5, <1>6, <1>7, MoveSafe

(* The registration is answered. *)
LEMMA RegisterAnsweredSafe ==
    ASSUME IInv, NEW t \in Tabs, RegisterAnswered(t)
    PROVE  TabSafe
  <1> DEFINE j == [copy[t] EXCEPT !.stage = "registered"]
  <1>1. pc[t] = "register" /\ UNCHANGED <<net, world, used, crashes>>
    BY DEF RegisterAnswered
  <1>2. /\ journal = copy[t] /\ journal.stage = "registering" /\ journal.deleteIntent
        /\ journal \in BitcoinPaymentJournal /\ journal.op = cur[t] /\ cur[t] \in Ops
        /\ guardian[cur[t]] # "not_found"
    BY <1>1, AtWork DEF ProgressOf
  <1>3. CASE view[t] = "registered"
    <2>1. journal' = j /\ copy' = [copy EXCEPT ![t] = j] /\ Goto(t, "batch")
      BY <1>3 DEF RegisterAnswered, saveBitcoinPayment
    <2>2. /\ j \in BitcoinPaymentJournal /\ j.op = cur[t] /\ j.stage = "registered"
          /\ j.deleteIntent /\ j.final = journal.final /\ j.receipt = journal.receipt
      BY <1>2, StageOrder DEF BitcoinPaymentJournal
    <2> HIDE DEF j
    <2>3. Grows
      BY <1>1, <1>2, <2>1, <2>2, StageSaved, StageOrder
    <2>4. ProgressOf(t)'
      <3>1. pc'[t] = "batch" /\ cur'[t] = cur[t] /\ copy'[t] = j
        BY <2>1 DEF Goto, IInv, TypeOK
      <3> QED
        BY <1>1, <1>2, <2>1, <2>2, <3>1 DEF ProgressOf, world
    <2>5. "batch" \in Places \ {"idle", "checked"} /\ Asks
      BY <1>1 DEF Places, Asks
    <2> QED
      BY <1>1, <2>1, <2>2, <2>3, <2>4, <2>5, MoveSafe
  <1>4. CASE view[t] # "registered"
    <2>1. retainBitcoinOutcome(view[t]) /\ Return(t)
      BY <1>4 DEF RegisterAnswered
    <2> QED
      BY <1>1, <2>1, RetainedWell, LeaveSafe DEF IInv, TypeOK
  <1> QED
    BY <1>3, <1>4

(* Finalization is requested with the evidence stored. *)
LEMMA submitSignedForfeitTxsSafe ==
    ASSUME IInv, NEW t \in Tabs, submitSignedForfeitTxs(t)
    PROVE  TabSafe
  <1> DEFINE j == [journal EXCEPT !.stage = "finalizing", !.final = TRUE]
  <1>1. /\ pc[t] = "batch"
        /\ journal' = j /\ copy' = [copy EXCEPT ![t] = j]
        /\ Goto(t, "final") /\ Post("final", cur[t])
        /\ UNCHANGED <<world, used, crashes>>
    BY DEF submitSignedForfeitTxs, saveBitcoinPayment
  <1>2. /\ journal.stage = "registered" /\ journal.deleteIntent
        /\ journal \in BitcoinPaymentJournal /\ journal.op = cur[t] /\ cur[t] \in Ops
        /\ guardian[cur[t]] # "not_found"
    BY <1>1, AtWork DEF ProgressOf
  <1>3. /\ j \in BitcoinPaymentJournal /\ j.op = cur[t] /\ j.stage = "finalizing"
        /\ j.deleteIntent /\ j.final /\ j.receipt = journal.receipt
    BY <1>2, StageOrder DEF BitcoinPaymentJournal
  <1> HIDE DEF j
  <1>4. Grows
    BY <1>1, <1>2, <1>3, StageSaved, StageOrder
  <1>5. ProgressOf(t)'
    <2>1. pc'[t] = "final" /\ cur'[t] = cur[t] /\ copy'[t] = j
      BY <1>1 DEF Goto, IInv, TypeOK
    <2> QED
      BY <1>1, <1>2, <1>3, <2>1 DEF ProgressOf, world
  <1>6. "final" \in Places \ {"idle", "checked"}
    BY DEF Places
  <1>7. Asks
    <2>1. [call |-> "final", op |-> cur[t]] \in [call : Calls, op : Ops]
      BY <1>2 DEF Calls
    <2>2. journal' # NoJournal /\ journal'.op = cur[t]
      BY <1>1, <1>3, JournalAssumption
    <2> QED
      BY <1>1, <1>2, <1>3, <2>1, <2>2 DEF Asks, Post
  <1> QED
    BY <1>1, <1>3, <1>4, <1>5, <1>6, <1>7, MoveSafe

(* The commitment is kept. *)
LEMMA FinalAnsweredSafe ==
    ASSUME IInv, NEW t \in Tabs, FinalAnswered(t)
    PROVE  TabSafe
  <1> DEFINE j == [copy[t] EXCEPT !.stage = "submitted", !.receipt = TRUE]
  <1>1. /\ pc[t] = "final"
        /\ journal' = j /\ copy' = [copy EXCEPT ![t] = j]
        /\ Goto(t, "joined") /\ UNCHANGED <<net, world, used, crashes>>
    BY DEF FinalAnswered, saveBitcoinPayment
  <1>2. /\ journal = copy[t] /\ journal.stage = "finalizing" /\ journal.deleteIntent
        /\ journal.final
        /\ journal \in BitcoinPaymentJournal /\ journal.op = cur[t] /\ cur[t] \in Ops
    BY <1>1, AtWork DEF ProgressOf
  <1>3. /\ j \in BitcoinPaymentJournal /\ j.op = cur[t] /\ j.stage = "submitted"
        /\ j.deleteIntent /\ j.final /\ j.receipt
    BY <1>2, StageOrder DEF BitcoinPaymentJournal
  <1> HIDE DEF j
  <1>4. Grows
    BY <1>1, <1>2, <1>3, StageSaved, StageOrder
  <1>5. ProgressOf(t)'
    <2>1. pc'[t] = "joined"
      BY <1>1 DEF Goto, IInv, TypeOK
    <2> QED
      BY <2>1 DEF ProgressOf
  <1>6. "joined" \in Places \ {"idle", "checked"} /\ Asks
    BY <1>1 DEF Places, Asks
  <1> QED
    BY <1>1, <1>3, <1>4, <1>5, <1>6, MoveSafe

(* A failure leaves the payment as it is. *)
LEMMA SendFailsSafe ==
    ASSUME IInv, NEW t \in Tabs, SendFails(t)
    PROVE  TabSafe
  <1>1. /\ pc[t] # "idle" /\ Goto(t, "caught")
        /\ UNCHANGED <<journal, copy, net, world, used, crashes>>
    BY DEF SendFails
  <1>2. pc'[t] = "caught"
    BY <1>1 DEF Goto, IInv, TypeOK
  <1>3. ProgressOf(t)'
    BY <1>2 DEF ProgressOf
  <1>4. "caught" \in Places \ {"idle", "checked"} /\ Asks
    BY <1>1 DEF Places, Asks
  <1> QED
    BY <1>1, <1>3, <1>4, AtWork, MoveSafe

(* A status answer is the Guardian's state. *)
LEMMA AnswerSafe ==
    ASSUME IInv, NEW t \in Tabs, pc[t] # "idle",
           NEW place \in {"outcome", "checked"}, pc' = [pc EXCEPT ![t] = place],
           place = "checked" => pc[t] = "check",
           NEW s \in {guardian[cur[t]], "error"}, view' = [view EXCEPT ![t] = s],
           UNCHANGED <<journal, lock, cur, copy, net, world, used, crashes>>
    PROVE  TabSafe
  <1> USE DEF IInv, world
  <1>1. \A u \in Tabs \ {t} : pc'[u] = "idle" /\ view'[u] = "waiting"
    BY Alone DEF TypeOK
  <1>2. pc'[t] = place /\ view'[t] = s
    BY DEF TypeOK
  <1>3. TypeOK'
    <2>1. guardian[cur[t]] \in GuardianStates /\ place \in Places
      BY AtWork DEF TypeOK, Places
    <2> QED
      BY <2>1 DEF TypeOK
  <1>4. Inside'
    BY <1>1, <1>2 DEF Inside, Holds
  <1>5. Progress'
    <2>1. ProgressOf(t)'
      BY <1>2, AtWork DEF ProgressOf
    <2> QED
      BY <1>1, <2>1 DEF Progress, ProgressOf
  <1>6. ViewHolds'
    BY <1>1, <1>2 DEF ViewHolds, terminal, Committed
  <1>7. JournalStep
    BY DEF JournalStep, Asks
  <1> QED
    BY <1>3, <1>4, <1>5, <1>6, <1>7 DEF TabSafe, Tabbed

(* Reading the status. *)
LEMMA LookUpSafe ==
    ASSUME IInv, NEW t \in Tabs, LookUp(t) \/ ReadStatus(t)
    PROVE  TabSafe
  <1>1. CASE LookUp(t)
    <2>1. PICK s \in {guardian[cur[t]], "error"} : view' = [view EXCEPT ![t] = s]
      BY <1>1 DEF LookUp
    <2>2. /\ pc[t] # "idle" /\ pc' = [pc EXCEPT ![t] = "outcome"]
          /\ UNCHANGED <<journal, lock, cur, copy, net, world, used, crashes>>
      BY <1>1 DEF LookUp
    <2> QED
      BY <2>1, <2>2, AnswerSafe
  <1>2. CASE ReadStatus(t)
    BY <1>2, AnswerSafe DEF ReadStatus
  <1> QED
    BY <1>1, <1>2

(* Keeping an answer and leaving. *)
LEMMA KeepSafe ==
    ASSUME IInv, NEW t \in Tabs, KeepOutcome(t) \/ CancelAnswered(t) \/ CommandFails(t)
    PROVE  TabSafe
  <1>1. pc[t] # "idle" /\ Return(t) /\ UNCHANGED <<net, world, used, crashes>>
    BY DEF KeepOutcome, CancelAnswered, CommandFails
  <1>2. retainBitcoinOutcome(view[t]) \/ journal' = journal
    BY DEF KeepOutcome, CancelAnswered, CommandFails
  <1> QED
    BY <1>1, <1>2, AtWork, RetainedWell, LeaveSafe DEF IInv, TypeOK

(* A crash leaves the payment as it is. *)
LEMMA CrashSafe ==
    ASSUME IInv, NEW t \in Tabs, Crash(t)
    PROVE  TabSafe
  BY AtWork, LeaveSafe DEF Crash, IInv, TypeOK

(* Checking and cancelling. *)
LEMMA CommandSafe ==
    ASSUME IInv, NEW t \in Tabs, checkSpendingBitcoin(t) \/ cancelSpendingBitcoin(t)
    PROVE  TabSafe
  BY EnterSafe DEF checkSpendingBitcoin, cancelSpendingBitcoin

(* A check that asks for release. *)
LEMMA CheckReleasesSafe ==
    ASSUME IInv, NEW t \in Tabs, CheckReleases(t)
    PROVE  TabSafe
  <1>1. /\ pc[t] = "checked" /\ Goto(t, "cancel") /\ Post("release", cur[t])
        /\ UNCHANGED <<journal, copy, world, used, crashes>>
    BY DEF CheckReleases
  <1>2. /\ pc'[t] = "cancel" /\ copy'[t] = copy[t]
        /\ "cancel" \in Places \ {"idle", "checked"}
    BY <1>1 DEF Goto, Places, IInv, TypeOK
  <1>3. ProgressOf(t)'
    BY <1>1, <1>2, AtWork DEF ProgressOf
  <1>4. Asks
    <2>1. [call |-> "release", op |-> cur[t]] \in [call : Calls, op : Ops]
      BY <1>1, AtWork DEF Calls
    <2> QED
      BY <1>1, <2>1, AtWork DEF Asks, Post
  <1> QED
    BY <1>1, <1>2, <1>3, <1>4, AtWork, MoveSafe

(* A draft is cleared only when the Guardian can no longer admit it. *)
LEMMA CheckKeepsSafe ==
    ASSUME IInv, NEW t \in Tabs, CheckKeeps(t)
    PROVE  TabSafe
  <1>1. /\ pc[t] = "checked" /\ Return(t) /\ UNCHANGED <<net, world, used, crashes>>
    BY DEF CheckKeeps
  <1>2. CASE NeverAdmitted(t)
    <2>1. journal' = NoJournal
      BY <1>2 DEF CheckKeeps
    <2>2. Clears
      BY <1>1, <1>2, <2>1, AtWork DEF NeverAdmitted, Clears, IInv, ViewHolds
    <2> QED
      BY <1>1, <2>1, <2>2, LeaveSafe DEF IInv, TypeOK
  <1>3. CASE ~NeverAdmitted(t)
    <2>1. retainBitcoinOutcome(view[t])
      BY <1>3 DEF CheckKeeps
    <2> QED
      BY <1>1, <2>1, RetainedWell, LeaveSafe DEF IInv, TypeOK
  <1> QED
    BY <1>2, <1>3

(* A confirmed payment is retired once covered. *)
LEMMA AcknowledgeSafe ==
    ASSUME IInv, NEW t \in Tabs, acknowledgeSpendingBitcoinRecovery(t)
    PROVE  TabSafe
  <1>1. /\ lock = NoTab /\ journal # NoJournal /\ journal.stage = "confirmed"
        /\ journal.op \in covered /\ journal' = NoJournal
        /\ UNCHANGED <<tabVars, net, world, used, crashes>>
    BY DEF acknowledgeSpendingBitcoinRecovery
  <1>2. \A u \in Tabs : pc'[u] = "idle" /\ view'[u] = "waiting"
    BY <1>1, Empty DEF tabVars
  <1>3. Tabbed'
    BY <1>2 DEF Tabbed, Inside, Progress, ProgressOf, ViewHolds
  <1>4. JournalStep
    BY <1>1 DEF JournalStep, Clears, Asks, IInv, Known
  <1>5. TypeOK'
    BY <1>1 DEF TypeOK, IInv, tabVars, world
  <1> QED
    BY <1>3, <1>4, <1>5 DEF TabSafe

(* Every step of a tab. *)
LEMMA TabStepSafe ==
    ASSUME IInv, NEW t \in Tabs, TabStep(t)
    PROVE  TabSafe
  BY SendSafe, PrepareAnsweredSafe, prepareRejectionSafe, DeclineSafe, DeclineAnsweredSafe,
     approveSafe, registerIntentSafe, RegisterAnsweredSafe, submitSignedForfeitTxsSafe,
     FinalAnsweredSafe, SendFailsSafe, LookUpSafe, KeepSafe, CrashSafe, CommandSafe,
     CheckReleasesSafe, CheckKeepsSafe, AcknowledgeSafe
  DEF TabStep, Sending, Commanding

-------------------------------------------------------------------------------
(* The steps of the Guardian, the clock and the other flows *)

Open == {"prepared", "registering", "registered", "final", "submitted"}

(* What request m can make of the Guardian's state of its operation. *)
Takes(m, s) ==
    LET g == guardian[m.op]
    IN  /\ g = "not_found" => m.call = "prepare" /\ m.op \notin expired
        /\ terminal(g) => s = g
        /\ Committed(g) => Committed(s)
        /\ g = "confirmed" <=> s = "confirmed"
        /\ s \in Open => g \in Open \cup {"not_found"}
        /\ s \in {"registering", "registered"} => m.call = "register" \/ s = g
        /\ s \in {"final", "submitted"} => (m.call = "final" /\ g = "registered") \/ s = g

(* An answer takes the place of a wait: what ViewHolds says of the tab     *)
(* that gets it follows from the Guardian's new state.                     *)
LEMMA ServeSafe ==
    ASSUME IInv, NEW m \in net, NEW s \in GuardianStates \ {"not_found"}, Serve(m, s),
           Takes(m, s)
    PROVE  IInv'
  <1> USE DEF IInv, Takes, Open
  <1>1. /\ m \in [call : Calls, op : Ops] /\ m.op \in used
        /\ guardian' = [guardian EXCEPT ![m.op] = s] /\ net' = net \ {m}
        /\ UNCHANGED <<journal, lock, pc, cur, copy, expired, covered, spent, used, crashes>>
    BY DEF Serve, TypeOK, RequestsAreBacked
  <1>2. PICK delivered \in BOOLEAN :
            view' = [t \in Tabs |->
                IF delivered /\ Awaits(t, m.call) /\ cur[t] = m.op THEN s ELSE view[t]]
    BY DEF Serve
  <1>3. \A o \in Ops : guardian'[o] = IF o = m.op THEN s ELSE guardian[o]
    BY <1>1 DEF TypeOK
  <1>4. TypeOK'
    BY <1>1, <1>2 DEF TypeOK
  <1>5. Inside'
    <2>1. \A t \in Tabs : pc[t] = "idle" => view'[t] = "waiting"
      BY <1>1, <1>2 DEF Inside, Awaits, Calls
    <2> QED
      BY <1>1, <2>1 DEF Inside, Holds
  <1>6. Progress'
    <2>1. \A t \in Tabs : pc[t] # "idle" => cur[t] \in Ops
      BY AtWork
    <2> QED
      BY <1>1, <1>3, <2>1 DEF Progress, ProgressOf
  <1>7. ViewHolds'
    <2>1. ASSUME NEW t \in Tabs, pc[t] # "idle"
          PROVE  /\ terminal(view'[t]) => guardian'[cur[t]] = view'[t]
                 /\ Committed(view'[t]) => Committed(guardian'[cur[t]])
                 /\ view'[t] = "confirmed" => guardian'[cur[t]] = "confirmed"
                 /\ view'[t] = "prepared" => guardian'[cur[t]] # "not_found"
                 /\ pc[t] = "checked" /\ view'[t] = "not_found" /\ cur[t] \in expired =>
                       guardian'[cur[t]] = "not_found"
                 /\ pc[t] = "prepare" /\ view'[t] = "refused" =>
                       [call |-> "prepare", op |-> cur[t]] \notin net'
      <3>1. cur[t] \in Ops
        BY <2>1, AtWork
      <3>2. CASE view'[t] = view[t]
        BY <1>1, <1>3, <2>1, <3>1, <3>2 DEF ViewHolds, terminal, Committed
      <3>3. CASE view'[t] = s /\ cur[t] = m.op
        BY <1>3, <3>1, <3>3 DEF GuardianStates
      <3> QED
        BY <1>2, <3>2, <3>3
    <2> QED
      BY <1>1, <2>1 DEF ViewHolds
  <1>8. RequestsAreBacked'
    BY <1>1, <1>3 DEF RequestsAreBacked, Holds, TypeOK
  <1>9. Known'
    BY <1>1, <1>3 DEF Known
  <1>10. UnfinishedIsJournaled'
    <2>1. guardian[m.op] = "not_found" => Holds(m.op)
      BY <1>1 DEF RequestsAreBacked
    <2> QED
      BY <1>1, <1>3, <2>1 DEF UnfinishedIsJournaled, Holds
  <1>11. EvidenceBeforeRequest'
    BY <1>1, <1>3 DEF EvidenceBeforeRequest, RequestsAreBacked, Holds, TypeOK, BitcoinPaymentJournal
  <1>12. ReplacementBackedUp'
    BY <1>1, <1>3 DEF ReplacementBackedUp, Holds
  <1> QED
    BY <1>4, <1>5, <1>6, <1>7, <1>8, <1>9, <1>10, <1>11, <1>12

(* Every request the Guardian serves. *)
LEMMA GuardianStepSafe ==
    ASSUME IInv, GuardianStep
    PROVE  IInv'
  <1>1. CASE GuardianPrepare
    <2>1. PICK m \in Requests("prepare") :
            guardian[m.op] = "not_found" /\ m.op \notin expired /\ Serve(m, "prepared")
      BY <1>1 DEF GuardianPrepare
    <2>2. m \in net /\ Takes(m, "prepared") /\ "prepared" \in GuardianStates \ {"not_found"}
      BY <2>1 DEF Requests, Takes, Open, terminal, Committed, GuardianStates
    <2> QED
      BY <2>1, <2>2, ServeSafe
  <1>2. CASE GuardianRegister
    <2>1. PICK m \in Requests("register"), s \in {"registering", "registered", "rejected"} :
            guardian[m.op] = "prepared" /\ m.op \notin expired /\ Serve(m, s)
      BY <1>2 DEF GuardianRegister
    <2>2. m \in net /\ Takes(m, s) /\ s \in GuardianStates \ {"not_found"}
      BY <2>1 DEF Requests, Takes, Open, terminal, Committed, GuardianStates
    <2> QED
      BY <2>1, <2>2, ServeSafe
  <1>3. CASE GuardianFinal
    <2>1. PICK m \in Requests("final"), s \in {"final", "submitted"} :
            guardian[m.op] = "registered" /\ Serve(m, s)
      BY <1>3 DEF GuardianFinal
    <2>2. m \in net /\ Takes(m, s) /\ s \in GuardianStates \ {"not_found"}
      BY <2>1 DEF Requests, Takes, Open, terminal, Committed, GuardianStates
    <2> QED
      BY <2>1, <2>2, ServeSafe
  <1>4. CASE GuardianRelease
    <2>1. PICK m \in Requests("release"), s \in GuardianStates \ {"not_found"} :
            /\ CASE guardian[m.op] \in {"prepared", "registering", "registered"} -> s = "released"
                 [] guardian[m.op] = "final" -> s \in {"final", "released"}
                 [] OTHER -> s = guardian[m.op]
            /\ Serve(m, s)
      BY <1>4 DEF GuardianRelease
    <2>2. m \in net /\ Takes(m, s)
      BY <2>1 DEF Requests, Takes, Open, terminal, Committed, GuardianStates
    <2> QED
      BY <2>1, <2>2, ServeSafe
  <1>5. CASE GuardianRefuse
    <2> USE DEF IInv
    <2>1. PICK m \in Requests("prepare") :
            /\ net' = net \ {m}
            /\ view' = [t \in Tabs |-> IF pc[t] = "prepare" /\ cur[t] = m.op
                                        THEN "refused" ELSE view[t]]
            /\ UNCHANGED <<journal, lock, pc, cur, copy, world, used, crashes>>
      BY <1>5 DEF GuardianRefuse
    <2>2. m \in net /\ m = [call |-> "prepare", op |-> m.op]
      BY <2>1 DEF Requests, TypeOK
    <2>3. TypeOK' /\ Inside'
      BY <2>1 DEF TypeOK, Inside, Holds, world
    <2>4. ViewHolds'
      BY <2>1, <2>2 DEF ViewHolds, terminal, Committed, world
    <2> QED
      BY <2>1, <2>3, <2>4 DEF Progress, ProgressOf, RequestsAreBacked, Known, Holds, world,
        UnfinishedIsJournaled, EvidenceBeforeRequest, ReplacementBackedUp
  <1> QED
    BY <1>1, <1>2, <1>3, <1>4, <1>5 DEF GuardianStep

(* A lost request. *)
LEMMA LoseRequestSafe ==
    ASSUME IInv, LoseRequest
    PROVE  IInv'
  BY DEF LoseRequest, IInv, TypeOK, Inside, Progress, ProgressOf, ViewHolds, RequestsAreBacked,
    Known, Holds, UnfinishedIsJournaled, EvidenceBeforeRequest, ReplacementBackedUp, world, tabVars

(* The Guardian's own progress. *)
LEMMA GuardianProgressSafe ==
    ASSUME IInv, GuardianProgress
    PROVE  IInv'
  <1> USE DEF IInv
  <1>1. PICK o \in Ops, s \in {"registered", "rejected", "submitted", "confirmed"} :
            /\ \/ guardian[o] = "registering" /\ s \in {"registered", "rejected"}
               \/ guardian[o] = "final" /\ s = "submitted"
               \/ guardian[o] = "submitted" /\ s = "confirmed"
            /\ guardian' = [guardian EXCEPT ![o] = s]
            /\ UNCHANGED <<journal, tabVars, net, expired, covered, spent, used, crashes>>
    BY DEF GuardianProgress
  <1>2. \A p \in Ops : guardian'[p] = IF p = o THEN s ELSE guardian[p]
    BY <1>1 DEF TypeOK
  <1>3. Holds(o)
    BY <1>1 DEF UnfinishedIsJournaled
  <1>4. TypeOK' /\ Inside'
    BY <1>1 DEF TypeOK, GuardianStates, Inside, Holds, tabVars
  <1>5. \A t \in Tabs : pc[t] # "idle" => cur[t] \in Ops
    BY AtWork
  <1>6. Progress'
    BY <1>1, <1>2, <1>5 DEF Progress, ProgressOf, tabVars
  <1>7. ViewHolds'
    BY <1>1, <1>2, <1>5 DEF ViewHolds, terminal, Committed, tabVars
  <1>8. RequestsAreBacked'
    BY <1>1, <1>2 DEF RequestsAreBacked, TypeOK, Holds
  <1>9. Known'
    BY <1>1, <1>2 DEF Known
  <1>10. UnfinishedIsJournaled' /\ ReplacementBackedUp'
    BY <1>1, <1>2, <1>3 DEF UnfinishedIsJournaled, ReplacementBackedUp, Holds
  <1>11. EvidenceBeforeRequest'
    BY <1>1, <1>2 DEF EvidenceBeforeRequest, Holds, Known
  <1> QED
    BY <1>4, <1>6, <1>7, <1>8, <1>9, <1>10, <1>11

(* A prompt page holds no status answer from before the expiry. *)
LEMMA ExpireSafe ==
    ASSUME IInv, PromptPages, Expire
    PROVE  IInv'
  <1> USE DEF IInv
  <1>1. PICK o \in used \ expired :
            /\ \A t \in Tabs : ~(pc[t] = "checked" /\ cur[t] = o)
            /\ expired' = expired \cup {o}
            /\ UNCHANGED <<journal, tabVars, net, guardian, covered, spent, used, crashes>>
    BY DEF Expire
  <1>2. TypeOK' /\ Inside' /\ Progress'
    BY <1>1 DEF TypeOK, Inside, Holds, Progress, ProgressOf, tabVars
  <1>3. ViewHolds'
    BY <1>1 DEF ViewHolds, tabVars
  <1>4. RequestsAreBacked'
    BY <1>1 DEF RequestsAreBacked, Holds
  <1> QED
    BY <1>1, <1>2, <1>3, <1>4 DEF Known, Holds,
      UnfinishedIsJournaled, EvidenceBeforeRequest, ReplacementBackedUp

(* The replacement output is spent, or captured. *)
LEMMA ChangeSafe ==
    ASSUME IInv, SpendChange \/ captureVaultRecoveryFile
    PROVE  IInv'
  <1> USE DEF IInv
  <1>1. UNCHANGED <<journal, tabVars, net, guardian, expired, used, crashes>>
    BY DEF SpendChange, captureVaultRecoveryFile
  <1>2. TypeOK' /\ ReplacementBackedUp'
    BY DEF SpendChange, captureVaultRecoveryFile, UnspentChange, TypeOK, ReplacementBackedUp,
      Holds, tabVars
  <1> QED
    BY <1>1, <1>2 DEF Inside, Progress, ProgressOf, ViewHolds, RequestsAreBacked, Known, Holds,
      UnfinishedIsJournaled, EvidenceBeforeRequest, tabVars

-------------------------------------------------------------------------------
(* The theorems *)

(* The invariant holds at first. *)
LEMMA InitSafe ==
    Init => IInv
  BY JournalAssumption DEF Init, IInv, TypeOK, Places, GuardianStates, Inside, Progress,
    ProgressOf, ViewHolds, RequestsAreBacked, Known,
    UnfinishedIsJournaled, EvidenceBeforeRequest, ReplacementBackedUp

(* Every step keeps the invariant. *)
LEMMA StepSafe ==
    ASSUME PromptPages, IInv, [Next]_vars
    PROVE  IInv'
  <1>1. ASSUME NEW t \in Tabs, TabStep(t)
        PROVE  IInv'
    BY <1>1, TabStepSafe, JournalStepSafe DEF TabSafe, Tabbed, IInv
  <1>2. CASE WorldStep
    BY <1>2, GuardianStepSafe, LoseRequestSafe, GuardianProgressSafe, ExpireSafe, ChangeSafe
    DEF WorldStep
  <1>3. CASE UNCHANGED vars
    BY <1>3 DEF vars, IInv, TypeOK, Inside, Progress, ProgressOf, ViewHolds, RequestsAreBacked,
      Known, Holds, UnfinishedIsJournaled, EvidenceBeforeRequest, ReplacementBackedUp
  <1> QED
    BY <1>1, <1>2, <1>3 DEF Next

(* The invariant holds of every behaviour of prompt pages. *)
THEOREM InvariantHolds ==
    ASSUME PromptPages
    PROVE  Spec => []IInv
  BY InitSafe, StepSafe, PTL DEF Spec

(* Types: of BitcoinSettlement's variables in every state. *)
THEOREM TypeCorrect ==
    ASSUME PromptPages
    PROVE  Spec => []TypeOK
  <1>1. IInv => TypeOK
    BY DEF IInv
  <1> QED
    BY <1>1, InvariantHolds, PTL

(* The one journal of a vault holds every operation that the Guardian may  *)
(* still carry out: there is never a second one, and none is forgotten.    *)
THEOREM NothingForgotten ==
    ASSUME PromptPages
    PROVE  Spec => []UnfinishedIsJournaled
  <1>1. IInv => UnfinishedIsJournaled
    BY DEF IInv
  <1> QED
    BY <1>1, InvariantHolds, PTL

(* The wallet has stored the cancellation and the batch evidence of every  *)
(* request the Guardian acted upon.                                        *)
THEOREM EvidenceFirst ==
    ASSUME PromptPages
    PROVE  Spec => []EvidenceBeforeRequest
  <1>1. IInv => EvidenceBeforeRequest
    BY DEF IInv
  <1> QED
    BY <1>1, InvariantHolds, PTL

(* No confirmed payment leaves the journal before a recovery file covers   *)
(* its replacement output.                                                 *)
THEOREM RetiredWithBackup ==
    ASSUME PromptPages
    PROVE  Spec => []ReplacementBackedUp
  <1>1. IInv => ReplacementBackedUp
    BY DEF IInv
  <1> QED
    BY <1>1, InvariantHolds, PTL

(* No step takes back the progress or the evidence of a journaled payment. *)
THEOREM EvidenceNeverTaken ==
    ASSUME PromptPages
    PROVE  Spec => EvidenceKept
  <1> DEFINE A == journal # NoJournal /\ journal' # NoJournal /\ journal'.op = journal.op =>
                    /\ StageRank[journal'.stage] >= StageRank[journal.stage]
                    /\ journal.deleteIntent => journal'.deleteIntent
                    /\ journal.final => journal'.final
                    /\ journal.receipt => journal'.receipt
  <1>1. ASSUME IInv, [Next]_vars
        PROVE  [A]_vars
    <2>1. CASE journal' = journal
      <3>1. journal # NoJournal => journal.stage \in DOMAIN StageRank
        BY <1>1 DEF IInv, TypeOK, BitcoinPaymentJournal
      <3> QED
        BY <2>1, <3>1, StageIsRanked
    <2>2. CASE journal' # journal
      <3>1. PICK t \in Tabs : TabStep(t)
        BY <1>1, <2>2 DEF Next, vars, WorldStep, GuardianStep, GuardianPrepare, GuardianRefuse,
          GuardianRegister, GuardianFinal, GuardianRelease, Serve, LoseRequest, GuardianProgress,
          Expire, SpendChange, captureVaultRecoveryFile
      <3>2. JournalStep
        BY <1>1, <3>1, TabStepSafe DEF TabSafe
      <3> QED
        BY <2>2, <3>2 DEF JournalStep, Begins, Grows, Clears, Evidence
    <2> QED
      BY <2>1, <2>2
  <1>2. [][A]_vars => EvidenceKept
    BY PTL DEF EvidenceKept
  <1> QED
    BY <1>1, <1>2, InvariantHolds, PTL DEF Spec
===============================================================================
