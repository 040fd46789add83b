-------------------------- MODULE LightningSendProofs --------------------------
(***************************************************************************)
(* Proofs about LightningSend, for any pages, quotes, operations, refund   *)
(* builds and crashes: its types; that the Operator sees one refund        *)
(* transaction of a quote; that money which a Lightning payment may send   *)
(* to a lockup is recorded, that one Lightning payment pays a quote, and   *)
(* that a retired payment is over, unless one was sent without its record. *)
(***************************************************************************)
EXTENDS LightningSend, FiniteSetTheorems, TLAPS

-------------------------------------------------------------------------------
(* The inductive invariant *)

(* Where a page works under the lock. *)
Refunding == {"refund", "build", "answer", "sign", "final", "report"}
Paying == {"begin", "save", "send", "wait", "label"}

(* A page that pays or refunds a quote holds the lock; a plain payment has *)
(* no quote and holds nothing.                                             *)
Locked ==
    /\ \A p \in Pages : lock = p <=> quote[p] # 0 /\ pc[p] \in Paying \cup Refunding
    /\ lock = Observer <=> watch # "idle"
    /\ \A p \in Pages : quote[p] = 0 => pc[p] \in {"idle", "review", "send", "wait", "label"}

(* The operation of a page is one, and pays the page's quote; plain is     *)
(* only what was authorized.                                               *)
Working ==
    /\ \A o \in Ops : op[o].stage = "none" <=> op[o].quote = 0
    /\ \A o \in Ops : op[o].plain => Authorized(o)
    /\ \A p \in Pages :
          /\ pc[p] \in Paying \cup {"lock"} => mine[p] # 0
          /\ mine[p] # 0 => op[mine[p]].quote # 0 /\ quote[p] \in {0, op[mine[p]].quote}
          /\ quote[p] = 0 /\ pc[p] # "idle" => mine[p] # 0
          /\ pc[p] = "idle" => quote[p] = 0 /\ mine[p] = 0

(* A record in funding names an operation that pays its quote.             *)
Funds(q, r) ==
    r # NoRecord =>
        /\ r.funding = "funding" => r.proof # 0 /\ op[r.proof].quote = q
        /\ r.funding = "quoted" => r.proof = 0
Funding == \A q \in Quotes : Funds(q, swap[q]) /\ Funds(q, file[q])

(* What a page found under the lock is still so.                           *)
FoundBy(p) ==
    /\ pc[p] = "save" =>
          /\ copy[p] # NoRecord /\ swap[quote[p]] = copy[p]
          /\ copy[p].funding = "quoted" /\ copy[p].txid = 0
    /\ quote[p] # 0 /\ pc[p] \in {"send", "wait", "label"} =>
          /\ swap[quote[p]] # NoRecord
          /\ swap[quote[p]].funding = "funding" /\ swap[quote[p]].proof = mine[p]
    /\ pc[p] \in Refunding => swap[quote[p]] # NoRecord
    /\ pc[p] = "build" => attempt[quote[p]].build = 0
    /\ pc[p] \in {"answer", "sign"} => attempt[quote[p]].build # 0
    /\ pc[p] = "label" => op[mine[p]].stage \in {"accepted", "done"}
Scanned ==
    \A q \in scan : swap[q] # NoRecord /\ swap[q].funding = "quoted" /\ watch = "retire"

(* The Operator knows the stored refund transaction only.                  *)
Replayed ==
    /\ \A m \in net : m.build = attempt[m.quote].build /\ m.build # 0
    /\ \A q \in Quotes :
          /\ attempt[q].server \/ attempt[q].finals => attempt[q].build # 0
          /\ operator[q].saw \subseteq {attempt[q].build} \ {0}
          /\ operator[q].taken \in operator[q].saw \cup {0}

(* An output exists as soon as the Operator accepted.                      *)
Outputs == \A o \in Ops : out[o] # "none" <=> op[o].stage \in {"accepted", "done"}

(* Nothing is known of a quote that was not asked for.                     *)
Asked ==
    /\ \A q \in Quotes : q > asked => swap[q] = NoRecord /\ file[q] = NoRecord /\ q \notin receipt
    /\ \A o \in Ops : op[o].quote <= asked

Base ==
    /\ TypeOK /\ Locked /\ Working /\ Funding /\ Replayed /\ Outputs /\ Asked
    /\ Scanned /\ \A p \in Pages : FoundBy(p)

(* The transaction of a record was accepted; it is the one the funding     *)
(* permitted, unless a payment was sent without the record.                *)
Labels(q, r) ==
    r # NoRecord /\ r.txid # 0 =>
        /\ r.funding = "funding" /\ op[r.txid].stage \in {"accepted", "done"}
        /\ SentAsLightning(q) => r.txid = r.proof
Labelling == \A q \in Quotes : Labels(q, swap[q]) /\ Labels(q, file[q])

(* The file has an earlier copy of the record, or a later one of a record  *)
(* that is gone: of the same funding if it has any.                        *)
Filing ==
    \A q \in Quotes :
        swap[q] # NoRecord /\ file[q] # NoRecord => file[q].proof \in {0, swap[q].proof}

(* What is authorized as a Lightning payment is in the record of its       *)
(* quote; a record that is gone was retired and is in the file.            *)
Named(o) ==
    LET q == op[o].quote IN
        /\ swap[q] # NoRecord => swap[q].proof = o
        /\ swap[q] = NoRecord => q \in receipt /\ file[q] # NoRecord /\ file[q].proof = o
Naming == \A o \in Ops : Authorized(o) /\ ~op[o].plain => Named(o)

(* A retired record is labelled, in the file and where it is stored.       *)
Retired == \A q \in receipt : swap[q] # NoRecord => swap[q].txid # 0

Kept == Labelling /\ Filing /\ Naming /\ Retired /\ RetiredIsOver
IInv == Base /\ Kept

-------------------------------------------------------------------------------
(* The steps *)

PageActs(p) ==
    \/ Review(p) \/ approve(p) \/ approveResumed(p)
    \/ withAuthenticatedVaultLightningRefund(p) \/ Continue(p) \/ GiveUp(p) \/ Crash(p)
ObserverActs == tryVaultLightningLifecycleLock \/ Observe \/ ObserverDies
FileActs ==
    \/ captureLightningRecoveryJournal \/ restoreLightningRecoveryJournal
    \/ \E q \in Quotes : acknowledgeVaultLightningRecoveryLocked(q)
WorldActs ==
    \/ \E q \in Quotes : Expire(q)
    \/ \E o \in Ops : \/ ReplaceReserved(o) \/ OperatorAccepts(o)
                      \/ SpendReceipt(o) \/ SolverClaims(o)
    \/ \E m \in net : OperatorServes(m)

(* Steps that a page takes without its lock, or to take it. *)
Choosing(p) ==
    \/ restoreMatchingVaultLightningFundingQuote(p) \/ restoreMatchingVaultLightningQuote(p)
    \/ requestVaultLightningQuote(p) \/ openPending(p)
Taking(p) ==
    \/ withVaultLightningLifecycleLock(p) \/ withAuthenticatedVaultLightningRefund(p)
Funded(p) ==
    \/ resumeVaultLightningFunding(p) \/ beginVaultLightningFunding(p) \/ saveFunding(p)
    \/ submitAuthorizedVtxoSpend(p) \/ sendVaultVtxo(p)
Refunds(p) ==
    \/ durableVaultLightningRefund(p) \/ submitTx(p) \/ ResubmitRefund(p) \/ ResumeSigning(p)
    \/ ResumeFinals(p) \/ RefundAnswered(p) \/ finalizeTx(p) \/ RefundResult(p)
Returning(p) ==
    \/ recordVaultLightningFundingTxid(p) \/ GiveUp(p) \/ Crash(p) \/ ReportRefund(p)

(* Next, by who acts. *)
LEMMA NextParts ==
    ASSUME Next
    PROVE  \/ \E p \in Pages : PageActs(p)
           \/ ObserverActs \/ FileActs \/ WorldActs
  BY DEF Next, PageActs, ObserverActs, FileActs, WorldActs

(* The steps of a page, by what they do to its place. *)
LEMMA PageParts ==
    ASSUME NEW p \in Pages, PageActs(p)
    PROVE  \/ Choosing(p) \/ approve(p) \/ approveResumed(p) \/ Taking(p) \/ Funded(p)
           \/ authorizeReservedVtxoSpend(p) \/ Refunds(p) \/ Returning(p)
  BY DEF PageActs, Review, Continue, Choosing, Taking, Funded, Refunds, Returning

-------------------------------------------------------------------------------
(* The places of the pages *)

PlaceTyped ==
    /\ lock \in Pages \cup {Observer, NoHolder}
    /\ pc \in [Pages -> Places]
    /\ quote \in [Pages -> Quotes \cup {0}] /\ mine \in [Pages -> Ops \cup {0}]
    /\ live \in [Pages -> BOOLEAN]
    /\ copy \in [Pages -> SwapRecord \cup {NoRecord}]
    /\ watch \in {"idle", "retire", "label", "poll"} /\ scan \subseteq Quotes
    /\ crashes \in 0..MaxCrashes

Elsewhere(p) == \A x \in Pages \ {p} :
    /\ pc'[x] = pc[x] /\ quote'[x] = quote[x] /\ mine'[x] = mine[x] /\ copy'[x] = copy[x]

(* A command that ends leaves the page idle and the others alone. *)
LEMMA ReturnTyped ==
    ASSUME PlaceTyped, NEW p \in Pages, Return(p), UNCHANGED observer,
           crashes' \in 0..MaxCrashes
    PROVE  PlaceTyped' /\ Elsewhere(p)
  BY DEF PlaceTyped, Return, Goto, observer, Places, Elsewhere

(* What the steps of a page do to its place. *)
LEMMA PageTyped ==
    ASSUME Base, NEW p \in Pages, PageActs(p)
    PROVE  PlaceTyped' /\ Elsewhere(p)
  <1>a. PlaceTyped /\ "review" \in Places /\ "lock" \in Places /\ "send" \in Places
    BY DEF Base, TypeOK, PlaceTyped, Places
  <1>1. CASE Choosing(p)
    <2>1. \E q \in Quotes \cup {0}, o \in Ops \cup {0} : Show(p, q, o)
      <3>1. CASE restoreMatchingVaultLightningFundingQuote(p)
        <4>1. PICK q \in Resumable : Show(p, q, swap[q].proof)
          BY <3>1 DEF restoreMatchingVaultLightningFundingQuote
        <4>2. q \in Quotes /\ swap[q] \in SwapRecord
          BY <4>1 DEF Resumable, Stored, Base, TypeOK
        <4> QED
          BY <4>1, <4>2 DEF SwapRecord
      <3>2. CASE restoreMatchingVaultLightningQuote(p)
        <4>1. \A q \in Quotes : Preview(q) \in Ops \cup {0}
          BY DEF Preview, ReservedFor, OpenOps
        <4> QED
          BY <3>2, <4>1 DEF restoreMatchingVaultLightningQuote, Stored
      <3>3. CASE requestVaultLightningQuote(p)
        <4>1. asked + 1 \in Quotes
          BY <3>3, BoundAssumption DEF requestVaultLightningQuote, Base, TypeOK, Quotes
        <4> QED
          BY <3>3, <4>1 DEF requestVaultLightningQuote
      <3>4. CASE openPending(p)
        BY <3>4 DEF openPending, OpenOps, OpenedAs, FundingOf, Stored
      <3> QED
        BY <1>1, <3>1, <3>2, <3>3, <3>4 DEF Choosing
    <2>2. UNCHANGED <<lock, observer, crashes>>
      BY <1>1 DEF Choosing, restoreMatchingVaultLightningFundingQuote,
                  restoreMatchingVaultLightningQuote, requestVaultLightningQuote, openPending
    <2> QED
      BY <1>a, <2>1, <2>2 DEF Show, Goto, PlaceTyped, observer, Elsewhere
  <1>2. CASE approve(p)
    <2>1. /\ \E place \in Places : Goto(p, place)
          /\ \E o \in Ops : mine' = [mine EXCEPT ![p] = o]
          /\ UNCHANGED <<lock, quote, live, copy, observer, crashes>>
      BY <1>a, <1>2 DEF approve, Sending
    <2> QED
      BY <1>a, <2>1 DEF Goto, PlaceTyped, observer, Elsewhere
  <1>3. CASE approveResumed(p)
    <2>1. /\ \E place \in Places : Goto(p, place)
          /\ live' = [live EXCEPT ![p] = TRUE]
          /\ UNCHANGED <<lock, quote, mine, copy, observer, crashes>>
      BY <1>a, <1>3 DEF approveResumed, Sending
    <2> QED
      BY <1>a, <2>1 DEF Goto, PlaceTyped, observer, Elsewhere
  <1>4. CASE Taking(p)
    <2>1. /\ \E place \in Places : Goto(p, place)
          /\ lock' = p /\ UNCHANGED <<mine, live, copy, observer, crashes>>
          /\ \/ UNCHANGED quote
             \/ \E q \in Quotes : quote' = [quote EXCEPT ![p] = q]
      BY <1>4 DEF Taking, withVaultLightningLifecycleLock, Locals, Places, Stored,
                  withAuthenticatedVaultLightningRefund
    <2> QED
      BY <1>a, <2>1 DEF Goto, PlaceTyped, observer, Elsewhere
  <1>5. CASE Funded(p)
    <2>1. /\ \E place \in Places : Goto(p, place)
          /\ UNCHANGED <<lock, quote, mine, live, observer, crashes>>
          /\ \/ UNCHANGED copy
             \/ \E q \in Quotes : copy' = [copy EXCEPT ![p] = swap[q]]
      BY <1>5 DEF Funded, resumeVaultLightningFunding, beginVaultLightningFunding, saveFunding,
                  submitAuthorizedVtxoSpend, sendVaultVtxo, Locals, Places, Stored
    <2>2. \A q \in Quotes : swap[q] \in SwapRecord \cup {NoRecord}
      BY DEF Base, TypeOK
    <2> QED
      BY <1>a, <2>1, <2>2 DEF Goto, PlaceTyped, observer, Elsewhere
  <1>6. CASE authorizeReservedVtxoSpend(p)
    BY <1>a, <1>6 DEF authorizeReservedVtxoSpend, page, PlaceTyped, observer, Elsewhere
  <1>7. CASE Refunds(p)
    <2>1. /\ \E place \in Places : Goto(p, place)
          /\ UNCHANGED <<lock, Locals, observer, crashes>>
      BY <1>7 DEF Refunds, durableVaultLightningRefund, submitTx, ResubmitRefund,
                  ResumeSigning, ResumeFinals, RefundAnswered, finalizeTx, RefundResult,
                  RefundUnchanged, Places
    <2> QED
      BY <1>a, <2>1 DEF Goto, PlaceTyped, observer, Locals, Elsewhere
  <1>8. CASE Returning(p)
    <2>1. Return(p) /\ UNCHANGED observer
      BY <1>8 DEF Returning, recordVaultLightningFundingTxid, GiveUp, Crash, ReportRefund
    <2>2. crashes' = crashes \/ (crashes < MaxCrashes /\ crashes' = crashes + 1)
      BY <1>8 DEF Returning, recordVaultLightningFundingTxid, GiveUp, Crash, ReportRefund
    <2>3. crashes' \in 0..MaxCrashes
      BY <1>a, <2>2, BoundAssumption DEF PlaceTyped
    <2> QED
      BY <1>a, <2>1, <2>3, ReturnTyped
  <1> QED
    BY <1>1, <1>2, <1>3, <1>4, <1>5, <1>6, <1>7, <1>8, PageParts

(* The other steps leave the pages alone. *)
LEMMA OthersTyped ==
    ASSUME Base, ObserverActs \/ FileActs \/ WorldActs
    PROVE  PlaceTyped' /\ UNCHANGED page
  <1>a. PlaceTyped /\ Abandoned \subseteq Quotes
    BY DEF Base, TypeOK, PlaceTyped, Abandoned, Stored
  <1>1. CASE ObserverActs
    <2>1. UNCHANGED page
      BY <1>1 DEF ObserverActs, Observe, tryVaultLightningLifecycleLock, ObserverDies,
                  retireAbandonedVaultLightningQuotes, reconcileVaultLightningFundingTxids,
                  refreshVaultLightningObserver
    <2>2. /\ lock' \in {lock, Observer, NoHolder} /\ scan' \in {scan, Abandoned, {}}
          /\ watch' \in {"idle", "retire", "label", "poll"}
          /\ (crashes' = crashes \/ (crashes < MaxCrashes /\ crashes' = crashes + 1))
      BY <1>1 DEF ObserverActs, Observe, tryVaultLightningLifecycleLock, ObserverDies,
                  retireAbandonedVaultLightningQuotes, reconcileVaultLightningFundingTxids,
                  refreshVaultLightningObserver
    <2>3. crashes' \in 0..MaxCrashes
      BY <1>a, <2>2, BoundAssumption DEF PlaceTyped
    <2> QED
      BY <1>a, <2>1, <2>2, <2>3 DEF PlaceTyped, page
  <1>2. CASE FileActs \/ WorldActs
    <2>1. /\ UNCHANGED <<page, lock, observer>>
          /\ (crashes' = crashes \/ (crashes < MaxCrashes /\ crashes' = crashes + 1))
      BY <1>2 DEF FileActs, WorldActs, captureLightningRecoveryJournal,
                  restoreLightningRecoveryJournal, acknowledgeVaultLightningRecoveryLocked,
                  Expire, ReplaceReserved, OperatorAccepts, SpendReceipt, SolverClaims,
                  OperatorServes, OpUnchanged
    <2>2. crashes' \in 0..MaxCrashes
      BY <1>a, <2>1, BoundAssumption DEF PlaceTyped
    <2> QED
      BY <1>a, <2>1, <2>2 DEF PlaceTyped, page, observer
  <1> QED
    BY <1>1, <1>2

-------------------------------------------------------------------------------
(* The lock *)

(* A page that stays where it is keeps its part of the lock. *)
LockedBy(p) ==
    /\ lock = p <=> quote[p] # 0 /\ pc[p] \in Paying \cup Refunding
    /\ quote[p] = 0 => pc[p] \in {"idle", "review", "send", "wait", "label"}

(* The lock after a step of a page. *)
LEMMA PageLocked ==
    ASSUME Base, NEW p \in Pages, PageActs(p),
           \/ lock' = lock
           \/ lock = NoHolder /\ lock' = p
           \/ lock = p /\ lock' = NoHolder,
           UNCHANGED watch, LockedBy(p)'
    PROVE  Locked'
  <1>a. Locked /\ p # Observer /\ p # NoHolder /\ NoHolder # Observer
    BY NullAssumption DEF Base
  <1>1. ASSUME NEW x \in Pages, x # p PROVE LockedBy(x)'
    <2>1. quote'[x] = quote[x] /\ pc'[x] = pc[x] /\ (lock' = x <=> lock = x)
      BY <1>1, PageTyped, NullAssumption DEF Elsewhere
    <2> QED
      BY <1>a, <1>1, <2>1 DEF Locked, LockedBy
  <1>2. lock' = Observer <=> watch' # "idle"
    BY <1>a DEF Locked
  <1> QED
    BY <1>1, <1>2 DEF Locked, LockedBy

(* Every step keeps the lock with the page or the observer that works.     *)
LEMMA LockedKeeps ==
    ASSUME Base, Next
    PROVE  Locked'
  <1>a. Locked /\ NoHolder # Observer /\ Observer \notin Pages /\ NoHolder \notin Pages
    BY NullAssumption DEF Base
  <1>b. /\ pc \in [Pages -> Places] /\ quote \in [Pages -> Quotes \cup {0}]
        /\ mine \in [Pages -> Ops \cup {0}] /\ 0 \notin Quotes
    BY DEF Base, TypeOK, Quotes
  <1>1. ASSUME NEW p \in Pages, PageActs(p) PROVE Locked'
    <2>a. LockedBy(p) /\ p # NoHolder /\ p # Observer /\ UNCHANGED watch
      <3>1. UNCHANGED observer
        BY <1>1 DEF PageActs, Review, Continue, GiveUp, Crash, approve, approveResumed,
              restoreMatchingVaultLightningFundingQuote, restoreMatchingVaultLightningQuote,
              requestVaultLightningQuote, openPending, withVaultLightningLifecycleLock,
              withAuthenticatedVaultLightningRefund, resumeVaultLightningFunding,
              beginVaultLightningFunding, saveFunding, authorizeReservedVtxoSpend,
              submitAuthorizedVtxoSpend, sendVaultVtxo, recordVaultLightningFundingTxid,
              durableVaultLightningRefund, submitTx, ResubmitRefund, ResumeSigning,
              ResumeFinals, RefundAnswered, finalizeTx, RefundResult, ReportRefund,
              RefundUnchanged
      <3> QED
        BY <1>a, <3>1 DEF Locked, LockedBy, observer
    <2>1. CASE Choosing(p)
      <3>1. /\ pc[p] \in {"idle", "review"} /\ lock' = lock
            /\ pc' = [pc EXCEPT ![p] = "review"]
        BY <2>1 DEF Choosing, restoreMatchingVaultLightningFundingQuote,
                    restoreMatchingVaultLightningQuote, requestVaultLightningQuote, openPending,
                    Reviewing, Show, Goto
      <3>2. pc'[p] = "review" /\ lock # p
        BY <1>b, <2>a, <3>1 DEF LockedBy, Paying, Refunding
      <3>3. LockedBy(p)'
        BY <3>1, <3>2 DEF LockedBy, Paying, Refunding
      <3> QED
        BY <1>1, <2>a, <3>1, <3>3, PageLocked
    <2>2. CASE approve(p) \/ approveResumed(p)
      <3>1. /\ pc[p] = "review" /\ lock' = lock /\ quote' = quote
            /\ \E place \in {"review", Sending(p)} : pc' = [pc EXCEPT ![p] = place]
        BY <2>2 DEF approve, approveResumed, Goto
      <3>2. lock # p
        BY <2>a, <3>1 DEF LockedBy, Paying, Refunding
      <3>3. LockedBy(p)'
        BY <1>b, <3>1, <3>2 DEF LockedBy, Sending, Paying, Refunding
      <3> QED
        BY <1>1, <2>a, <3>1, <3>3, PageLocked
    <2>3. CASE Taking(p)
      <3>1. /\ lock = NoHolder /\ lock' = p
            /\ \E place \in {"begin", "refund"} : pc' = [pc EXCEPT ![p] = place]
            /\ \/ pc[p] = "lock" /\ quote' = quote
               \/ \E q \in Quotes : quote' = [quote EXCEPT ![p] = q]
        BY <2>3 DEF Taking, withVaultLightningLifecycleLock, Locals, Goto, Stored,
                    withAuthenticatedVaultLightningRefund
      <3>2. quote'[p] # 0 /\ pc'[p] \in {"begin", "refund"}
        BY <1>b, <2>a, <3>1 DEF LockedBy
      <3>3. LockedBy(p)'
        BY <3>1, <3>2 DEF LockedBy, Paying, Refunding
      <3> QED
        BY <1>1, <2>a, <3>1, <3>3, PageLocked
    <2>4. CASE Funded(p) \/ authorizeReservedVtxoSpend(p) \/ Refunds(p)
      <3>1. /\ lock' = lock /\ quote' = quote
            /\ \/ pc' = pc
               \/ pc[p] \in {"begin", "save"} /\ pc' = [pc EXCEPT ![p] = "save"]
               \/ pc[p] \in {"begin", "save"} /\ pc' = [pc EXCEPT ![p] = "send"]
               \/ pc[p] \in {"send", "wait"} /\ pc' = [pc EXCEPT ![p] = "wait"]
               \/ pc[p] \in {"send", "wait"} /\ pc' = [pc EXCEPT ![p] = "label"]
               \/ /\ pc[p] \in Refunding
                  /\ \E place \in Refunding : pc' = [pc EXCEPT ![p] = place]
        BY <2>4 DEF Funded, resumeVaultLightningFunding, beginVaultLightningFunding,
              saveFunding, submitAuthorizedVtxoSpend, sendVaultVtxo, Locals, Goto,
              authorizeReservedVtxoSpend, page, Refunds, durableVaultLightningRefund, submitTx,
              ResubmitRefund, ResumeSigning, ResumeFinals, RefundAnswered, finalizeTx,
              RefundResult, RefundUnchanged, Refundable, Refunding
      <3>2. LockedBy(p)'
        BY <1>b, <2>a, <3>1 DEF LockedBy, Paying, Refunding
      <3> QED
        BY <1>1, <2>a, <3>1, <3>2, PageLocked
    <2>5. CASE Returning(p)
      <3>1. Return(p)
        BY <2>5 DEF Returning, recordVaultLightningFundingTxid, GiveUp, Crash, ReportRefund
      <3>2. pc'[p] = "idle" /\ quote'[p] = 0 /\ lock' = (IF lock = p THEN NoHolder ELSE lock)
        BY <1>b, <3>1 DEF Return, Goto
      <3>3. LockedBy(p)'
        BY <2>a, <3>2 DEF LockedBy
      <3> QED
        BY <1>1, <2>a, <3>2, <3>3, PageLocked
    <2> QED
      BY <1>1, <2>1, <2>2, <2>3, <2>4, <2>5, PageParts
  <1>2. CASE ObserverActs
    <2>1. UNCHANGED <<pc, quote>>
      BY <1>2, OthersTyped DEF page
    <2>2. \/ lock = NoHolder /\ lock' = Observer /\ watch' # "idle"
          \/ watch # "idle" /\ lock' = lock /\ watch' # "idle"
          \/ watch # "idle" /\ lock' = NoHolder /\ watch' = "idle"
      BY <1>2 DEF ObserverActs, Observe, tryVaultLightningLifecycleLock, ObserverDies,
                  retireAbandonedVaultLightningQuotes, reconcileVaultLightningFundingTxids,
                  refreshVaultLightningObserver
    <2>3. \A x \in Pages : lock # x /\ lock' # x
      BY <1>a, <2>2 DEF Locked
    <2> QED
      BY <1>a, <2>1, <2>2, <2>3 DEF Locked
  <1>3. CASE FileActs \/ WorldActs
    <2>1. UNCHANGED <<page, lock, observer>>
      BY <1>3 DEF FileActs, WorldActs, captureLightningRecoveryJournal,
                  restoreLightningRecoveryJournal, acknowledgeVaultLightningRecoveryLocked,
                  Expire, ReplaceReserved, OperatorAccepts, SpendReceipt, SolverClaims,
                  OperatorServes, OpUnchanged
    <2> QED
      BY <1>a, <2>1 DEF Locked, page, observer
  <1> QED
    BY <1>1, <1>2, <1>3, NextParts

-------------------------------------------------------------------------------
(* The operations *)

(* Operations keep their quote, and what the Operator accepted stays so.   *)
OpsGrow ==
    /\ op' \in [Ops -> Operation]
    /\ \A o \in Ops :
          /\ op[o].quote # 0 => op'[o].quote = op[o].quote
          /\ op'[o].stage = "none" <=> op'[o].quote = 0
          /\ op[o].stage \in {"accepted", "done"} => op'[o].stage \in {"accepted", "done"}
          /\ op'[o].quote <= asked
          /\ op[o].plain => op'[o].plain
          /\ op'[o].plain => Authorized(o)'

(* An operation moves to a later stage. *)
LEMMA StageMoves ==
    ASSUME Base, NEW o \in Ops, NEW stage \in OpStages \ {"none"}, NEW plain \in BOOLEAN,
           op[o].stage # "none",
           op[o].stage \in {"accepted", "done"} => stage \in {"accepted", "done"},
           op[o].plain => plain,
           plain => stage \in {"authorized", "submitted", "accepted", "done"},
           op' = [op EXCEPT ![o].stage = stage, ![o].plain = plain]
    PROVE  OpsGrow
  <1>1. PICK f : f = [op[o] EXCEPT !.stage = stage, !.plain = plain]
    OBVIOUS
  <1>2. op[o] \in Operation
    BY DEF Base, TypeOK
  <1>3. f \in Operation /\ f.quote = op[o].quote /\ f.stage = stage /\ f.plain = plain
    BY <1>1, <1>2 DEF Operation
  <1>4. op' = [op EXCEPT ![o] = f]
    BY <1>1
  <1>5. op' \in [Ops -> Operation] /\ \A x \in Ops : op'[x] = IF x = o THEN f ELSE op[x]
    BY <1>3, <1>4 DEF Base, TypeOK
  <1> QED
    BY <1>3, <1>5 DEF OpsGrow, Base, Working, Asked, Authorized

(* ... and when it only does that, it was authorized as it is.             *)
LEMMA StageOnly ==
    ASSUME Base, NEW o \in Ops, NEW stage \in OpStages \ {"none"}, op[o].stage # "none",
           op[o].stage \in {"accepted", "done"} => stage \in {"accepted", "done"},
           Authorized(o) => stage \in {"authorized", "submitted", "accepted", "done"},
           op' = [op EXCEPT ![o].stage = stage]
    PROVE  OpsGrow
  <1>1. op[o] \in Operation /\ op \in [Ops -> Operation]
    BY DEF Base, TypeOK
  <1>2. op[o].plain \in BOOLEAN /\ (op[o].plain => Authorized(o))
    BY <1>1 DEF Operation, Base, Working
  <1>3. PICK f : f = [op[o] EXCEPT !.stage = stage]
    OBVIOUS
  <1>4. f \in Operation /\ f.quote = op[o].quote /\ f.stage = stage /\ f.plain = op[o].plain
    BY <1>1, <1>3 DEF Operation
  <1>5. op' = [op EXCEPT ![o] = f]
    BY <1>3
  <1>6. op' \in [Ops -> Operation] /\ \A x \in Ops : op'[x] = IF x = o THEN f ELSE op[x]
    BY <1>1, <1>4, <1>5
  <1> QED
    BY <1>2, <1>4, <1>6 DEF OpsGrow, Base, Working, Asked, Authorized

(* What a step does to the operations: nothing, a reservation for the      *)
(* quote of a page, or a later stage.                                      *)
LEMMA OpsStep ==
    ASSUME Base, Next
    PROVE  /\ OpsGrow
           /\ op' # op => UNCHANGED <<swap, attempt, receipt, file, asked, scan, watch>>
  <1>a. /\ op \in [Ops -> Operation]
        /\ {"aborted", "authorized", "submitted", "accepted", "done"} \subseteq OpStages \ {"none"}
    BY DEF Base, TypeOK, OpStages
  <1>b. ASSUME UNCHANGED op PROVE OpsGrow
    BY <1>a, <1>b DEF OpsGrow, Base, Working, Asked, Authorized
  <1>1. ASSUME NEW p \in Pages, PageActs(p), op' # op
        PROVE  approve(p) \/ authorizeReservedVtxoSpend(p) \/ submitAuthorizedVtxoSpend(p)
    BY <1>1, PageParts
       DEF Choosing, Taking, Funded, Refunds, Returning, approveResumed, GiveUp, Crash,
           restoreMatchingVaultLightningFundingQuote, restoreMatchingVaultLightningQuote,
           requestVaultLightningQuote, openPending, withVaultLightningLifecycleLock,
           withAuthenticatedVaultLightningRefund, resumeVaultLightningFunding,
           beginVaultLightningFunding, saveFunding, sendVaultVtxo,
           recordVaultLightningFundingTxid, durableVaultLightningRefund, submitTx,
           ResubmitRefund, ResumeSigning, ResumeFinals, RefundAnswered, finalizeTx,
           RefundResult, ReportRefund, RefundUnchanged, world
  <1>2. ASSUME NEW p \in Pages, approve(p)
        PROVE  OpsGrow /\ UNCHANGED <<swap, attempt, receipt, file, asked, scan, watch>>
    <2>1. UNCHANGED <<swap, attempt, receipt, file, asked, scan, watch>>
      BY <1>2 DEF approve, store, observer
    <2>2. quote[p] \in Stored \cup {0} /\ pc[p] = "review"
      BY <1>2 DEF approve
    <2>3. ~UNCHANGED op =>
             \E o \in Ops : op[o].stage = "none" /\
                op' = [op EXCEPT ![o] = [Unused EXCEPT !.stage = "reserved", !.quote = Target(p)]]
      BY <1>2 DEF approve
    <2>4. Target(p) \in Quotes /\ Target(p) <= asked
      <3>1. CASE quote[p] = 0
        <4>1. mine[p] \in Ops
          BY <2>2, <3>1 DEF Base, Working, TypeOK
        <4> QED
          BY <1>a, <2>2, <3>1, <4>1 DEF Operation, Target, Base, Working, Asked
      <3>2. CASE quote[p] # 0
        BY <2>2, <3>2 DEF Target, Stored, Base, TypeOK, Asked, Quotes
      <3> QED
        BY <3>1, <3>2
    <2>5. CASE ~UNCHANGED op
      <3>1. PICK o \in Ops, q \in Quotes :
               /\ op[o].stage = "none" /\ q <= asked
               /\ op' = [op EXCEPT ![o] = [Unused EXCEPT !.stage = "reserved", !.quote = q]]
        BY <2>3, <2>4, <2>5
      <3>2. PICK f : f = [Unused EXCEPT !.stage = "reserved", !.quote = q]
        OBVIOUS
      <3>4. f \in Operation /\ f.stage = "reserved" /\ f.quote = q /\ ~f.plain
        BY <3>2 DEF Unused, Operation, OpStages
      <3>5. op' \in [Ops -> Operation] /\ \A x \in Ops : op'[x] = IF x = o THEN f ELSE op[x]
        BY <1>a, <3>1, <3>2, <3>4
      <3>3. op[o].quote = 0 /\ q # 0
        BY <3>1 DEF Base, Working, Quotes
      <3> QED
        BY <1>a, <2>1, <3>1, <3>3, <3>4, <3>5 DEF OpsGrow, Base, Working, Asked, Authorized
    <2> QED
      BY <1>b, <2>1, <2>5
  <1>3. ASSUME NEW p \in Pages, authorizeReservedVtxoSpend(p) \/ submitAuthorizedVtxoSpend(p)
        PROVE  OpsGrow /\ UNCHANGED <<swap, attempt, receipt, file, asked, scan, watch>>
    <2>1. UNCHANGED <<swap, attempt, receipt, file, asked, scan, watch>>
      BY <1>3 DEF authorizeReservedVtxoSpend, submitAuthorizedVtxoSpend, store, observer
    <2>2. pc[p] = "send" /\ mine[p] \in Ops
      BY <1>3 DEF authorizeReservedVtxoSpend, submitAuthorizedVtxoSpend, Base, Working,
                  Paying, TypeOK
    <2>3. PICK o \in Ops : o = mine[p]
      BY <2>2
    <2>4. \/ op[o].stage = "reserved" /\ \E plain \in BOOLEAN :
               op' = [op EXCEPT ![o].stage = "authorized", ![o].plain = plain]
          \/ op[o].stage = "authorized" /\ op' = [op EXCEPT ![o].stage = "submitted"]
          \/ UNCHANGED op
      <3>1. CASE authorizeReservedVtxoSpend(p)
        BY <2>3, <3>1 DEF authorizeReservedVtxoSpend
      <3>2. CASE submitAuthorizedVtxoSpend(p)
        BY <1>a, <2>3, <3>2 DEF Operation, submitAuthorizedVtxoSpend
      <3> QED
        BY <1>3, <3>1, <3>2
    <2>5. op[o].stage = "reserved" => ~op[o].plain
      BY DEF Base, Working, Authorized
    <2> QED
      BY <1>a, <1>b, <2>1, <2>4, <2>5, StageMoves, StageOnly
  <1>4. CASE ObserverActs \/ FileActs
    <2>1. UNCHANGED op
      BY <1>4 DEF ObserverActs, Observe, tryVaultLightningLifecycleLock, ObserverDies,
             retireAbandonedVaultLightningQuotes, reconcileVaultLightningFundingTxids,
             refreshVaultLightningObserver, FileActs, captureLightningRecoveryJournal,
             restoreLightningRecoveryJournal, acknowledgeVaultLightningRecoveryLocked, world
    <2> QED
      BY <1>b, <2>1
  <1>5. CASE WorldActs
    <2>1. UNCHANGED <<swap, attempt, receipt, file, asked, scan, watch>>
      BY <1>5 DEF WorldActs, Expire, ReplaceReserved, OperatorAccepts, SpendReceipt,
                  SolverClaims, OperatorServes, OpUnchanged, store, observer
    <2>2. \/ UNCHANGED op
          \/ \E o \in Ops :
               \/ op[o].stage = "reserved" /\ op' = [op EXCEPT ![o].stage = "aborted"]
               \/ op[o].stage = "submitted" /\ op' = [op EXCEPT ![o].stage = "accepted"]
               \/ op[o].stage = "accepted" /\ op' = [op EXCEPT ![o].stage = "done"]
      BY <1>5 DEF WorldActs, Expire, ReplaceReserved, OperatorAccepts, SpendReceipt,
                  SolverClaims, OperatorServes, OpUnchanged
    <2> QED
      BY <1>a, <1>b, <2>1, <2>2, StageOnly DEF Authorized
  <1> QED
    BY <1>b, <1>1, <1>2, <1>3, <1>4, <1>5, NextParts

(* A page works on an operation that pays its quote. *)
WorkingBy(p) ==
    /\ pc[p] \in Paying \cup {"lock"} => mine[p] # 0
    /\ mine[p] # 0 => op[mine[p]].quote # 0 /\ quote[p] \in {0, op[mine[p]].quote}
    /\ quote[p] = 0 /\ pc[p] # "idle" => mine[p] # 0
    /\ pc[p] = "idle" => quote[p] = 0 /\ mine[p] = 0

(* What a page chooses to show is an operation for its quote. *)
LEMMA ChoosingWorks ==
    ASSUME Base, NEW p \in Pages, Choosing(p)
    PROVE  \E q \in Quotes \cup {0}, o \in Ops \cup {0} :
              /\ Show(p, q, o)
              /\ o # 0 => op[o].quote # 0 /\ q \in {0, op[o].quote}
              /\ q = 0 => o # 0
  <1>a. /\ \A q \in Quotes : q # 0
        /\ \A o \in Ops : o # 0 /\ op[o].stage \in OpStages
        /\ \A o \in OpenOps : o \in Ops /\ op[o].quote # 0
    <2>1. (\A q \in Quotes : q # 0) /\ \A o \in Ops : o # 0 /\ op[o].stage \in OpStages
      BY DEF Operation, Quotes, Ops, Base, TypeOK
    <2>2. \A o \in OpenOps : o \in Ops /\ op[o].stage # "none"
      BY DEF OpenOps, vtxoSpendIsLivePending
    <2> QED
      BY <2>1, <2>2 DEF Base, Working
  <1>b. ASSUME NEW o \in Ops \cup {0}, NEW q \in FundingOf(o)
        PROVE  q \in Quotes /\ swap[q].proof = o /\ o # 0 /\ op[o].quote = q
    BY <1>b DEF FundingOf, Stored, Base, Funding, Funds
  <1>1. CASE restoreMatchingVaultLightningFundingQuote(p)
    <2>1. PICK q \in Resumable : Show(p, q, swap[q].proof)
      BY <1>1 DEF restoreMatchingVaultLightningFundingQuote
    <2>2. PICK o \in OpenOps : q \in FundingOf(o)
      BY <2>1 DEF Resumable
    <2> QED
      BY <1>a, <1>b, <2>1, <2>2
  <1>2. CASE restoreMatchingVaultLightningQuote(p)
    <2>1. PICK q \in Quotes : Show(p, q, Preview(q))
      BY <1>2 DEF restoreMatchingVaultLightningQuote, Stored
    <2>2. Preview(q) = 0 \/ Preview(q) \in ReservedFor(q)
      BY DEF Preview
    <2>3. Preview(q) # 0 => Preview(q) \in OpenOps /\ op[Preview(q)].quote = q
      BY <2>2 DEF ReservedFor
    <2> QED
      BY <1>a, <2>1, <2>3
  <1>3. CASE requestVaultLightningQuote(p)
    <2>1. asked + 1 \in Quotes /\ Show(p, asked + 1, 0)
      BY <1>3, BoundAssumption DEF requestVaultLightningQuote, Base, TypeOK, Quotes
    <2> QED
      BY <1>a, <2>1
  <1>4. CASE openPending(p)
    <2>0. PICK o \in OpenOps : \E q \in OpenedAs(o) : Show(p, q, o)
      BY <1>4 DEF openPending
    <2>1. PICK q \in OpenedAs(o) : Show(p, q, o)
      BY <2>0
    <2>2. q \in FundingOf(o) \/ q = 0
      BY DEF OpenedAs
    <2> QED
      BY <1>a, <1>b, <2>1, <2>2
  <1> QED
    BY <1>1, <1>2, <1>3, <1>4 DEF Choosing

(* Every step keeps the operation of each page. *)
LEMMA WorkingKeeps ==
    ASSUME Base, Next
    PROVE  Working'
  <1>a. OpsGrow /\ \A x \in Pages : WorkingBy(x)
    BY OpsStep DEF Base, Working, WorkingBy
  <1>b. /\ pc \in [Pages -> Places] /\ quote \in [Pages -> Quotes \cup {0}]
        /\ mine \in [Pages -> Ops \cup {0}] /\ 0 \notin Quotes /\ 0 \notin Ops
    BY DEF Base, TypeOK, Quotes, Ops
  <1>c. ASSUME NEW x \in Pages,
               pc'[x] = pc[x] /\ quote'[x] = quote[x] /\ mine'[x] = mine[x]
        PROVE  WorkingBy(x)'
    BY <1>a, <1>b, <1>c DEF WorkingBy, OpsGrow
  <1>1. ASSUME NEW p \in Pages, PageActs(p) PROVE WorkingBy(p)'
    <2>1. CASE Choosing(p)
      <3>1. PICK q \in Quotes \cup {0}, o \in Ops \cup {0} :
                /\ Show(p, q, o)
                /\ o # 0 => op[o].quote # 0 /\ q \in {0, op[o].quote}
                /\ q = 0 => o # 0
        BY <2>1, ChoosingWorks
      <3>2. pc'[p] = "review" /\ quote'[p] = q /\ mine'[p] = o
        BY <1>b, <3>1 DEF Show, Goto
      <3>3. o # 0 => op'[o].quote = op[o].quote
        BY <1>a, <3>1 DEF OpsGrow
      <3> QED
        BY <3>1, <3>2, <3>3 DEF WorkingBy, Paying
    <2>2. CASE approve(p)
      <3>1. PICK o \in Ops :
               /\ \/ o \in ReservedFor(Target(p)) /\ UNCHANGED op
                  \/ op[o].stage = "none" /\
                     op' = [op EXCEPT ![o] =
                              [Unused EXCEPT !.stage = "reserved", !.quote = Target(p)]]
               /\ mine' = [mine EXCEPT ![p] = o]
        BY <2>2 DEF approve
      <3>2. op'[o].quote = Target(p) /\ op'[o].stage = "reserved"
        BY <3>1 DEF Operation, Unused, ReservedFor, Base, TypeOK
      <3>3. quote'[p] = quote[p] /\ pc[p] = "review" /\ mine'[p] = o /\ o # 0
        BY <1>b, <2>2, <3>1 DEF approve
      <3>4. op'[o].quote # 0
        BY <1>a, <3>2 DEF OpsGrow
      <3>5. pc'[p] # "idle"
        BY <1>b, <2>2 DEF approve, Goto, Sending
      <3> QED
        BY <1>a, <3>2, <3>3, <3>4, <3>5 DEF WorkingBy, Target
    <2>3. CASE approveResumed(p)
      <3>1. /\ quote'[p] = quote[p] /\ mine'[p] = mine[p] /\ mine[p] # 0 /\ pc[p] = "review"
            /\ pc'[p] # "idle"
        BY <1>b, <2>3 DEF approveResumed, Goto, Sending
      <3> QED
        BY <1>a, <1>b, <3>1 DEF WorkingBy, OpsGrow
    <2>4. CASE Taking(p)
      <3>1. CASE withVaultLightningLifecycleLock(p)
        <4>1. pc[p] = "lock" /\ pc'[p] = "begin" /\ quote'[p] = quote[p] /\ mine'[p] = mine[p]
          BY <1>b, <3>1 DEF withVaultLightningLifecycleLock, Goto, Locals
        <4> QED
          BY <1>a, <1>b, <4>1 DEF WorkingBy, OpsGrow, Paying
      <3>2. CASE withAuthenticatedVaultLightningRefund(p)
        <4>1. /\ pc[p] = "idle" /\ pc'[p] = "refund" /\ mine'[p] = mine[p]
              /\ quote'[p] # 0
          BY <1>b, <3>2 DEF withAuthenticatedVaultLightningRefund, Goto, Stored
        <4> QED
          BY <1>a, <4>1 DEF WorkingBy, Paying
      <3> QED
        BY <2>4, <3>1, <3>2 DEF Taking
    <2>5. CASE Funded(p) \/ authorizeReservedVtxoSpend(p) \/ Refunds(p)
      <3>1. /\ quote' = quote /\ mine' = mine /\ pc[p] # "idle"
            /\ \/ pc' = pc
               \/ pc[p] \in Paying /\ \E place \in Paying : pc' = [pc EXCEPT ![p] = place]
               \/ \E place \in Refunding : pc' = [pc EXCEPT ![p] = place]
        BY <2>5 DEF Funded, resumeVaultLightningFunding, beginVaultLightningFunding,
              saveFunding, submitAuthorizedVtxoSpend, sendVaultVtxo, Locals, Goto,
              authorizeReservedVtxoSpend, page, Refunds, durableVaultLightningRefund, submitTx,
              ResubmitRefund, ResumeSigning, ResumeFinals, RefundAnswered, finalizeTx,
              RefundResult, RefundUnchanged, Refundable, Refunding, Paying
      <3>2. /\ quote'[p] = quote[p] /\ mine'[p] = mine[p] /\ pc'[p] # "idle"
            /\ pc'[p] \in Paying \cup {"lock"} => pc[p] \in Paying \cup {"lock"}
        BY <1>b, <3>1 DEF Refunding, Paying
      <3> QED
        BY <1>a, <1>b, <3>1, <3>2 DEF WorkingBy, OpsGrow
    <2>6. CASE Returning(p)
      <3>1. Return(p)
        BY <2>6 DEF Returning, recordVaultLightningFundingTxid, GiveUp, Crash, ReportRefund
      <3>2. pc'[p] = "idle" /\ quote'[p] = 0 /\ mine'[p] = 0
        BY <1>b, <3>1 DEF Return, Goto
      <3> QED
        BY <3>2 DEF WorkingBy, Paying
    <2> QED
      BY <1>1, <2>1, <2>2, <2>3, <2>4, <2>5, <2>6, PageParts
  <1>2. ASSUME NEW p \in Pages, PageActs(p) PROVE Working'
    BY <1>a, <1>c, <1>1, <1>2, PageTyped DEF Working, WorkingBy, OpsGrow, Elsewhere
  <1>3. CASE ObserverActs \/ FileActs \/ WorldActs
    <2>1. UNCHANGED <<pc, quote, mine>>
      BY <1>3, OthersTyped DEF page
    <2> QED
      BY <1>a, <1>c, <2>1 DEF Working, WorkingBy, OpsGrow
  <1> QED
    BY <1>2, <1>3, NextParts

(* The output of an operation: it is there once the Operator accepted, and *)
(* stays spent.                                                            *)
OutGrows ==
    /\ out' \in [Ops -> {"none", "held", "claimed", "returned"}]
    /\ \A o \in Ops :
          \/ out'[o] = out[o]
          \/ op[o].stage = "submitted" /\ out'[o] = "held"
          \/ out[o] = "held" /\ out'[o] \in {"claimed", "returned"}

(* Every step keeps the outputs with their operations. *)
LEMMA OutputsKeep ==
    ASSUME Base, Next
    PROVE  OutGrows /\ Outputs'
  <1>a. /\ Outputs /\ op \in [Ops -> Operation]
        /\ out \in [Ops -> {"none", "held", "claimed", "returned"}]
    BY DEF Base, TypeOK
  <1>1. CASE UNCHANGED <<op, out>>
    BY <1>a, <1>1 DEF OutGrows, Outputs
  <1>2. ASSUME UNCHANGED out, NEW o \in Ops, NEW f,
               op' = [op EXCEPT ![o] = f],
               f.stage \in {"accepted", "done"} <=> op[o].stage \in {"accepted", "done"}
        PROVE  OutGrows /\ Outputs'
    BY <1>a, <1>2 DEF OutGrows, Outputs
  <1>3. ASSUME NEW p \in Pages, PageActs(p) PROVE OutGrows /\ Outputs'
    <2>1. UNCHANGED out
      BY <1>3, PageParts
       DEF Choosing, Taking, Funded, Refunds, Returning, approve, approveResumed, GiveUp, Crash,
           restoreMatchingVaultLightningFundingQuote, restoreMatchingVaultLightningQuote,
           requestVaultLightningQuote, openPending, withVaultLightningLifecycleLock,
           withAuthenticatedVaultLightningRefund, resumeVaultLightningFunding,
           beginVaultLightningFunding, saveFunding, authorizeReservedVtxoSpend,
           submitAuthorizedVtxoSpend, sendVaultVtxo,
           recordVaultLightningFundingTxid, durableVaultLightningRefund, submitTx,
           ResubmitRefund, ResumeSigning, ResumeFinals, RefundAnswered, finalizeTx,
           RefundResult, ReportRefund, RefundUnchanged, world
    <2>2. CASE UNCHANGED op
      BY <1>1, <2>1, <2>2
    <2>3. CASE approve(p) /\ ~UNCHANGED op
      <3>1. PICK o \in Ops : op[o].stage = "none" /\
               op' = [op EXCEPT ![o] = [Unused EXCEPT !.stage = "reserved", !.quote = Target(p)]]
        BY <2>3 DEF approve
      <3>2. [Unused EXCEPT !.stage = "reserved", !.quote = Target(p)].stage = "reserved"
        BY DEF Unused
      <3> QED
        BY <1>2, <2>1, <3>1, <3>2
    <2>4. CASE authorizeReservedVtxoSpend(p) \/ submitAuthorizedVtxoSpend(p)
      <3>1. pc[p] = "send" /\ mine[p] \in Ops
        BY <2>4 DEF authorizeReservedVtxoSpend, submitAuthorizedVtxoSpend, Base, Working,
                    Paying, TypeOK
      <3>2. PICK o \in Ops : o = mine[p]
        BY <3>1
      <3>3. CASE authorizeReservedVtxoSpend(p)
        <4>1. /\ op[o].stage = "reserved"
              /\ op' = [op EXCEPT ![o] = [op[o] EXCEPT !.stage = "authorized",
                                                       !.plain = (quote[p] = 0)]]
          BY <3>2, <3>3 DEF authorizeReservedVtxoSpend
        <4>2. [op[o] EXCEPT !.stage = "authorized", !.plain = (quote[p] = 0)].stage = "authorized"
          BY <1>a DEF Operation
        <4> QED
          BY <1>2, <2>1, <4>1, <4>2
      <3>4. CASE submitAuthorizedVtxoSpend(p)
        <4>1. CASE op[o].stage = "authorized"
          <5>1. op' = [op EXCEPT ![o] = [op[o] EXCEPT !.stage = "submitted"]]
            BY <1>a, <3>2, <3>4, <4>1 DEF submitAuthorizedVtxoSpend
          <5>2. [op[o] EXCEPT !.stage = "submitted"].stage = "submitted"
            BY <1>a DEF Operation
          <5> QED
            BY <1>2, <2>1, <4>1, <5>1, <5>2
        <4>2. CASE op[o].stage # "authorized"
          <5>1. op' = op
            BY <1>a, <3>2, <3>4, <4>2 DEF submitAuthorizedVtxoSpend, Operation
          <5> QED
            BY <1>1, <2>1, <5>1
        <4> QED
          BY <4>1, <4>2
      <3> QED
        BY <2>4, <3>3, <3>4
    <2>5. UNCHANGED op \/ approve(p) \/ authorizeReservedVtxoSpend(p) \/ submitAuthorizedVtxoSpend(p)
      BY <1>3, PageParts
       DEF Choosing, Taking, Funded, Refunds, Returning, approveResumed, GiveUp, Crash,
           restoreMatchingVaultLightningFundingQuote, restoreMatchingVaultLightningQuote,
           requestVaultLightningQuote, openPending, withVaultLightningLifecycleLock,
           withAuthenticatedVaultLightningRefund, resumeVaultLightningFunding,
           beginVaultLightningFunding, saveFunding, sendVaultVtxo,
           recordVaultLightningFundingTxid, durableVaultLightningRefund, submitTx,
           ResubmitRefund, ResumeSigning, ResumeFinals, RefundAnswered, finalizeTx,
           RefundResult, ReportRefund, RefundUnchanged, world
    <2> QED
      BY <2>2, <2>3, <2>4, <2>5
  <1>4. CASE ObserverActs \/ FileActs
    <2>1. UNCHANGED <<op, out>>
      BY <1>4 DEF ObserverActs, Observe, tryVaultLightningLifecycleLock, ObserverDies,
             retireAbandonedVaultLightningQuotes, reconcileVaultLightningFundingTxids,
             refreshVaultLightningObserver, FileActs, captureLightningRecoveryJournal,
             restoreLightningRecoveryJournal, acknowledgeVaultLightningRecoveryLocked, world
    <2> QED
      BY <1>1, <2>1
  <1>5. CASE WorldActs
    <2>1. CASE \E q \in Quotes : Expire(q)
      BY <1>1, <2>1 DEF Expire
    <2>2. ASSUME NEW o \in Ops,
                 NEW from \in {"reserved", "submitted", "accepted"},
                 NEW stage \in {"aborted", "accepted", "done"},
                 op[o].stage = from, op' = [op EXCEPT ![o].stage = stage],
                 \/ from = "reserved" /\ stage = "aborted" /\ UNCHANGED out
                 \/ from = "submitted" /\ stage = "accepted" /\ out' = [out EXCEPT ![o] = "held"]
                 \/ from = "accepted" /\ stage = "done" /\ UNCHANGED out
          PROVE  OutGrows /\ Outputs'
      <3>1. \A x \in Ops : op'[x].stage = IF x = o THEN stage ELSE op[x].stage
        BY <1>a, <2>2
      <3> QED
        BY <1>a, <2>2, <3>1 DEF OutGrows, Outputs
    <2>3. ASSUME NEW o \in Ops,
                 ReplaceReserved(o) \/ OperatorAccepts(o) \/ SpendReceipt(o)
          PROVE  OutGrows /\ Outputs'
      BY <2>2, <2>3 DEF ReplaceReserved, OperatorAccepts, SpendReceipt
    <2>4. CASE \E o \in Ops : SolverClaims(o)
      BY <1>a, <2>4 DEF SolverClaims, OpUnchanged, OutGrows, Outputs
    <2>5. CASE \E m \in net : OperatorServes(m)
      BY <1>a, <2>5 DEF OperatorServes, OutGrows, Outputs
    <2> QED
      BY <1>5, <2>1, <2>3, <2>4, <2>5 DEF WorldActs
  <1> QED
    BY <1>3, <1>4, <1>5, NextParts

-------------------------------------------------------------------------------
(* The records *)

(* What a step does to the record of a quote. *)
Stays(q) ==
    \/ swap'[q] = swap[q]
    \/ /\ swap[q] # NoRecord /\ swap'[q] \in SwapRecord
       /\ swap'[q].funding = swap[q].funding /\ swap'[q].proof = swap[q].proof
       /\ swap'[q].txid = swap[q].txid
Begins(q) ==
    /\ q = asked + 1 /\ asked' = q /\ swap'[q] \in SwapRecord
    /\ swap'[q].funding = "quoted" /\ swap'[q].proof = 0 /\ swap'[q].txid = 0
IsFunded(q) ==
    /\ swap[q] # NoRecord /\ swap[q].funding = "quoted" /\ swap'[q] \in SwapRecord
    /\ swap'[q].funding = "funding" /\ swap'[q].txid = 0
    /\ swap'[q].proof \in Ops /\ op[swap'[q].proof].quote = q
IsLabelled(q) ==
    /\ swap[q] # NoRecord /\ swap[q].funding = "funding" /\ swap'[q] \in SwapRecord
    /\ swap'[q].funding = "funding" /\ swap'[q].proof = swap[q].proof
    /\ swap'[q].txid \in Ops /\ op[swap'[q].txid].quote = q
    /\ out[swap'[q].txid] # "none"
IsAbandoned(q) ==
    swap[q] # NoRecord /\ swap[q].funding = "quoted" /\ swap'[q] = NoRecord
IsRestored(q) == swap[q] = NoRecord /\ swap'[q] = file[q] /\ file[q] # NoRecord
IsRetired(q) ==
    acknowledgeVaultLightningRecoveryLocked(q) /\ swap'[q] = NoRecord

RecordMove(q) ==
    \/ Stays(q) \/ Begins(q) \/ IsFunded(q) \/ IsLabelled(q) \/ IsAbandoned(q)
    \/ IsRestored(q) \/ IsRetired(q)

(* The poll changes the state of a record only. *)
LEMMA PolledStays ==
    ASSUME Base, NEW q \in Quotes
    PROVE  \/ Polled(q) = swap[q]
           \/ /\ swap[q] # NoRecord /\ Polled(q) \in SwapRecord
              /\ Polled(q).funding = swap[q].funding /\ Polled(q).proof = swap[q].proof
              /\ Polled(q).txid = swap[q].txid
  <1>1. operator[q].taken \in Builds \cup {0}
    BY DEF Base, TypeOK
  <1>2. CASE swap[q] \in SwapRecord
    <2>1. PICK r \in SwapRecord : r = swap[q]
      BY <1>2
    <2>2. PICK b \in Builds \cup {0} : b = operator[q].taken
      BY <1>1
    <2>3. Polled(q) \in {r, [r EXCEPT !.state = "settled"],
                         [r EXCEPT !.state = "refunded", !.refund = b]}
      BY <2>1, <2>2 DEF Polled
    <2>4. /\ [r EXCEPT !.state = "settled"] \in SwapRecord
          /\ [r EXCEPT !.state = "settled"].funding = r.funding
          /\ [r EXCEPT !.state = "settled"].proof = r.proof
          /\ [r EXCEPT !.state = "settled"].txid = r.txid
      BY DEF SwapRecord
    <2>5. /\ [r EXCEPT !.state = "refunded", !.refund = b] \in SwapRecord
          /\ [r EXCEPT !.state = "refunded", !.refund = b].funding = r.funding
          /\ [r EXCEPT !.state = "refunded", !.refund = b].proof = r.proof
          /\ [r EXCEPT !.state = "refunded", !.refund = b].txid = r.txid
      BY DEF SwapRecord
    <2> QED
      BY <2>1, <2>3, <2>4, <2>5, NullAssumption
  <1>3. CASE swap[q] \notin SwapRecord
    <2>1. q \notin Stored
      BY <1>3 DEF Stored, Base, TypeOK
    <2> QED
      BY <2>1 DEF Polled
  <1> QED
    BY <1>2, <1>3

(* The observer's label names an output at the lockup. *)
LEMMA LabelledMoves ==
    ASSUME Base, NEW q \in Quotes, swap'[q] = Labelled(q)
    PROVE  Stays(q) \/ IsLabelled(q)
  <1>1. CASE Labelled(q) = swap[q]
    BY <1>1 DEF Stays
  <1>2. CASE Labelled(q) # swap[q]
    <2>1. /\ q \in Stored /\ swap[q].funding = "funding" /\ Cardinality(Fundings(q)) = 1
          /\ Labelled(q) = [swap[q] EXCEPT !.txid = CHOOSE o \in Fundings(q) : TRUE]
      BY <1>2 DEF Labelled
    <2>2. Fundings(q) # {}
      BY <2>1, FS_EmptySet
    <2>3. PICK o : o = CHOOSE x \in Fundings(q) : TRUE
      OBVIOUS
    <2>4. o \in Fundings(q)
      BY <2>2, <2>3
    <2>5. o \in Ops /\ op[o].quote = q /\ out[o] # "none"
      BY <2>4 DEF Fundings, Payments
    <2>6. swap[q] \in SwapRecord /\ swap[q] # NoRecord
      BY <2>1 DEF Stored, Base, TypeOK
    <2>7. PICK r \in SwapRecord : r = swap[q]
      BY <2>6
    <2>8. swap'[q] = [r EXCEPT !.txid = o]
      BY <2>1, <2>3, <2>7
    <2>9. /\ [r EXCEPT !.txid = o] \in SwapRecord /\ [r EXCEPT !.txid = o].funding = r.funding
          /\ [r EXCEPT !.txid = o].proof = r.proof /\ [r EXCEPT !.txid = o].txid = o
      BY <2>5 DEF SwapRecord
    <2> QED
      BY <2>1, <2>5, <2>6, <2>7, <2>8, <2>9 DEF IsLabelled
  <1> QED
    BY <1>1, <1>2

(* What a step does to the records: each moves as above, and the           *)
(* operations, their outputs and the file are left alone.                  *)
RecordsMove ==
    /\ UNCHANGED <<op, out, file, attempt, operator, net>>
    /\ swap' \in [Quotes -> SwapRecord \cup {NoRecord}]
    /\ \A q \in Quotes : RecordMove(q)

(* Every step moves the records so, or leaves them alone. *)
LEMMA SwapStep ==
    ASSUME Base, Next
    PROVE  UNCHANGED swap \/ RecordsMove
  <1>a. /\ swap \in [Quotes -> SwapRecord \cup {NoRecord}] /\ 0 \notin Quotes
        /\ file \in [Quotes -> SwapRecord \cup {NoRecord}] /\ NoRecord \notin SwapRecord
        /\ mine \in [Pages -> Ops \cup {0}] /\ quote \in [Pages -> Quotes \cup {0}]
        /\ \A x \in Pages : WorkingBy(x) /\ FoundBy(x) /\ LockedBy(x)
        /\ Outputs
    BY NullAssumption DEF Base, TypeOK, Working, WorkingBy, Locked, LockedBy, Quotes
  <1>1. ASSUME NEW p \in Pages, requestVaultLightningQuote(p) PROVE RecordsMove
    <2>1. /\ asked' = asked + 1 /\ UNCHANGED <<op, out, file, attempt, operator, net>>
          /\ swap' = [swap EXCEPT ![asked + 1] = [state |-> "pending", funding |-> "quoted",
                                                  proof |-> 0, txid |-> 0, refund |-> 0]]
      BY <1>1 DEF requestVaultLightningQuote, persistVaultLightningQuote, world
    <2>2. PICK r \in SwapRecord : r = [state |-> "pending", funding |-> "quoted",
                                       proof |-> 0, txid |-> 0, refund |-> 0]
      BY DEF SwapRecord
    <2>3. r.funding = "quoted" /\ r.proof = 0 /\ r.txid = 0
      BY <2>2
    <2>4. swap' = [swap EXCEPT ![asked + 1] = r]
      BY <2>1, <2>2
    <2> QED
      BY <1>a, <2>1, <2>3, <2>4 DEF RecordsMove, RecordMove, Stays, Begins
  <1>2. ASSUME NEW p \in Pages, saveFunding(p) PROVE RecordsMove
    <2>1. /\ pc[p] = "save" /\ UNCHANGED <<op, out, file, attempt, operator, net>>
          /\ swap' = [swap EXCEPT ![quote[p]] =
                        [copy[p] EXCEPT !.funding = "funding", !.proof = mine[p]]]
      BY <1>2 DEF saveFunding, world
    <2>2. /\ quote[p] \in Quotes /\ mine[p] \in Ops
          /\ op[mine[p]].quote = quote[p]
      BY <1>a, <2>1 DEF LockedBy, WorkingBy, Paying
    <2>3. /\ swap[quote[p]] \in SwapRecord /\ swap[quote[p]] # NoRecord
          /\ copy[p] = swap[quote[p]] /\ swap[quote[p]].funding = "quoted"
          /\ swap[quote[p]].txid = 0
      BY <1>a, <2>1, <2>2 DEF FoundBy
    <2>4. PICK q \in Quotes, r \in SwapRecord, o \in Ops :
             q = quote[p] /\ r = swap[q] /\ o = mine[p]
      BY <2>2, <2>3
    <2>5. PICK s : s = [r EXCEPT !.funding = "funding", !.proof = o]
      OBVIOUS
    <2>6. s \in SwapRecord /\ s.funding = "funding" /\ s.proof = o /\ s.txid = r.txid
      BY <2>5 DEF SwapRecord
    <2>7. swap' = [swap EXCEPT ![q] = s]
      BY <2>1, <2>3, <2>4, <2>5
    <2> QED
      BY <1>a, <2>1, <2>2, <2>3, <2>4, <2>6, <2>7 DEF RecordsMove, RecordMove, Stays, IsFunded
  <1>3. ASSUME NEW p \in Pages, recordVaultLightningFundingTxid(p)
        PROVE  UNCHANGED swap \/ RecordsMove
    <2>1. /\ pc[p] = "label" /\ UNCHANGED <<op, out, file, attempt, operator, net>>
          /\ \/ UNCHANGED swap
             \/ quote[p] \in Stored /\ swap' = [swap EXCEPT ![quote[p]].txid = mine[p]]
      BY <1>3 DEF recordVaultLightningFundingTxid, world
    <2>2. CASE quote[p] \in Stored /\ swap' = [swap EXCEPT ![quote[p]].txid = mine[p]]
      <3>1. /\ quote[p] \in Quotes /\ quote[p] # 0 /\ mine[p] \in Ops
            /\ op[mine[p]].quote = quote[p] /\ op[mine[p]].stage \in {"accepted", "done"}
        BY <1>a, <2>1, <2>2 DEF Stored, WorkingBy, FoundBy, Paying
      <3>2. /\ swap[quote[p]] \in SwapRecord /\ swap[quote[p]].funding = "funding"
            /\ swap[quote[p]] # NoRecord /\ out[mine[p]] # "none"
        BY <1>a, <2>1, <3>1 DEF FoundBy, Outputs
      <3>3. PICK q \in Quotes, r \in SwapRecord, o \in Ops :
               q = quote[p] /\ r = swap[q] /\ o = mine[p]
        BY <3>1, <3>2
      <3>4. PICK s : s = [r EXCEPT !.txid = o]
        OBVIOUS
      <3>5. s \in SwapRecord /\ s.funding = r.funding /\ s.proof = r.proof /\ s.txid = o
        BY <3>4 DEF SwapRecord
      <3>6. swap' = [swap EXCEPT ![q] = s]
        BY <2>2, <3>3, <3>4
      <3> QED
        BY <1>a, <2>1, <3>1, <3>2, <3>3, <3>5, <3>6
           DEF RecordsMove, RecordMove, Stays, IsLabelled
    <2> QED
      BY <2>1, <2>2
  <1>4. ASSUME NEW p \in Pages, ReportRefund(p) PROVE RecordsMove
    <2>1. /\ pc[p] = "report" /\ UNCHANGED <<op, out, file, attempt, operator, net>>
          /\ swap' = [swap EXCEPT ![quote[p]] =
               [swap[quote[p]] EXCEPT !.state = "refunded", !.refund = attempt[quote[p]].build]]
      BY <1>4 DEF ReportRefund, world
    <2>2. quote[p] \in Quotes
      BY <1>a, <2>1 DEF LockedBy
    <2>3. swap[quote[p]] \in SwapRecord /\ attempt[quote[p]].build \in Builds \cup {0}
      BY <1>a, <2>1, <2>2 DEF FoundBy, Refunding, Base, TypeOK, RefundAttempt
    <2>4. PICK q \in Quotes, r \in SwapRecord, b \in Builds \cup {0} :
             q = quote[p] /\ r = swap[q] /\ b = attempt[q].build
      BY <2>2, <2>3
    <2>5. PICK s : s = [r EXCEPT !.state = "refunded", !.refund = b]
      OBVIOUS
    <2>6. s \in SwapRecord /\ s.funding = r.funding /\ s.proof = r.proof /\ s.txid = r.txid
      BY <2>5 DEF SwapRecord
    <2>7. swap' = [swap EXCEPT ![q] = s]
      BY <2>1, <2>4, <2>5
    <2> QED
      BY <1>a, <2>1, <2>4, <2>6, <2>7 DEF RecordsMove, RecordMove, Stays
  <1>5. ASSUME swap' = [q \in Quotes |-> Polled(q)],
               UNCHANGED <<op, out, file, attempt, operator, net>>
        PROVE  RecordsMove
    <2>1. \A q \in Quotes : Stays(q) /\ swap'[q] \in SwapRecord \cup {NoRecord}
      BY <1>a, <1>5, PolledStays DEF Stays
    <2> QED
      BY <1>5, <2>1 DEF RecordsMove, RecordMove
  <1>6. ASSUME NEW p \in Pages, withAuthenticatedVaultLightningRefund(p) PROVE RecordsMove
    BY <1>5, <1>6 DEF withAuthenticatedVaultLightningRefund, world
  <1>7. ASSUME NEW p \in Pages, PageActs(p) PROVE UNCHANGED swap \/ RecordsMove
    <2>1. \/ UNCHANGED swap
          \/ requestVaultLightningQuote(p) \/ saveFunding(p)
          \/ recordVaultLightningFundingTxid(p) \/ ReportRefund(p)
          \/ withAuthenticatedVaultLightningRefund(p)
      BY <1>7, PageParts
       DEF Choosing, Taking, Funded, Refunds, Returning, approve, approveResumed, GiveUp, Crash,
           restoreMatchingVaultLightningFundingQuote, restoreMatchingVaultLightningQuote,
           openPending, withVaultLightningLifecycleLock,
           resumeVaultLightningFunding, beginVaultLightningFunding, authorizeReservedVtxoSpend,
           submitAuthorizedVtxoSpend, sendVaultVtxo,
           durableVaultLightningRefund, submitTx,
           ResubmitRefund, ResumeSigning, ResumeFinals, RefundAnswered, finalizeTx,
           RefundResult, RefundUnchanged, store
    <2> QED
      BY <1>1, <1>2, <1>3, <1>4, <1>6, <2>1
  <1>8. CASE ObserverActs
    <2>1. CASE tryVaultLightningLifecycleLock \/ ObserverDies
      BY <2>1 DEF tryVaultLightningLifecycleLock, ObserverDies, store
    <2>2. CASE retireAbandonedVaultLightningQuotes
      <3>1. /\ \A q \in Quotes : swap'[q] = swap[q] \/ (q \in scan /\ swap'[q] = NoRecord)
            /\ UNCHANGED <<op, out, file, attempt, operator, net>>
            /\ swap' \in [Quotes -> SwapRecord \cup {NoRecord}]
        BY <1>a, <2>2 DEF retireAbandonedVaultLightningQuotes, world
      <3>2. \A q \in scan : swap[q] # NoRecord /\ swap[q].funding = "quoted"
        BY DEF Base, Scanned
      <3> QED
        BY <3>1, <3>2 DEF RecordsMove, RecordMove, Stays, IsAbandoned
    <2>3. CASE reconcileVaultLightningFundingTxids
      <3>1. /\ swap' = [q \in Quotes |-> Labelled(q)]
            /\ UNCHANGED <<op, out, file, attempt, operator, net>>
        BY <2>3 DEF reconcileVaultLightningFundingTxids, world
      <3>2. \A q \in Quotes : Stays(q) \/ IsLabelled(q)
        BY <3>1, LabelledMoves
      <3>3. \A q \in Quotes : swap'[q] \in SwapRecord \cup {NoRecord}
        BY <1>a, <3>2 DEF Stays, IsLabelled
      <3> QED
        BY <3>1, <3>2, <3>3 DEF RecordsMove, RecordMove
    <2>4. CASE refreshVaultLightningObserver
      BY <1>5, <2>4 DEF refreshVaultLightningObserver, world
    <2> QED
      BY <1>8, <2>1, <2>2, <2>3, <2>4 DEF ObserverActs, Observe
  <1>9. CASE FileActs
    <2>1. CASE captureLightningRecoveryJournal
      BY <2>1 DEF captureLightningRecoveryJournal
    <2>2. CASE restoreLightningRecoveryJournal
      <3>1. /\ swap' = [q \in Quotes |-> IF q \in Stored THEN swap[q] ELSE file[q]]
            /\ UNCHANGED <<op, out, file, attempt, operator, net>>
        BY <2>2 DEF restoreLightningRecoveryJournal, world
      <3>2. \A q \in Quotes : swap'[q] = swap[q] \/ IsRestored(q)
        BY <3>1 DEF Stored, IsRestored
      <3> QED
        BY <1>a, <3>1, <3>2 DEF RecordsMove, RecordMove, Stays
    <2>3. ASSUME NEW q \in Quotes, acknowledgeVaultLightningRecoveryLocked(q)
          PROVE  UNCHANGED swap \/ RecordsMove
      <3>1. /\ UNCHANGED <<op, out, file, attempt, operator, net>>
            /\ UNCHANGED swap \/ swap' = [swap EXCEPT ![q] = NoRecord]
        BY <2>3 DEF acknowledgeVaultLightningRecoveryLocked, world
      <3>2. CASE swap' = [swap EXCEPT ![q] = NoRecord]
        BY <1>a, <2>3, <3>1, <3>2 DEF RecordsMove, RecordMove, Stays, IsRetired
      <3> QED
        BY <3>1, <3>2
    <2> QED
      BY <1>9, <2>1, <2>2, <2>3 DEF FileActs
  <1>10. CASE WorldActs
    BY <1>10 DEF WorldActs, Expire, ReplaceReserved, OperatorAccepts, SpendReceipt,
                 SolverClaims, OperatorServes, OpUnchanged, store
  <1> QED
    BY <1>7, <1>8, <1>9, <1>10, NextParts

(* What a step does to the file, the receipts and the quotes asked for. *)
LEMMA FileStep ==
    ASSUME Base, Next
    PROVE  /\ \/ receipt' = receipt
              \/ /\ UNCHANGED <<op, out, file>>
                 /\ \E q \in Quotes :
                       acknowledgeVaultLightningRecoveryLocked(q) /\ receipt' = receipt \cup {q}
           /\ \/ file' = file
              \/ /\ UNCHANGED <<op, out, swap, receipt>>
                 /\ file' = [q \in Quotes |-> IF swap[q] # NoRecord THEN swap[q] ELSE file[q]]
           /\ file' \in [Quotes -> SwapRecord \cup {NoRecord}]
           /\ receipt' \subseteq Quotes /\ covers' \subseteq Quotes
           /\ asked' \in 0..MaxQuotes /\ asked' >= asked /\ expired' \subseteq 1..asked'
  <1>a. /\ swap \in [Quotes -> SwapRecord \cup {NoRecord}]
        /\ file \in [Quotes -> SwapRecord \cup {NoRecord}]
        /\ receipt \subseteq Quotes /\ covers \subseteq Quotes
        /\ asked \in 0..MaxQuotes /\ expired \subseteq 1..asked /\ MaxQuotes \in Nat
    BY BoundAssumption DEF Base, TypeOK
  <1>1. CASE UNCHANGED <<receipt, file, covers, asked, expired>>
    BY <1>a, <1>1
  <1>2. ASSUME NEW p \in Pages, requestVaultLightningQuote(p)
        PROVE  /\ UNCHANGED <<receipt, file, covers, expired>>
               /\ asked' = asked + 1 /\ asked < MaxQuotes
    BY <1>2 DEF requestVaultLightningQuote, world
  <1>3. ASSUME NEW p \in Pages, PageActs(p), ~requestVaultLightningQuote(p)
        PROVE  UNCHANGED <<receipt, file, covers, asked, expired>>
    BY <1>3, PageParts
       DEF Choosing, Taking, Funded, Refunds, Returning, approve, approveResumed, GiveUp, Crash,
           restoreMatchingVaultLightningFundingQuote, restoreMatchingVaultLightningQuote,
           openPending, withVaultLightningLifecycleLock,
           withAuthenticatedVaultLightningRefund, resumeVaultLightningFunding,
           beginVaultLightningFunding, saveFunding, authorizeReservedVtxoSpend,
           submitAuthorizedVtxoSpend, sendVaultVtxo,
           recordVaultLightningFundingTxid, durableVaultLightningRefund, submitTx,
           ResubmitRefund, ResumeSigning, ResumeFinals, RefundAnswered, finalizeTx,
           RefundResult, ReportRefund, RefundUnchanged, store, world
  <1>4. CASE ObserverActs
    <2>1. UNCHANGED <<receipt, file, covers, asked, expired>>
      BY <1>4 DEF ObserverActs, Observe, tryVaultLightningLifecycleLock, ObserverDies,
             retireAbandonedVaultLightningQuotes, reconcileVaultLightningFundingTxids,
             refreshVaultLightningObserver, store, world
    <2> QED
      BY <1>1, <2>1
  <1>5. CASE captureLightningRecoveryJournal
    <2>1. /\ file' = [q \in Quotes |-> IF swap[q] # NoRecord THEN swap[q] ELSE file[q]]
          /\ UNCHANGED <<op, out, swap, receipt, asked, expired>> /\ covers' \subseteq Quotes
      BY <1>5 DEF captureLightningRecoveryJournal, world, Stored
    <2> QED
      BY <1>a, <2>1
  <1>6. CASE restoreLightningRecoveryJournal
    BY <1>1, <1>6 DEF restoreLightningRecoveryJournal, world
  <1>7. ASSUME NEW q \in Quotes, acknowledgeVaultLightningRecoveryLocked(q)
        PROVE  /\ UNCHANGED <<op, out, file, covers, asked, expired>>
               /\ receipt' = receipt \cup {q}
    BY <1>7 DEF acknowledgeVaultLightningRecoveryLocked, world
  <1>8. CASE WorldActs
    <2>1. UNCHANGED <<receipt, file, covers, asked>>
      BY <1>8 DEF WorldActs, Expire, ReplaceReserved, OperatorAccepts, SpendReceipt,
                  SolverClaims, OperatorServes, OpUnchanged, store
    <2>2. \/ UNCHANGED expired
          \/ \E q \in Quotes : q <= asked /\ expired' = expired \cup {q}
      BY <1>8 DEF WorldActs, Expire, ReplaceReserved, OperatorAccepts, SpendReceipt,
                  SolverClaims, OperatorServes, OpUnchanged
    <2>3. \A q \in Quotes : q <= asked => q \in 1..asked
      BY <1>a DEF Quotes
    <2>4. PICK past : past = 1..asked /\ expired \subseteq past /\ \A q \in Quotes : q <= asked => q \in past
      BY <1>a, <2>3
    <2>5. expired' \subseteq past
      BY <2>2, <2>4
    <2>6. asked' = asked /\ asked >= asked /\ asked \in 0..MaxQuotes
      BY <1>a, <2>1
    <2>7. 1..asked' = past
      BY <2>4, <2>6
    <2> QED
      BY <1>a, <2>1, <2>5, <2>6, <2>7
  <1>9. CASE \E p \in Pages : requestVaultLightningQuote(p)
    <2>1. UNCHANGED <<receipt, file, covers, expired>> /\ asked' = asked + 1 /\ asked < MaxQuotes
      BY <1>2, <1>9
    <2>2. asked' \in 0..MaxQuotes /\ asked' >= asked /\ 1..asked \subseteq 1..asked'
      BY <1>a, <2>1
    <2> QED
      BY <1>a, <2>1, <2>2
  <1>10. CASE \E q \in Quotes : acknowledgeVaultLightningRecoveryLocked(q)
    <2>1. PICK q \in Quotes : acknowledgeVaultLightningRecoveryLocked(q)
      BY <1>10
    <2>2. UNCHANGED <<op, out, file, covers, asked, expired>> /\ receipt' = receipt \cup {q}
      BY <1>7, <2>1
    <2>3. asked \in 0..MaxQuotes /\ asked >= asked
      BY <1>a
    <2> QED
      BY <1>a, <2>1, <2>2, <2>3
  <1> QED
    BY <1>1, <1>3, <1>4, <1>5, <1>6, <1>8, <1>9, <1>10, NextParts DEF FileActs

(* Every step keeps the funding of the records and of the file. *)
LEMMA FundingKeeps ==
    ASSUME Base, Next
    PROVE  Funding'
  <1>a. Funding /\ OpsGrow
    BY OpsStep DEF Base
  <1>b. /\ swap \in [Quotes -> SwapRecord \cup {NoRecord}]
        /\ file \in [Quotes -> SwapRecord \cup {NoRecord}] /\ NoRecord \notin SwapRecord
        /\ 0 \notin Quotes /\ 0 \notin Ops
    BY NullAssumption DEF Base, TypeOK, Quotes, Ops
  <1>1. ASSUME NEW q \in Quotes, NEW r \in SwapRecord \cup {NoRecord}, Funds(q, r)
        PROVE  Funds(q, r)'
    <2>1. r # NoRecord => r.proof \in Ops \cup {0}
      BY DEF SwapRecord
    <2> QED
      BY <1>a, <1>b, <1>1, <2>1 DEF Funds, OpsGrow
  <1>2. ASSUME NEW q \in Quotes PROVE Funds(q, swap[q])'
    <2>1. CASE UNCHANGED swap
      <3>1. PICK r \in SwapRecord \cup {NoRecord} : r = swap[q] /\ Funds(q, r)
        BY <1>a, <1>b DEF Funding
      <3>2. Funds(q, r)'
        BY <1>1, <3>1
      <3> QED
        BY <2>1, <3>1, <3>2 DEF Funds
    <2>2. CASE RecordsMove
      <3>1. /\ op' = op /\ RecordMove(q) /\ Funds(q, swap[q]) /\ Funds(q, file[q])
        BY <1>a, <2>2 DEF RecordsMove, Funding
      <3>2. CASE Stays(q)
        BY <1>b, <3>1, <3>2 DEF Stays, Funds
      <3>3. CASE Begins(q) \/ IsFunded(q)
        BY <1>b, <3>1, <3>3 DEF Begins, IsFunded, Funds
      <3>4. CASE IsLabelled(q)
        BY <1>b, <3>1, <3>4 DEF IsLabelled, Funds
      <3>5. CASE IsAbandoned(q) \/ IsRestored(q) \/ IsRetired(q)
        BY <3>1, <3>5 DEF IsAbandoned, IsRestored, IsRetired, Funds
      <3> QED
        BY <3>1, <3>2, <3>3, <3>4, <3>5 DEF RecordMove
    <2> QED
      BY <2>1, <2>2, SwapStep
  <1>3. ASSUME NEW q \in Quotes PROVE Funds(q, file[q])'
    <2>1. file'[q] \in {file[q], swap[q]}
      BY <1>b, FileStep
    <2>2. PICK r \in SwapRecord \cup {NoRecord} : r = file'[q] /\ Funds(q, r)
      BY <1>a, <1>b, <2>1 DEF Funding
    <2>3. Funds(q, r)'
      BY <1>1, <2>2
    <2> QED
      BY <2>2, <2>3 DEF Funds
  <1> QED
    BY <1>2, <1>3 DEF Funding

(* Nothing is known of what was not asked for. *)
LEMMA AskedKeeps ==
    ASSUME Base, Next
    PROVE  Asked'
  <1>a. /\ Asked /\ OpsGrow /\ asked \in Nat /\ asked' \in Nat /\ asked' >= asked
        /\ op' \in [Ops -> Operation]
    BY OpsStep, FileStep, BoundAssumption DEF Base, TypeOK, OpsGrow
  <1>1. ASSUME NEW q \in Quotes, q > asked' PROVE swap'[q] = NoRecord
    <2>1. q > asked /\ swap[q] = NoRecord /\ file[q] = NoRecord
      BY <1>a, <1>1 DEF Asked, Quotes
    <2>2. CASE RecordsMove
      <3>1. ~Begins(q)
        BY <1>1 DEF Begins, Quotes
      <3> QED
        BY <2>1, <2>2, <3>1 DEF RecordsMove, RecordMove, Stays, IsFunded, IsLabelled, IsAbandoned,
                                IsRestored, IsRetired
    <2> QED
      BY <2>1, <2>2, SwapStep
  <1>2. ASSUME NEW q \in Quotes, q > asked' PROVE file'[q] = NoRecord /\ q \notin receipt'
    <2>1. q > asked /\ swap[q] = NoRecord /\ file[q] = NoRecord /\ q \notin receipt
      BY <1>a, <1>2 DEF Asked, Quotes
    <2>2. ~acknowledgeVaultLightningRecoveryLocked(q)
      BY <2>1 DEF acknowledgeVaultLightningRecoveryLocked, Stored
    <2> QED
      BY <2>1, <2>2, FileStep
  <1>3. \A o \in Ops : op'[o].quote <= asked'
    BY <1>a DEF Operation, OpsGrow, Quotes
  <1> QED
    BY <1>1, <1>2, <1>3 DEF Asked

-------------------------------------------------------------------------------
(* What the lock protects *)

(* A page that changes a record or an attempt holds the lock, or nobody    *)
(* does.                                                                   *)
LEMMA PageHolds ==
    ASSUME Base, NEW p \in Pages, PageActs(p), lock # NoHolder, lock # p
    PROVE  UNCHANGED <<swap, attempt>>
  <1>a. LockedBy(p) /\ 0 \notin Quotes
    BY DEF Base, Locked, LockedBy, Quotes
  <1>1. CASE Choosing(p)
    BY <1>1 DEF Choosing, restoreMatchingVaultLightningFundingQuote,
                restoreMatchingVaultLightningQuote, requestVaultLightningQuote, openPending,
                Reviewing, store
  <1>2. CASE approve(p) \/ approveResumed(p) \/ authorizeReservedVtxoSpend(p)
    BY <1>2 DEF approve, approveResumed, authorizeReservedVtxoSpend, store
  <1>3. CASE Taking(p)
    BY <1>3 DEF Taking, withVaultLightningLifecycleLock, withAuthenticatedVaultLightningRefund
  <1>4. CASE Funded(p)
    <2>1. ~saveFunding(p)
      BY <1>a DEF saveFunding, LockedBy, Paying
    <2> QED
      BY <1>4, <2>1 DEF Funded, resumeVaultLightningFunding, beginVaultLightningFunding,
                        submitAuthorizedVtxoSpend, sendVaultVtxo, store
  <1>5. CASE Refunds(p)
    <2>1. pc[p] \in Refunding
      BY <1>5 DEF Refunds, durableVaultLightningRefund, submitTx, ResubmitRefund,
                  ResumeSigning, ResumeFinals, RefundAnswered, finalizeTx, RefundResult,
                  Refundable, Refunding
    <2> QED
      BY <1>a, <2>1 DEF LockedBy, Refunding
  <1>6. CASE Returning(p)
    <2>1. ~ReportRefund(p)
      BY <1>a DEF ReportRefund, LockedBy, Refunding
    <2>2. CASE recordVaultLightningFundingTxid(p)
      <3>1. quote[p] = 0
        BY <1>a, <2>2 DEF recordVaultLightningFundingTxid, LockedBy, Paying
      <3> QED
        BY <1>a, <2>2, <3>1 DEF recordVaultLightningFundingTxid, Stored
    <2>3. CASE GiveUp(p) \/ Crash(p)
      BY <2>3 DEF GiveUp, Crash, store
    <2> QED
      BY <1>6, <2>1, <2>2, <2>3 DEF Returning
  <1> QED
    BY <1>1, <1>2, <1>3, <1>4, <1>5, <1>6, PageParts

(* So does everyone else. *)
LEMMA OthersHold ==
    ASSUME Base, ObserverActs \/ FileActs \/ WorldActs, NEW p \in Pages, lock = p
    PROVE  UNCHANGED <<swap, attempt>>
  <1>a. lock # NoHolder /\ lock # Observer /\ watch = "idle"
    BY NullAssumption DEF Base, Locked
  <1>1. ~ObserverActs
    BY <1>a DEF ObserverActs, Observe, tryVaultLightningLifecycleLock, ObserverDies,
             retireAbandonedVaultLightningQuotes, reconcileVaultLightningFundingTxids,
             refreshVaultLightningObserver
  <1>2. ~FileActs
    BY <1>a DEF FileActs, captureLightningRecoveryJournal, restoreLightningRecoveryJournal,
                acknowledgeVaultLightningRecoveryLocked
  <1>3. CASE WorldActs
    BY <1>3 DEF WorldActs, Expire, ReplaceReserved, OperatorAccepts, SpendReceipt,
                SolverClaims, OperatorServes, OpUnchanged, store
  <1> QED
    BY <1>1, <1>2, <1>3

(* What the observer found abandoned is so until it retires it. *)
LEMMA ScannedKeeps ==
    ASSUME Base, Next
    PROVE  Scanned'
  <1>a. Scanned /\ (watch = "retire" => lock = Observer)
    BY DEF Base, Locked
  <1>1. ASSUME NEW p \in Pages, PageActs(p) PROVE Scanned'
    <2>1. UNCHANGED <<scan, watch>>
      BY <1>1, PageParts
       DEF Choosing, Taking, Funded, Refunds, Returning, approve, approveResumed, GiveUp, Crash,
           restoreMatchingVaultLightningFundingQuote, restoreMatchingVaultLightningQuote,
           requestVaultLightningQuote, openPending, withVaultLightningLifecycleLock,
           withAuthenticatedVaultLightningRefund, resumeVaultLightningFunding,
           beginVaultLightningFunding, saveFunding, authorizeReservedVtxoSpend,
           submitAuthorizedVtxoSpend, sendVaultVtxo,
           recordVaultLightningFundingTxid, durableVaultLightningRefund, submitTx,
           ResubmitRefund, ResumeSigning, ResumeFinals, RefundAnswered, finalizeTx,
           RefundResult, ReportRefund, RefundUnchanged, observer
    <2>2. CASE scan = {}
      BY <2>1, <2>2 DEF Scanned
    <2>3. CASE scan # {}
      <3>1. lock = Observer
        BY <1>a, <2>3 DEF Scanned
      <3>2. UNCHANGED swap
        BY <1>1, <3>1, PageHolds, NullAssumption
      <3> QED
        BY <1>a, <2>1, <3>2 DEF Scanned
    <2> QED
      BY <2>2, <2>3
  <1>2. CASE ObserverActs
    <2>1. CASE tryVaultLightningLifecycleLock
      BY <2>1 DEF tryVaultLightningLifecycleLock, store, Scanned, Abandoned, Stored
    <2>2. CASE retireAbandonedVaultLightningQuotes \/ ObserverDies
      BY <2>2 DEF retireAbandonedVaultLightningQuotes, ObserverDies, Scanned
    <2>3. CASE reconcileVaultLightningFundingTxids \/ refreshVaultLightningObserver
      <3>1. scan = {} /\ scan' = scan
        BY <1>a, <2>3 DEF reconcileVaultLightningFundingTxids, refreshVaultLightningObserver,
                          Scanned
      <3> QED
        BY <3>1 DEF Scanned
    <2> QED
      BY <1>2, <2>1, <2>2, <2>3 DEF ObserverActs, Observe
  <1>3. CASE FileActs
    <2>1. lock = NoHolder /\ UNCHANGED <<scan, watch>>
      BY <1>3 DEF FileActs, captureLightningRecoveryJournal, restoreLightningRecoveryJournal,
                  acknowledgeVaultLightningRecoveryLocked, observer
    <2>2. scan = {}
      BY <1>a, <2>1, NullAssumption DEF Scanned
    <2> QED
      BY <2>1, <2>2 DEF Scanned
  <1>4. CASE WorldActs
    <2>1. UNCHANGED <<scan, watch, swap>>
      BY <1>4 DEF WorldActs, Expire, ReplaceReserved, OperatorAccepts, SpendReceipt,
                  SolverClaims, OperatorServes, OpUnchanged, store, observer
    <2> QED
      BY <1>a, <2>1 DEF Scanned
  <1> QED
    BY <1>1, <1>2, <1>3, <1>4, NextParts

(* The state of the other pages under the lock is left alone. *)
LEMMA FoundStays ==
    ASSUME Base, Next, NEW x \in Pages,
           pc'[x] = pc[x] /\ quote'[x] = quote[x] /\ mine'[x] = mine[x] /\ copy'[x] = copy[x],
           lock = x => UNCHANGED <<swap, attempt>>
    PROVE  FoundBy(x)'
  <1>1. FoundBy(x) /\ LockedBy(x) /\ WorkingBy(x) /\ OpsGrow
    BY OpsStep DEF Base, Locked, LockedBy, Working, WorkingBy
  <1>2. mine[x] \in Ops \cup {0}
    BY DEF Base, TypeOK
  <1>3. CASE UNCHANGED <<swap, attempt>>
    BY <1>1, <1>2, <1>3 DEF FoundBy, WorkingBy, OpsGrow, Paying
  <1>4. CASE lock # x
    <2>1. pc[x] \notin Refunding /\ pc[x] # "save" /\ (pc[x] \in Paying => quote[x] = 0)
      BY <1>1, <1>4 DEF LockedBy, Paying, Refunding
    <2> QED
      BY <1>1, <1>2, <2>1 DEF FoundBy, WorkingBy, OpsGrow, Paying, Refunding
  <1> QED
    BY <1>3, <1>4

(* Every step keeps what the pages found under the lock. *)
LEMMA FoundKeeps ==
    ASSUME Base, Next
    PROVE  \A x \in Pages : FoundBy(x)'
  <1>a. /\ OpsGrow /\ \A x \in Pages : FoundBy(x) /\ LockedBy(x) /\ WorkingBy(x)
    BY OpsStep DEF Base, Locked, LockedBy, Working, WorkingBy
  <1>b. /\ pc \in [Pages -> Places] /\ quote \in [Pages -> Quotes \cup {0}]
        /\ mine \in [Pages -> Ops \cup {0}] /\ copy \in [Pages -> SwapRecord \cup {NoRecord}]
        /\ swap \in [Quotes -> SwapRecord \cup {NoRecord}]
        /\ attempt \in [Quotes -> RefundAttempt]
        /\ 0 \notin Quotes /\ 0 \notin Ops
    BY DEF Base, TypeOK, Quotes, Ops
  <1>1. ASSUME ObserverActs \/ FileActs \/ WorldActs, NEW x \in Pages PROVE FoundBy(x)'
    <2>1. pc'[x] = pc[x] /\ quote'[x] = quote[x] /\ mine'[x] = mine[x] /\ copy'[x] = copy[x]
      BY <1>1, OthersTyped DEF page
    <2>2. lock = x => UNCHANGED <<swap, attempt>>
      BY <1>1, OthersHold
    <2> QED
      BY <2>1, <2>2, FoundStays
  <1>2. ASSUME NEW p \in Pages, PageActs(p), NEW x \in Pages, x # p PROVE FoundBy(x)'
    <2>1. pc'[x] = pc[x] /\ quote'[x] = quote[x] /\ mine'[x] = mine[x] /\ copy'[x] = copy[x]
      BY <1>2, PageTyped DEF Elsewhere
    <2>2. lock = x => UNCHANGED <<swap, attempt>>
      BY <1>2, PageHolds, NullAssumption
    <2> QED
      BY <2>1, <2>2, FoundStays
  <1>3. ASSUME NEW p \in Pages, PageActs(p) PROVE FoundBy(p)'
    <2>1. CASE Choosing(p)
      <3>1. pc'[p] = "review"
        BY <1>b, <2>1 DEF Choosing, restoreMatchingVaultLightningFundingQuote,
               restoreMatchingVaultLightningQuote, requestVaultLightningQuote, openPending,
               Show, Goto
      <3> QED
        BY <3>1 DEF FoundBy, Refunding
    <2>2. CASE approve(p) \/ approveResumed(p)
      <3>1. quote' = quote /\ pc'[p] \in {"review", Sending(p)}
        BY <1>b, <2>2 DEF approve, approveResumed, Goto
      <3> QED
        BY <3>1 DEF FoundBy, Sending, Refunding
    <2>3. CASE withVaultLightningLifecycleLock(p)
      BY <1>b, <2>3 DEF withVaultLightningLifecycleLock, Goto, FoundBy, Refunding
    <2>4. CASE withAuthenticatedVaultLightningRefund(p)
      <3>1. PICK q \in Stored : quote' = [quote EXCEPT ![p] = q]
        BY <2>4 DEF withAuthenticatedVaultLightningRefund
      <3>2. q \in Quotes /\ quote'[p] = q /\ pc'[p] = "refund" /\ swap'[q] = Polled(q)
        BY <1>b, <2>4, <3>1 DEF withAuthenticatedVaultLightningRefund, Goto, Stored
      <3>3. swap'[q] # NoRecord
        BY <3>1, <3>2, PolledStays, NullAssumption DEF Stored
      <3> QED
        BY <3>2, <3>3 DEF FoundBy, Refunding
    <2>5. CASE resumeVaultLightningFunding(p)
      BY <1>b, <2>5 DEF resumeVaultLightningFunding, Goto, Locals, store, sameFundingProof,
                        Stored, FoundBy, Refunding
    <2>6. CASE beginVaultLightningFunding(p)
      <3>1. /\ pc'[p] = "save" /\ quote'[p] = quote[p] /\ quote[p] \in Quotes
            /\ swap' = swap /\ swap[quote[p]] # NoRecord /\ copy'[p] = swap[quote[p]]
            /\ ~isFundedLightningRecord(swap[quote[p]])
        BY <1>b, <2>6 DEF beginVaultLightningFunding, Goto, store, Stored
      <3>2. swap[quote[p]].funding = "quoted" /\ swap[quote[p]].txid = 0
        BY <1>b, <3>1 DEF isFundedLightningRecord, SwapRecord
      <3> QED
        BY <3>1, <3>2 DEF FoundBy, Refunding
    <2>7. CASE saveFunding(p)
      <3>1. /\ pc[p] = "save" /\ pc'[p] = "send" /\ quote' = quote /\ mine' = mine
            /\ swap' = [swap EXCEPT ![quote[p]] =
                          [copy[p] EXCEPT !.funding = "funding", !.proof = mine[p]]]
        BY <1>b, <2>7 DEF saveFunding, Goto, Locals
      <3>2. quote[p] \in Quotes /\ copy[p] \in SwapRecord /\ mine[p] \in Ops
        BY <1>a, <1>b, <3>1 DEF LockedBy, FoundBy, WorkingBy, Paying
      <3>3. PICK r \in SwapRecord, o \in Ops : r = copy[p] /\ o = mine[p]
        BY <3>2
      <3>4. PICK s : s = [r EXCEPT !.funding = "funding", !.proof = o]
        OBVIOUS
      <3>5. s \in SwapRecord /\ s.funding = "funding" /\ s.proof = o
        BY <3>4 DEF SwapRecord
      <3>6. swap'[quote[p]] = s
        BY <1>b, <3>1, <3>2, <3>3, <3>4
      <3> QED
        BY <3>1, <3>3, <3>5, <3>6, NullAssumption DEF FoundBy, Refunding
    <2>8. CASE authorizeReservedVtxoSpend(p)
      <3>1. UNCHANGED <<pc, quote, mine, copy, swap, attempt>>
        BY <2>8 DEF authorizeReservedVtxoSpend, page, store
      <3> QED
        BY <3>1, FoundStays
    <2>9. CASE submitAuthorizedVtxoSpend(p) \/ sendVaultVtxo(p)
      <3>1. /\ UNCHANGED <<quote, mine, swap>> /\ pc'[p] \in {"wait", "label"}
            /\ pc[p] \in {"send", "wait"}
            /\ pc'[p] = "label" => op[mine[p]].stage \in {"accepted", "done"}
        BY <1>b, <2>9 DEF submitAuthorizedVtxoSpend, sendVaultVtxo, Goto, Locals, store
      <3>2. mine[p] \in Ops
        BY <1>a, <1>b, <3>1 DEF WorkingBy, Paying
      <3> QED
        BY <1>a, <3>1, <3>2 DEF FoundBy, OpsGrow, Refunding
    <2>10. CASE Refunds(p)
      <3>1. /\ pc[p] \in Refunding /\ pc'[p] \in Refunding /\ UNCHANGED <<quote, swap>>
        BY <1>b, <2>10 DEF Refunds, durableVaultLightningRefund, submitTx, ResubmitRefund,
              ResumeSigning, ResumeFinals, RefundAnswered, finalizeTx, RefundResult,
              RefundUnchanged, Locals, Goto, Refundable, Refunding
      <3>2. /\ swap'[quote'[p]] # NoRecord /\ quote[p] \in Quotes /\ quote'[p] = quote[p]
        BY <1>a, <1>b, <3>1 DEF FoundBy, LockedBy, Refunding
      <3>3. PICK q \in Quotes : q = quote[p]
        BY <3>2
      <3>4. PICK a \in RefundAttempt : a = attempt[q]
        BY <1>b
      <3>5. CASE durableVaultLightningRefund(p)
        <4>1. PICK b : b = [a EXCEPT !.stage = "dispatched"]
          OBVIOUS
        <4>2. b.build = a.build
          BY <4>1 DEF RefundAttempt
        <4>3. a.build = 0 /\ attempt' = [attempt EXCEPT ![q] = b] /\ pc'[p] = "build"
          BY <1>b, <3>3, <3>4, <3>5, <4>1 DEF durableVaultLightningRefund, Attempted, Goto
        <4>4. attempt'[q].build = 0
          BY <1>b, <4>2, <4>3
        <4> QED
          BY <3>2, <3>3, <4>3, <4>4 DEF FoundBy, Refunding
      <3>6. CASE submitTx(p)
        <4>1. PICK n \in Builds : attempt' = [attempt EXCEPT ![q] =
                                                [a EXCEPT !.stage = "submitted", !.build = n]]
          BY <3>3, <3>4, <3>6 DEF submitTx, Attempted
        <4>2. PICK b : b = [a EXCEPT !.stage = "submitted", !.build = n]
          OBVIOUS
        <4>3. b.build = n /\ n # 0
          BY <4>2 DEF RefundAttempt, Builds
        <4>4. attempt'[q].build # 0 /\ pc'[p] = "answer"
          BY <1>b, <3>6, <4>1, <4>2, <4>3 DEF submitTx, Goto
        <4> QED
          BY <3>2, <3>3, <4>4 DEF FoundBy, Refunding
      <3>7. CASE ResubmitRefund(p) \/ ResumeSigning(p)
        <4>1. /\ attempt' = attempt /\ pc'[p] \in {"answer", "sign"}
              /\ a.build # 0 \/ a.server
          BY <1>b, <3>3, <3>4, <3>7 DEF ResubmitRefund, ResumeSigning, Goto
        <4>2. a.build # 0
          BY <3>4, <4>1 DEF Base, Replayed
        <4> QED
          BY <3>2, <3>3, <3>4, <4>1, <4>2 DEF FoundBy, Refunding
      <3>8. CASE RefundAnswered(p)
        <4>1. PICK b : b = [a EXCEPT !.server = TRUE]
          OBVIOUS
        <4>2. b.build = a.build
          BY <4>1 DEF RefundAttempt
        <4>3. /\ attempt' = [attempt EXCEPT ![q] = b] /\ pc'[p] = "sign" /\ pc[p] = "answer"
          BY <1>b, <3>3, <3>4, <3>8, <4>1 DEF RefundAnswered, Attempted, Goto
        <4>4. attempt'[q].build # 0
          BY <1>a, <1>b, <3>3, <3>4, <4>2, <4>3 DEF FoundBy
        <4> QED
          BY <3>2, <3>3, <4>3, <4>4 DEF FoundBy, Refunding
      <3>9. CASE ResumeFinals(p) \/ finalizeTx(p) \/ RefundResult(p)
        <4>1. pc'[p] \in {"final", "report"}
          BY <1>b, <3>9 DEF ResumeFinals, finalizeTx, RefundResult, Goto
        <4> QED
          BY <3>2, <3>3, <4>1 DEF FoundBy, Refunding
      <3> QED
        BY <2>10, <3>5, <3>6, <3>7, <3>8, <3>9 DEF Refunds
    <2>11. CASE Returning(p)
      <3>1. Return(p)
        BY <2>11 DEF Returning, recordVaultLightningFundingTxid, GiveUp, Crash, ReportRefund
      <3>2. pc'[p] = "idle"
        BY <1>b, <3>1 DEF Return, Goto
      <3> QED
        BY <3>2 DEF FoundBy, Refunding
    <2> QED
      BY <1>3, <2>1, <2>2, <2>3, <2>4, <2>5, <2>6, <2>7, <2>8, <2>9, <2>10, <2>11, PageParts
         DEF Taking, Funded
  <1> QED
    BY <1>1, <1>2, <1>3, NextParts

-------------------------------------------------------------------------------
(* The refund of a quote *)

(* A posted request is one for the stored transaction. *)
LEMMA PostTyped ==
    ASSUME NEW p \in Pages, NEW kind \in {"submit", "finalize"}, Post(p, kind),
           quote[p] \in Quotes, attempt'[quote[p]].build \in Builds
    PROVE  \E m \in Requests :
              net' = net \cup {m} /\ m.quote = quote[p] /\ m.build = attempt'[quote[p]].build
  <1>1. PICK q \in Quotes, b \in Builds : q = quote[p] /\ b = attempt'[q].build
    OBVIOUS
  <1>2. PICK m : m = [quote |-> q, build |-> b, kind |-> kind]
    OBVIOUS
  <1>3. m \in Requests /\ m.quote = q /\ m.build = b
    BY <1>2 DEF Requests
  <1>4. net' = net \cup {m}
    BY <1>1, <1>2 DEF Post
  <1> QED
    BY <1>1, <1>3, <1>4

(* A step of a refund keeps the transaction that is stored, or stores the  *)
(* first; it asks the Operator for that one only.                          *)
LEMMA RefundMoves ==
    ASSUME Base, NEW p \in Pages, Refunds(p)
    PROVE  \E q \in Quotes, a \in RefundAttempt :
              /\ attempt' = [attempt EXCEPT ![q] = a]
              /\ a.server \/ a.finals => a.build # 0
              /\ a.build = attempt[q].build \/ attempt[q].build = 0
              /\ \/ net' = net
                 \/ \E m \in Requests : /\ net' = net \cup {m}
                                        /\ m.quote = q /\ m.build = a.build
  <1>a. /\ attempt \in [Quotes -> RefundAttempt] /\ 0 \notin Quotes /\ 0 \notin Builds
        /\ LockedBy(p) /\ FoundBy(p) /\ quote[p] \in Quotes \cup {0}
    BY DEF Base, TypeOK, Quotes, Builds, Locked, LockedBy
  <1>e. pc[p] \in Refunding
    BY DEF Refunds, durableVaultLightningRefund, submitTx, ResubmitRefund, ResumeSigning,
           ResumeFinals, RefundAnswered, finalizeTx, RefundResult, Refundable, Refunding
  <1>b. quote[p] \in Quotes
    BY <1>a, <1>e DEF LockedBy, Refunding
  <1>c. PICK q \in Quotes, a \in RefundAttempt : q = quote[p] /\ a = attempt[q]
    BY <1>a, <1>b
  <1>d. /\ a.server \/ a.finals => a.build # 0
        /\ a.build \in Builds \cup {0} /\ a.server \in BOOLEAN /\ a.finals \in BOOLEAN
    BY <1>c DEF Base, Replayed, RefundAttempt
  <1>1. CASE durableVaultLightningRefund(p)
    <2>1. PICK b : b = [a EXCEPT !.stage = "dispatched"]
      OBVIOUS
    <2>2. b \in RefundAttempt /\ b.build = a.build /\ b.server = a.server /\ b.finals = a.finals
      BY <2>1 DEF RefundAttempt
    <2>3. attempt' = [attempt EXCEPT ![q] = b] /\ net' = net
      BY <1>1, <1>c, <2>1 DEF durableVaultLightningRefund, Attempted
    <2> QED
      BY <1>c, <1>d, <2>2, <2>3
  <1>2. CASE submitTx(p)
    <2>1. PICK n \in Builds : attempt' = [attempt EXCEPT ![q] =
                                            [a EXCEPT !.stage = "submitted", !.build = n]]
      BY <1>2, <1>c DEF submitTx, Attempted
    <2>2. PICK b : b = [a EXCEPT !.stage = "submitted", !.build = n]
      OBVIOUS
    <2>3. b \in RefundAttempt /\ b.build = n
      BY <2>2 DEF RefundAttempt
    <2>4. attempt' = [attempt EXCEPT ![q] = b] /\ attempt'[q] = b /\ a.build = 0
      BY <1>2, <1>a, <1>c, <2>1, <2>2 DEF submitTx, FoundBy
    <2>5. \E m \in Requests : net' = net \cup {m} /\ m.quote = q /\ m.build = n
      BY <1>2, <1>b, <1>c, <2>3, <2>4, PostTyped DEF submitTx
    <2> QED
      BY <1>a, <1>c, <2>3, <2>4, <2>5
  <1>3. CASE ResubmitRefund(p) \/ ResumeFinals(p)
    <2>1. attempt' = attempt /\ a.build \in Builds
      BY <1>3, <1>c, <1>d DEF ResubmitRefund, ResumeFinals
    <2>2. \E m \in Requests : net' = net \cup {m} /\ m.quote = q /\ m.build = a.build
      BY <1>3, <1>b, <1>c, <2>1, PostTyped DEF ResubmitRefund, ResumeFinals
    <2>3. attempt' = [attempt EXCEPT ![q] = a]
      BY <1>a, <1>c, <2>1
    <2> QED
      BY <1>c, <1>d, <2>2, <2>3
  <1>4. CASE ResumeSigning(p)
    <2>1. attempt' = attempt /\ net' = net
      BY <1>4 DEF ResumeSigning
    <2>2. attempt' = [attempt EXCEPT ![q] = a]
      BY <1>a, <1>c, <2>1
    <2> QED
      BY <1>c, <1>d, <2>1, <2>2
  <1>5. CASE RefundAnswered(p)
    <2>1. PICK b : b = [a EXCEPT !.server = TRUE]
      OBVIOUS
    <2>2. b \in RefundAttempt /\ b.build = a.build
      BY <2>1 DEF RefundAttempt
    <2>3. attempt' = [attempt EXCEPT ![q] = b] /\ net' = net /\ a.build # 0
      BY <1>5, <1>a, <1>c, <2>1 DEF RefundAnswered, Attempted, FoundBy
    <2> QED
      BY <1>c, <2>2, <2>3
  <1>6. CASE finalizeTx(p)
    <2>1. PICK b : b = [a EXCEPT !.finals = TRUE, !.stage = "finalized"]
      OBVIOUS
    <2>2. b \in RefundAttempt /\ b.build = a.build
      BY <2>1 DEF RefundAttempt
    <2>3. attempt' = [attempt EXCEPT ![q] = b] /\ a.build # 0
      BY <1>6, <1>a, <1>c, <2>1 DEF finalizeTx, Attempted, FoundBy
    <2>4. attempt'[q] = b /\ b.build \in Builds
      BY <1>a, <1>d, <2>2, <2>3
    <2>5. \E m \in Requests : net' = net \cup {m} /\ m.quote = q /\ m.build = b.build
      BY <1>6, <1>b, <1>c, <2>4, PostTyped DEF finalizeTx
    <2> QED
      BY <1>c, <2>2, <2>3, <2>5
  <1>7. CASE RefundResult(p)
    <2>1. PICK b : b = [a EXCEPT !.stage = "result"]
      OBVIOUS
    <2>2. b \in RefundAttempt /\ b.build = a.build /\ b.server = a.server /\ b.finals = a.finals
      BY <2>1 DEF RefundAttempt
    <2>3. attempt' = [attempt EXCEPT ![q] = b] /\ net' = net
      BY <1>7, <1>c, <2>1 DEF RefundResult, Attempted
    <2> QED
      BY <1>c, <1>d, <2>2, <2>3
  <1> QED
    BY <1>1, <1>2, <1>3, <1>4, <1>5, <1>6, <1>7 DEF Refunds

(* The types of what a refund is made of. *)
RefundTyped ==
    /\ attempt \in [Quotes -> RefundAttempt] /\ net \subseteq Requests
    /\ operator \in [Quotes -> [taken : Builds \cup {0}, final : BOOLEAN, saw : SUBSET Builds]]

(* What the Operator does with a request. *)
LEMMA ServedMoves ==
    ASSUME Base, NEW m \in net, OperatorServes(m)
    PROVE  /\ net' \subseteq net /\ UNCHANGED attempt
           /\ \E v \in [taken : Builds \cup {0}, final : BOOLEAN, saw : SUBSET Builds] :
                 /\ operator' = [operator EXCEPT ![m.quote] = v]
                 /\ v.saw \subseteq operator[m.quote].saw \cup {m.build}
                 /\ v.taken \in v.saw \cup {0}
  <1>a. /\ m \in Requests /\ m.quote \in Quotes /\ m.build \in Builds
        /\ operator[m.quote].taken \in operator[m.quote].saw \cup {0}
    BY DEF Base, TypeOK, Requests, Replayed
  <1>b. PICK q \in Quotes, b \in Builds,
             v \in [taken : Builds \cup {0}, final : BOOLEAN, saw : SUBSET Builds] :
           q = m.quote /\ b = m.build /\ v = operator[m.quote]
    BY <1>a DEF Base, TypeOK
  <1>1. net' \subseteq net /\ UNCHANGED attempt
    BY DEF OperatorServes, store
  <1>2. CASE operator' = [operator EXCEPT ![m.quote] =
                   [v EXCEPT !.taken = IF @ = 0 /\ Held(m.quote) THEN m.build ELSE @,
                             !.saw = @ \cup {m.build}]]
    <2>1. PICK t : t = IF v.taken = 0 /\ Held(q) THEN b ELSE v.taken
      OBVIOUS
    <2>2. PICK w : w = [v EXCEPT !.taken = t, !.saw = v.saw \cup {b}]
      OBVIOUS
    <2>3. t \in Builds \cup {0} /\ t \in v.saw \cup {b, 0}
      BY <1>a, <1>b, <2>1
    <2>4. /\ w \in [taken : Builds \cup {0}, final : BOOLEAN, saw : SUBSET Builds]
          /\ w.taken = t /\ w.saw = v.saw \cup {b}
      BY <2>2, <2>3
    <2>5. operator' = [operator EXCEPT ![q] = w]
      BY <1>2, <1>b, <2>1, <2>2
    <2> QED
      BY <1>1, <1>b, <2>3, <2>4, <2>5
  <1>3. CASE operator' = [operator EXCEPT ![m.quote].final = TRUE]
    <2>1. PICK w : w = [v EXCEPT !.final = TRUE]
      OBVIOUS
    <2>2. /\ w \in [taken : Builds \cup {0}, final : BOOLEAN, saw : SUBSET Builds]
          /\ w.taken = v.taken /\ w.saw = v.saw
      BY <2>1
    <2>3. operator' = [operator EXCEPT ![q] = w]
      BY <1>3, <1>b, <2>1
    <2> QED
      BY <1>1, <1>a, <1>b, <2>2, <2>3
  <1> QED
    BY <1>2, <1>3, <1>b DEF OperatorServes

(* Every step leaves the Operator with the stored transaction only. *)
LEMMA ReplayedKeeps ==
    ASSUME Base, Next
    PROVE  RefundTyped' /\ Replayed'
  <1>a. RefundTyped /\ Replayed
    BY DEF Base, TypeOK, RefundTyped
  <1>1. ASSUME NEW p \in Pages, Refunds(p) PROVE RefundTyped' /\ Replayed'
    <2>1. PICK q \in Quotes, a \in RefundAttempt :
              /\ attempt' = [attempt EXCEPT ![q] = a]
              /\ a.server \/ a.finals => a.build # 0
              /\ a.build = attempt[q].build \/ attempt[q].build = 0
              /\ \/ net' = net
                 \/ \E m \in Requests : /\ net' = net \cup {m}
                                        /\ m.quote = q /\ m.build = a.build
      BY <1>1, RefundMoves
    <2>2. operator' = operator
      BY <1>1 DEF Refunds, durableVaultLightningRefund, submitTx, ResubmitRefund,
                  ResumeSigning, ResumeFinals, RefundAnswered, finalizeTx, RefundResult,
                  RefundUnchanged
    <2>3. \A m \in Requests : m.build # 0
      BY DEF Requests, Builds
    <2>4. RefundTyped'
      BY <1>a, <2>1, <2>2 DEF RefundTyped
    <2>5. \A r \in Quotes : attempt'[r] = IF r = q THEN a ELSE attempt[r]
      BY <1>a, <2>1 DEF RefundTyped
    <2>6. attempt[q].build # a.build =>
             operator[q].saw = {} /\ \A m \in net : m.quote # q
      BY <1>a, <2>1 DEF Replayed
    <2>7. \A m \in net' : m.build = attempt'[m.quote].build /\ m.build # 0
      <3>1. ASSUME NEW m \in net PROVE m.build = attempt'[m.quote].build /\ m.build # 0
        BY <1>a, <2>3, <2>5, <2>6, <3>1 DEF Replayed, RefundTyped, Requests
      <3>2. ASSUME NEW m \in net', m \notin net
            PROVE  m.build = attempt'[m.quote].build /\ m.build # 0
        BY <2>1, <2>3, <2>5, <3>2
      <3> QED
        BY <3>1, <3>2
    <2>8. ASSUME NEW r \in Quotes
          PROVE  /\ attempt'[r].server \/ attempt'[r].finals => attempt'[r].build # 0
                 /\ operator[r].saw \subseteq {attempt'[r].build} \ {0}
                 /\ operator[r].taken \in operator[r].saw \cup {0}
      BY <1>a, <2>1, <2>5, <2>6 DEF Replayed
    <2> QED
      BY <2>2, <2>4, <2>7, <2>8 DEF Replayed
  <1>2. ASSUME NEW m \in net, OperatorServes(m) PROVE RefundTyped' /\ Replayed'
    <2>1. PICK v \in [taken : Builds \cup {0}, final : BOOLEAN, saw : SUBSET Builds] :
                 /\ operator' = [operator EXCEPT ![m.quote] = v]
                 /\ v.saw \subseteq operator[m.quote].saw \cup {m.build}
                 /\ v.taken \in v.saw \cup {0}
      BY <1>2, ServedMoves
    <2>2. net' \subseteq net /\ UNCHANGED attempt
      BY <1>2, ServedMoves
    <2>3. m.build = attempt[m.quote].build /\ m.build # 0 /\ m.quote \in Quotes
      BY <1>a DEF Replayed, RefundTyped, Requests
    <2>4. RefundTyped'
      BY <1>a, <2>1, <2>2 DEF RefundTyped
    <2>5. \A r \in Quotes : operator'[r] = IF r = m.quote THEN v ELSE operator[r]
      BY <1>a, <2>1 DEF RefundTyped
    <2> QED
      BY <1>a, <2>1, <2>2, <2>3, <2>4, <2>5 DEF Replayed
  <1>3. CASE UNCHANGED <<attempt, operator, net>>
    BY <1>a, <1>3 DEF RefundTyped, Replayed
  <1>4. ASSUME NEW p \in Pages, PageActs(p), ~Refunds(p)
        PROVE  UNCHANGED <<attempt, operator, net>>
    BY <1>4, PageParts
       DEF Choosing, Taking, Funded, Returning, approve, approveResumed, GiveUp, Crash,
           restoreMatchingVaultLightningFundingQuote, restoreMatchingVaultLightningQuote,
           requestVaultLightningQuote, openPending, withVaultLightningLifecycleLock,
           withAuthenticatedVaultLightningRefund, resumeVaultLightningFunding,
           beginVaultLightningFunding, saveFunding, authorizeReservedVtxoSpend,
           submitAuthorizedVtxoSpend, sendVaultVtxo,
           recordVaultLightningFundingTxid, ReportRefund, store, world
  <1>5. ASSUME ObserverActs \/ FileActs PROVE UNCHANGED <<attempt, operator, net>>
    BY <1>5 DEF ObserverActs, Observe, tryVaultLightningLifecycleLock, ObserverDies,
                retireAbandonedVaultLightningQuotes, reconcileVaultLightningFundingTxids,
                refreshVaultLightningObserver, FileActs, captureLightningRecoveryJournal,
                restoreLightningRecoveryJournal, acknowledgeVaultLightningRecoveryLocked,
                store, world
  <1>6. ASSUME WorldActs PROVE \/ \E m \in net : OperatorServes(m)
                               \/ UNCHANGED <<attempt, operator, net>>
    BY <1>6 DEF WorldActs, Expire, ReplaceReserved, OperatorAccepts, SpendReceipt,
                SolverClaims, OpUnchanged, store
  <1> QED
    BY <1>1, <1>2, <1>3, <1>4, <1>5, <1>6, NextParts

-------------------------------------------------------------------------------
(* What names the money of a quote *)

(* An operation is authorized by a page that sends the payment, its record *)
(* in funding for it: the lock is held, unless it is sent as a plain one.  *)
LEMMA AuthorizedWhen ==
    ASSUME Base, Next, NEW o \in Ops, Authorized(o)', ~Authorized(o), ~op'[o].plain
    PROVE  /\ op[o].quote \in Quotes /\ swap[op[o].quote] # NoRecord
           /\ swap[op[o].quote].proof = o
  <1>a. /\ op \in [Ops -> Operation]
        /\ mine \in [Pages -> Ops \cup {0}] /\ quote \in [Pages -> Quotes \cup {0}]
        /\ \A x \in Pages : FoundBy(x) /\ WorkingBy(x)
    BY DEF Base, TypeOK, Working, WorkingBy
  <1>1. \E p \in Pages : authorizeReservedVtxoSpend(p) /\ mine[p] = o
    <2>1. ASSUME UNCHANGED op PROVE FALSE
      BY <2>1 DEF Authorized
    <2>2. ASSUME NEW x \in Ops, NEW s \in OpStages,
                 s \in {"submitted", "accepted", "done"} => Authorized(x),
                 s # "authorized", op' = [op EXCEPT ![x].stage = s]
          PROVE  FALSE
      BY <1>a, <2>2 DEF Authorized
    <2>3. ASSUME NEW p \in Pages, PageActs(p) PROVE authorizeReservedVtxoSpend(p) /\ mine[p] = o
      <3>1. CASE approve(p)
        <4>1. PICK x \in Ops : \/ UNCHANGED op
                               \/ op' = [op EXCEPT ![x] =
                                   [Unused EXCEPT !.stage = "reserved", !.quote = Target(p)]]
          BY <3>1 DEF approve
        <4>2. op'[o].stage \in {op[o].stage, "reserved"}
          BY <1>a, <4>1 DEF Operation, Unused
        <4> QED
          BY <4>2 DEF Authorized
      <3>2. CASE authorizeReservedVtxoSpend(p)
        <4>1. op' = [op EXCEPT ![mine[p]].stage = "authorized",
                               ![mine[p]].plain = (quote[p] = 0)]
          BY <3>2 DEF authorizeReservedVtxoSpend
        <4>2. mine[p] # o => op'[o] = op[o]
          BY <1>a, <4>1
        <4> QED
          BY <3>2, <4>2 DEF Authorized
      <3>3. CASE submitAuthorizedVtxoSpend(p)
        <4>1. op'[o].stage \in {op[o].stage, "submitted"} /\ (op'[o] # op[o] => o = mine[p])
          BY <1>a, <3>3 DEF submitAuthorizedVtxoSpend
        <4>2. Authorized(mine[p])
          BY <3>3 DEF submitAuthorizedVtxoSpend, Authorized
        <4> QED
          BY <4>1, <4>2 DEF Authorized
      <3>4. ASSUME ~approve(p), ~authorizeReservedVtxoSpend(p), ~submitAuthorizedVtxoSpend(p)
            PROVE  UNCHANGED op
        BY <2>3, <3>4, PageParts
         DEF Choosing, Taking, Funded, Refunds, Returning, approveResumed, GiveUp, Crash,
             restoreMatchingVaultLightningFundingQuote, restoreMatchingVaultLightningQuote,
             requestVaultLightningQuote, openPending, withVaultLightningLifecycleLock,
             withAuthenticatedVaultLightningRefund, resumeVaultLightningFunding,
             beginVaultLightningFunding, saveFunding, sendVaultVtxo,
             recordVaultLightningFundingTxid, durableVaultLightningRefund, submitTx,
             ResubmitRefund, ResumeSigning, ResumeFinals, RefundAnswered, finalizeTx,
             RefundResult, ReportRefund, RefundUnchanged, world
      <3> QED
        BY <2>1, <3>1, <3>2, <3>3, <3>4
    <2>4. ASSUME ObserverActs \/ FileActs PROVE UNCHANGED op
      BY <2>4 DEF ObserverActs, Observe, tryVaultLightningLifecycleLock, ObserverDies,
                  retireAbandonedVaultLightningQuotes, reconcileVaultLightningFundingTxids,
                  refreshVaultLightningObserver, FileActs, captureLightningRecoveryJournal,
                  restoreLightningRecoveryJournal, acknowledgeVaultLightningRecoveryLocked, world
    <2>5. ASSUME NEW x \in Ops, ReplaceReserved(x) \/ OperatorAccepts(x) \/ SpendReceipt(x)
          PROVE  FALSE
      <3>1. PICK s \in {"aborted", "accepted", "done"} :
               /\ op' = [op EXCEPT ![x].stage = s]
               /\ s # "aborted" => Authorized(x)
        BY <2>5 DEF ReplaceReserved, OperatorAccepts, SpendReceipt, Authorized
      <3> QED
        BY <2>2, <3>1 DEF OpStages
    <2>6. ASSUME WorldActs,
                 ~(\E x \in Ops : ReplaceReserved(x) \/ OperatorAccepts(x) \/ SpendReceipt(x))
          PROVE  UNCHANGED op
      BY <2>6 DEF WorldActs, Expire, SolverClaims, OperatorServes, OpUnchanged
    <2> QED
      BY <2>1, <2>3, <2>4, <2>5, <2>6, NextParts
  <1>2. PICK p \in Pages : authorizeReservedVtxoSpend(p) /\ mine[p] = o
    BY <1>1
  <1>3. pc[p] = "send" /\ op[o] \in Operation
    BY <1>a, <1>2 DEF authorizeReservedVtxoSpend
  <1>5. quote[p] = 0 => op'[o].plain
    BY <1>a, <1>2, <1>3 DEF authorizeReservedVtxoSpend, Operation
  <1>4. quote[p] # 0 /\ op[o].quote = quote[p]
    BY <1>a, <1>2, <1>3, <1>5 DEF Operation, WorkingBy, Ops
  <1> QED
    BY <1>a, <1>2, <1>3, <1>4 DEF FoundBy

(* Each record moves, or stays in a step that leaves the records alone. *)
LEMMA EachMoves ==
    ASSUME Base, Next, NEW q \in Quotes
    PROVE  /\ RecordMove(q)
           /\ \/ swap'[q] = swap[q]
              \/ UNCHANGED <<op, out, file>>
  BY SwapStep DEF RecordsMove, RecordMove, Stays

(* What was not sent as a plain payment never was.                         *)
LEMMA SentBefore ==
    ASSUME Base, Next, NEW q \in Quotes, SentAsLightning(q)'
    PROVE  SentAsLightning(q)
  BY OpsStep DEF OpsGrow, SentAsLightning, Payments, Quotes

(* The transaction of a label stays with the Operator. *)
LEMMA LabelsGrow ==
    ASSUME Base, Next, NEW q \in Quotes, NEW r \in SwapRecord, Labels(q, r)
    PROVE  r.txid # 0 =>
             /\ r.funding = "funding" /\ op'[r.txid].stage \in {"accepted", "done"}
             /\ SentAsLightning(q)' => r.txid = r.proof
  BY OpsStep, SentBefore, NullAssumption DEF OpsGrow, Labels, SwapRecord

(* What the invariants say of one quote. *)
LEMMA KeptFacts ==
    ASSUME Base, Kept, NEW q \in Quotes
    PROVE  /\ swap[q] \in SwapRecord \cup {NoRecord} /\ file[q] \in SwapRecord \cup {NoRecord}
           /\ NoRecord \notin SwapRecord
           /\ \A o \in Ops : op[o].stage \in {"accepted", "done"} => Authorized(o)
           /\ Labels(q, swap[q]) /\ Labels(q, file[q])
           /\ Funds(q, swap[q]) /\ Funds(q, file[q])
           /\ swap[q] # NoRecord /\ file[q] # NoRecord => file[q].proof \in {0, swap[q].proof}
           /\ q \in receipt => file[q] # NoRecord /\ file[q].txid # 0
           /\ q \in receipt /\ swap[q] # NoRecord => swap[q].txid # 0
           /\ q > asked => swap[q] = NoRecord /\ file[q] = NoRecord /\ q \notin receipt
  BY NullAssumption
     DEF Base, TypeOK, Authorized, Kept, Labelling, Filing, Funding, RetiredIsOver, Retired, Asked

(* Every step keeps the labels of the records. *)
LEMMA LabellingKeeps ==
    ASSUME Base, Kept, Next
    PROVE  Labelling'
  <1>2. ASSUME NEW q \in Quotes PROVE Labels(q, swap[q])'
    <2>a. /\ swap[q] \in SwapRecord \cup {NoRecord} /\ file[q] \in SwapRecord \cup {NoRecord}
          /\ Labels(q, swap[q]) /\ Labels(q, file[q])
      BY KeptFacts
    <2>1. CASE Stays(q)
      <3>1. CASE swap'[q] = swap[q]
        BY <2>a, <3>1, LabelsGrow DEF Labels
      <3>2. CASE swap'[q] # swap[q]
        BY <2>a, <2>1, <3>2, LabelsGrow DEF Labels, Stays
      <3> QED
        BY <3>1, <3>2
    <2>2. CASE Begins(q) \/ IsFunded(q)
      BY <2>2 DEF Begins, IsFunded, Labels
    <2>3. CASE IsLabelled(q)
      <3>1. PICK o \in Ops : o = swap'[q].txid
        BY <2>3 DEF IsLabelled
      <3>2. /\ op[o].stage \in {"accepted", "done"} /\ op[o].quote = q /\ swap[q] # NoRecord
            /\ swap'[q].funding = "funding" /\ swap'[q].proof = swap[q].proof
        BY <2>3, <3>1 DEF IsLabelled, Base, Outputs
      <3>3. SentAsLightning(q)' => swap[q].proof = o
        <4> SUFFICES ASSUME SentAsLightning(q)' PROVE swap[q].proof = o
          OBVIOUS
        <4>1. ~op[o].plain
          BY <3>2, SentBefore DEF SentAsLightning, Payments
        <4> QED
          BY <3>2, <4>1 DEF Kept, Naming, Named, Authorized
      <3>4. op'[o].stage \in {"accepted", "done"}
        BY <3>2, OpsStep DEF OpsGrow
      <3> QED
        BY <3>1, <3>2, <3>3, <3>4 DEF Labels
    <2>4. CASE IsAbandoned(q) \/ IsRetired(q)
      BY <2>4 DEF IsAbandoned, IsRetired, Labels
    <2>5. CASE IsRestored(q)
      BY <2>a, <2>5, LabelsGrow DEF IsRestored, Labels
    <2> QED
      BY <2>1, <2>2, <2>3, <2>4, <2>5, EachMoves DEF RecordMove
  <1>3. ASSUME NEW q \in Quotes PROVE Labels(q, file[q])'
    <2>1. /\ swap[q] \in SwapRecord \cup {NoRecord} /\ file[q] \in SwapRecord \cup {NoRecord}
          /\ Labels(q, swap[q]) /\ Labels(q, file[q]) /\ file'[q] \in {swap[q], file[q]}
      BY KeptFacts, FileStep
    <2> QED
      BY <2>1, LabelsGrow DEF Labels
  <1> QED
    BY <1>2, <1>3 DEF Labelling

(* A record and its copy in the file stay of one funding.                  *)
LEMMA FilingKeeps ==
    ASSUME Base, Kept, Next
    PROVE  Filing'
  <1> SUFFICES ASSUME NEW q \in Quotes, swap'[q] # NoRecord, file'[q] # NoRecord
               PROVE  file'[q].proof \in {0, swap'[q].proof}
    BY DEF Filing
  <1>a. /\ Funds(q, swap[q]) /\ Funds(q, file[q]) /\ file'[q] \in {swap[q], file[q]}
        /\ swap[q] # NoRecord /\ file[q] # NoRecord => file[q].proof \in {0, swap[q].proof}
        /\ swap[q] = NoRecord => file'[q] = file[q]
    BY KeptFacts, FileStep
  <1>1. CASE swap'[q] = swap[q]
    BY <1>a, <1>1
  <1>2. CASE swap'[q] # swap[q]
    <2>1. file'[q] = file[q]
      BY <1>2, EachMoves
    <2>2. CASE Stays(q) \/ IsLabelled(q)
      BY <1>a, <1>2, <2>1, <2>2 DEF Stays, IsLabelled
    <2>3. CASE IsFunded(q)
      BY <1>a, <2>1, <2>3 DEF IsFunded, Funds
    <2>4. CASE Begins(q)
      <3>1. q > asked
        BY <2>4 DEF Begins, Base, TypeOK
      <3> QED
        BY <2>1, <3>1, KeptFacts
    <2>5. CASE IsRestored(q)
      BY <2>1, <2>5 DEF IsRestored
    <2>6. CASE IsAbandoned(q) \/ IsRetired(q)
      BY <2>6 DEF IsAbandoned, IsRetired
    <2> QED
      BY <2>2, <2>3, <2>4, <2>5, <2>6, EachMoves DEF RecordMove
  <1> QED
    BY <1>1, <1>2

(* A retired record is the one in the file, named for one operation. *)
LEMMA RetiresFiled ==
    ASSUME Base, Kept, NEW q \in Quotes, acknowledgeVaultLightningRecoveryLocked(q)
    PROVE  /\ swap[q] # NoRecord /\ swap[q].txid # 0
           /\ SentAsLightning(q) => swap[q].txid = swap[q].proof
           /\ file[q] # NoRecord /\ file[q].txid = swap[q].txid /\ file[q].proof = swap[q].proof
           /\ op[swap[q].txid].stage \in {"accepted", "done"}
           /\ q \in receipt' /\ UNCHANGED <<op, out, file>>
           /\ swap'[q] \in {swap[q], NoRecord}
           /\ \A o \in Ops : op[o].quote = q => out[o] # "held"
  <1>1. /\ swap[q] # NoRecord /\ swap[q].txid # 0 /\ q \in receipt'
        /\ file[q] # NoRecord /\ file[q].txid = swap[q].txid /\ UNCHANGED <<op, out, file>>
        /\ \A o \in Ops : op[o].quote = q => out[o] # "held"
    BY DEF acknowledgeVaultLightningRecoveryLocked, Stored, Filed, lockupOutpointsAreConsumed,
           Payments, world
  <1>2. swap'[q] \in {swap[q], NoRecord}
    BY DEF acknowledgeVaultLightningRecoveryLocked, Base, TypeOK
  <1>3. /\ Labels(q, swap[q]) /\ Labels(q, file[q]) /\ Funds(q, file[q])
        /\ file[q].proof \in {0, swap[q].proof}
    BY <1>1, KeptFacts
  <1> QED
    BY <1>1, <1>2, <1>3 DEF Labels, Funds

(* What is authorized as a Lightning payment stays named by the record of  *)
(* its quote, or by the file when that is retired.                         *)
LEMMA NamingKeeps ==
    ASSUME Base, Kept, Next
    PROVE  Naming'
  <1> SUFFICES ASSUME NEW o \in Ops, Authorized(o)', ~op'[o].plain PROVE Named(o)'
    BY DEF Naming
  <1>a. 0 \notin Ops /\ op \in [Ops -> Operation]
    BY DEF Ops, Base, TypeOK
  <1>1. CASE ~Authorized(o)
    <2>1. PICK q \in Quotes : q = op[o].quote /\ swap[q] # NoRecord /\ swap[q].proof = o
      BY <1>1, AuthorizedWhen
    <2>2. op'[o].quote = q
      BY <2>1, OpsStep DEF OpsGrow, Quotes
    <2>3. UNCHANGED swap
      BY <1>1, OpsStep DEF Authorized
    <2> QED
      BY <2>1, <2>2, <2>3 DEF Named
  <1>2. CASE Authorized(o)
    <2>1. op[o].quote # 0
      BY <1>2 DEF Authorized, Base, Working
    <2>2. PICK q \in Quotes : q = op[o].quote
      BY <1>a, <2>1 DEF Operation, Unused
    <2>3. op'[o].quote = q
      BY <2>1, <2>2, OpsStep DEF OpsGrow
    <2>4. /\ swap[q] # NoRecord => swap[q].proof = o
          /\ swap[q] = NoRecord => q \in receipt /\ file[q] # NoRecord /\ file[q].proof = o
      BY <1>2, <2>2, OpsStep DEF Kept, Naming, Named, OpsGrow
    <2>5. q \in receipt => q \in receipt'
      BY FileStep
    <2>6. swap[q] = NoRecord => file'[q] = file[q]
      BY FileStep
    <2>7. /\ Funds(q, swap[q]) /\ ~Begins(q)
      BY <2>4, KeptFacts DEF Begins, Base, TypeOK
    <2>8. CASE swap[q] # NoRecord
      <3>1. swap[q].funding # "quoted"
        BY <1>a, <2>4, <2>7, <2>8 DEF Funds
      <3>2. CASE Stays(q) \/ IsLabelled(q)
        <4>1. swap'[q] # NoRecord /\ swap'[q].proof = o
          BY <2>4, <2>8, <3>2, NullAssumption DEF Stays, IsLabelled
        <4> QED
          BY <2>3, <4>1 DEF Named
      <3>3. CASE IsRetired(q)
        <4>1. swap'[q] = NoRecord /\ q \in receipt' /\ file'[q] # NoRecord /\ file'[q].proof = o
          BY <2>4, <2>8, <3>3, RetiresFiled DEF IsRetired
        <4> QED
          BY <2>3, <4>1 DEF Named
      <3> QED
        BY <2>7, <2>8, <3>1, <3>2, <3>3, EachMoves
           DEF RecordMove, IsFunded, IsAbandoned, IsRestored
    <2>9. CASE swap[q] = NoRecord
      <3>1. q \in receipt' /\ file'[q] # NoRecord /\ file'[q].proof = o
        BY <2>4, <2>5, <2>6, <2>9
      <3>2. swap'[q] \in {NoRecord, file[q]}
        BY <2>7, <2>9, EachMoves
           DEF RecordMove, Stays, IsFunded, IsLabelled, IsAbandoned, IsRestored, IsRetired
      <3> QED
        BY <2>3, <2>4, <2>9, <3>1, <3>2 DEF Named
    <2> QED
      BY <2>8, <2>9
  <1> QED
    BY <1>1, <1>2

(* A retired quote is labelled, in the file and in any copy that is left.  *)
LEMMA RetiredKeeps ==
    ASSUME Base, Kept, Next, NEW q \in Quotes, q \in receipt'
    PROVE  /\ file'[q] # NoRecord /\ file'[q].txid # 0
           /\ swap'[q] # NoRecord => swap'[q].txid # 0
  <1>1. CASE q \in receipt
    <2>1. /\ file[q] # NoRecord /\ file[q].txid # 0 /\ Labels(q, swap[q]) /\ Funds(q, swap[q])
          /\ swap[q] # NoRecord => swap[q].txid # 0
          /\ ~Begins(q)
      BY <1>1, KeptFacts DEF Begins, Base, TypeOK
    <2>2. file'[q] # NoRecord /\ file'[q].txid # 0
      BY <2>1, FileStep
    <2>3. swap[q] # NoRecord => swap[q].funding # "quoted"
      BY <2>1 DEF Labels, Funds
    <2>4. CASE IsLabelled(q)
      BY <2>2, <2>4 DEF IsLabelled, Ops
    <2>5. CASE Stays(q) \/ IsRestored(q) \/ IsRetired(q)
      BY <2>1, <2>2, <2>5 DEF Stays, IsRestored, IsRetired
    <2> QED
      BY <2>1, <2>3, <2>4, <2>5, EachMoves DEF RecordMove, IsFunded, IsAbandoned
  <1>2. CASE q \notin receipt
    <2>1. acknowledgeVaultLightningRecoveryLocked(q)
      BY <1>2, FileStep
    <2> QED
      BY <2>1, RetiresFiled
  <1> QED
    BY <1>1, <1>2

(* A retired payment stays over: what is authorized for its quote was      *)
(* accepted before, and its output is spent.                               *)
LEMMA OverKeeps ==
    ASSUME Base, Kept, Next
    PROVE  RetiredIsOver'
  <1> SUFFICES ASSUME NEW q \in Quotes, q \in receipt', SentAsLightning(q)',
                      NEW o \in Ops, op'[o].quote = q, Authorized(o)'
               PROVE  out'[o] \in {"claimed", "returned"}
    BY RetiredKeeps, FileStep DEF RetiredIsOver, Payments, Stored
  <1>a. /\ out \in [Ops -> {"none", "held", "claimed", "returned"}]
        /\ op \in [Ops -> Operation] /\ 0 \notin Quotes
        /\ SentAsLightning(q) /\ ~op'[o].plain
    BY SentBefore DEF Base, TypeOK, Quotes, SentAsLightning, Payments
  <1>1. Authorized(o)
    <2> SUFFICES ASSUME ~Authorized(o) PROVE FALSE
      OBVIOUS
    <2>1. swap[op[o].quote] # NoRecord /\ swap[op[o].quote].proof = o /\ op[o].quote \in Quotes
      BY <1>a, AuthorizedWhen
    <2>2. op[o].quote = q
      BY <1>a, <2>1, OpsStep DEF OpsGrow
    <2>3. op' # op
      BY DEF Authorized
    <2>4. q \in receipt
      BY <2>3, FileStep
    <2>5. swap[q].txid # 0 /\ Labels(q, swap[q])
      BY <2>1, <2>2, <2>4, KeptFacts
    <2> QED
      BY <1>a, <2>1, <2>2, <2>5 DEF Labels, Authorized
  <1>2. op[o].quote = q
    <2>1. op[o].quote # 0
      BY <1>1 DEF Authorized, Base, Working
    <2> QED
      BY <2>1, OpsStep DEF OpsGrow
  <1>3. CASE q \in receipt
    <2>1. out[o] \in {"claimed", "returned"}
      BY <1>a, <1>1, <1>2, <1>3 DEF Kept, RetiredIsOver, Payments
    <2>2. out[o] # "none"
      BY <2>1
    <2>3. op[o].stage \in {"accepted", "done"}
      BY <2>2 DEF Base, Outputs
    <2> QED
      BY <2>1, <2>3, OutputsKeep DEF OutGrows
  <1>4. CASE q \notin receipt
    <2>1. acknowledgeVaultLightningRecoveryLocked(q)
      BY <1>4, FileStep
    <2>2. swap[q].proof = o
      <3>1. ~op[o].plain
        BY <1>a, <1>2 DEF SentAsLightning, Payments
      <3> QED
        BY <1>1, <1>2, <2>1, <3>1, RetiresFiled DEF Kept, Naming, Named
    <2>3. /\ out' = out /\ out[o] # "held" /\ swap[q].txid = o
          /\ swap[q] # NoRecord /\ swap[q].txid # 0
      BY <1>a, <1>2, <2>1, <2>2, RetiresFiled
    <2>4. op[o].stage \in {"accepted", "done"}
      BY <2>1, <2>3, RetiresFiled
    <2> QED
      BY <1>a, <2>3, <2>4 DEF Base, Outputs
  <1> QED
    BY <1>3, <1>4

-------------------------------------------------------------------------------
(* The invariant *)

(* It holds at first ... *)
LEMMA InitIInv == Init => IInv
  <1> SUFFICES ASSUME Init PROVE IInv
    OBVIOUS
  <1>a. /\ MaxCrashes \in Nat /\ MaxQuotes \in Nat
        /\ NoAttempt \in RefundAttempt /\ NoAttempt.build = 0
        /\ ~NoAttempt.server /\ ~NoAttempt.finals /\ 0 \notin Quotes /\ 0 \notin Ops
    BY BoundAssumption DEF RefundAttempt, NoAttempt, Quotes, Ops
  <1>1. TypeOK
    BY <1>a DEF Init, TypeOK, Operation, Unused, OpStages, Places
  <1>2. Locked /\ Working
    BY NullAssumption DEF Init, Locked, Working, Unused, Paying, Refunding
  <1>3. Funding /\ Scanned /\ \A p \in Pages : FoundBy(p)
    BY DEF Init, Funding, Funds, Scanned, FoundBy, Refunding
  <1>4. Replayed
    BY <1>a DEF Init, Replayed
  <1>5. Outputs /\ Asked
    BY <1>a DEF Init, Outputs, Asked, Unused
  <1>6. Kept
    BY DEF Init, Unused, Kept, Labelling, Labels, Filing, Naming, Authorized, Retired,
           RetiredIsOver
  <1> QED
    BY <1>1, <1>2, <1>3, <1>4, <1>5, <1>6 DEF IInv, Base

(* Every step keeps the types. *)
LEMMA TypesKeep ==
    ASSUME Base, Next
    PROVE  TypeOK'
  <1>1. PlaceTyped'
    BY PageTyped, OthersTyped, NextParts
  <1>2. swap' \in [Quotes -> SwapRecord \cup {NoRecord}]
    BY SwapStep DEF RecordsMove, Base, TypeOK
  <1> QED
    BY <1>1, <1>2, FileStep, OpsStep, OutputsKeep, ReplayedKeeps
       DEF TypeOK, PlaceTyped, OpsGrow, OutGrows, RefundTyped

(* ... and every step keeps it. *)
LEMMA NextIInv == IInv /\ [Next]_vars => IInv'
  <1> SUFFICES ASSUME IInv, [Next]_vars PROVE IInv'
    OBVIOUS
  <1>1. CASE Next
    <2>a. Base
      BY DEF IInv
    <2>1. TypeOK' /\ Locked' /\ Working' /\ Funding'
      BY <1>1, <2>a, TypesKeep, LockedKeeps, WorkingKeeps, FundingKeeps
    <2>2. Replayed' /\ Outputs' /\ Asked' /\ Scanned' /\ \A p \in Pages : FoundBy(p)'
      BY <1>1, <2>a, ReplayedKeeps, OutputsKeep, AskedKeeps, ScannedKeeps, FoundKeeps
    <2>3. Base'
      BY <2>1, <2>2 DEF Base
    <2>4. Kept'
      <3>1. Kept
        BY DEF IInv
      <3>2. Labelling' /\ Filing' /\ Naming' /\ RetiredIsOver'
        BY <1>1, <2>a, <3>1, LabellingKeeps, FilingKeeps, NamingKeeps, OverKeeps
      <3>3. Retired'
        <4>1. receipt' \subseteq Quotes
          BY <1>1, <2>a, FileStep
        <4> QED
          BY <1>1, <2>a, <3>1, <4>1, RetiredKeeps DEF Retired
      <3> QED
        BY <3>2, <3>3 DEF Kept
    <2> QED
      BY <2>3, <2>4 DEF IInv
  <1>2. CASE UNCHANGED vars
    <2>1. /\ TypeOK' <=> TypeOK
          /\ Locked' <=> Locked
          /\ Working' <=> Working
      BY <1>2 DEF vars, TypeOK, Locked, Working, Authorized
    <2>2. /\ Funding' <=> Funding
          /\ Replayed' <=> Replayed
          /\ Outputs' <=> Outputs
          /\ Asked' <=> Asked
          /\ Scanned' <=> Scanned
      BY <1>2 DEF vars, Funding, Funds, Replayed, Outputs, Asked, Scanned
    <2>3. \A p \in Pages : FoundBy(p)' <=> FoundBy(p)
      BY <1>2 DEF vars, FoundBy
    <2>4. /\ Labelling' <=> Labelling
          /\ Filing' <=> Filing
          /\ Naming' <=> Naming
          /\ Retired' <=> Retired
          /\ RetiredIsOver' <=> RetiredIsOver
      BY <1>2 DEF vars, Labelling, Labels, Filing, Naming, Named, Authorized, Retired,
                  RetiredIsOver, SentAsLightning, Payments
    <2> QED
      BY <2>1, <2>2, <2>3, <2>4 DEF IInv, Base, Kept
  <1> QED
    BY <1>1, <1>2

(* The inductive invariant holds in every reachable state. *)
THEOREM Invariant == Spec => []IInv
  BY InitIInv, NextIInv, PTL DEF Spec

(* The type invariant. *)
THEOREM TypeCorrect == Spec => []TypeOK
  <1>1. IInv => TypeOK
    BY DEF IInv, Base
  <1> QED
    BY <1>1, Invariant, PTL

(* The Operator only ever sees one refund transaction of a quote, and what *)
(* it took is what is stored: a page that dies between the storing and the *)
(* answer, and another that goes on, replay the same bytes.                *)
THEOREM OneRefund == Spec => []RefundReplays
  <1>1. IInv => RefundReplays
    <2> SUFFICES ASSUME IInv, NEW q \in Quotes
                 PROVE  /\ Cardinality(operator[q].saw) <= 1
                        /\ operator[q].taken # 0 => attempt[q].build = operator[q].taken
      BY DEF RefundReplays
    <2>1. /\ operator[q].saw \subseteq {attempt[q].build}
          /\ operator[q].taken \in operator[q].saw \cup {0}
      BY DEF IInv, Base, Replayed
    <2>2. IsFiniteSet({attempt[q].build}) /\ Cardinality({attempt[q].build}) = 1
      BY FS_Singleton
    <2>3. Cardinality(operator[q].saw) <= 1
      BY <2>1, <2>2, FS_Subset
    <2> QED
      BY <2>1, <2>3
  <1> QED
    BY <1>1, Invariant, PTL

(* Money that a Lightning payment may send to a lockup is named by its     *)
(* record until the record is retired, though others may open the payment  *)
(* again without the record.                                               *)
THEOREM FundingIsRecorded == Spec => []LockupIsRecorded
  <1>1. IInv => LockupIsRecorded
    <2> SUFFICES ASSUME IInv, NEW o \in Ops, Authorized(o), ~op[o].plain,
                        op[o].quote \notin receipt
                 PROVE  o \in {swap[q].proof : q \in {r \in Stored : swap[r].funding = "funding"}}
      BY DEF LockupIsRecorded
    <2>1. op[o].quote \in Quotes
      BY DEF Authorized, IInv, Base, TypeOK, Operation, Working
    <2>2. PICK q \in Quotes : q = op[o].quote
      BY <2>1
    <2>3. swap[q] # NoRecord /\ swap[q].proof = o
      BY <2>2 DEF IInv, Kept, Naming, Named
    <2>4. swap[q].funding = "funding"
      BY <2>3 DEF IInv, Base, TypeOK, SwapRecord, Funding, Funds, Ops
    <2> QED
      BY <2>3, <2>4 DEF Stored
  <1> QED
    BY <1>1, Invariant, PTL

(* One Spending operation pays a quote as a Lightning payment, however     *)
(* often its review is repeated, resumed or approved, and whatever was     *)
(* sent to its lockup as a plain payment.                                  *)
THEOREM OneFunding == Spec => []QuoteFundedOnce
  <1>1. IInv => QuoteFundedOnce
    BY DEF IInv, Kept, Naming, Named, QuoteFundedOnce
  <1> QED
    BY <1>1, Invariant, PTL

(* The file knows every retired payment; and it is over, unless a payment  *)
(* to its lockup was sent without the record.                              *)
THEOREM RetiredStaysOver == Spec => []RetiredIsOver
  <1>1. IInv => RetiredIsOver
    BY DEF IInv, Kept
  <1> QED
    BY <1>1, Invariant, PTL
===============================================================================
