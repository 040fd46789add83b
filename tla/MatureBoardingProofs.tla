------------------------- MODULE MatureBoardingProofs -------------------------
(* Proofs about MatureBoarding, for any pages, deposits, sweeps and faults. *)
EXTENDS MatureBoarding, TLAPS

(* Steps of a command that holds the recovery lock, of one that works on   *)
(* the journaled attempt, and of an acknowledgement.                       *)
Inside == {"inspect", "confirm", "conflict", "dispatch", "broadcast", "uncertain", "unlock",
           "retain", "check", "evidence", "reload", "compare", "retire"}
OnAttempt == Inside \ {"unlock", "retain"}
Acknowledging == {"captured", "check", "evidence", "reload", "compare", "retire"}
Evidenced == {"reload", "compare", "retire"}

Carries(k, tx) == k # Nothing /\ k.mature # Nothing /\ k.mature.tx = tx

Locked ==
    \A p \in Pages :
        /\ page[p].step \in Inside => lock = p
        /\ page[p].step = "capture" => capturing = p /\ page[p].known # Nothing

(* The attempt a command works on is the journaled one, and what it saw of *)
(* the sweep still holds.                                                  *)
Works(p) ==
    /\ page[p].step \in OnAttempt =>
          page[p].copy \in Attempt /\ live # Nothing /\ live.tx = page[p].copy.tx
    /\ page[p].step \in {"broadcast", "uncertain"} => live.phase # "signed"
    /\ page[p].step = "confirm" => status[page[p].copy.tx] = "confirmed"
    /\ page[p].step = "retain" => page[p].copy \in Attempt /\ page[p].copy.tx \in signed
Working == \A p \in Pages : Works(p)

(* What the chain confirmed stays: nothing it holds is in conflict with it.*)
Final == \A t \in Txs : status[t] = "confirmed" => \A u \in Rivalled(t) : status[u] = "absent"

(* The journal, the saved file and the captured ones hold signed sweeps.   *)
Witnessed ==
    /\ journal # Nothing => journal.tx \in signed
    /\ journal # Nothing /\ journal.phase = "confirmed" => status[journal.tx] = "confirmed"
    /\ saved # Nothing =>
          /\ saved.mature # Nothing /\ saved.mature.tx \in signed
          /\ saved.mature.phase = "dispatched"
    /\ \A p \in Pages, tx \in Sweeps :
          Carries(page[p].known, tx) => journal # Nothing /\ tx \in signed

(* A sweep that is signed and not yet journaled is nowhere else.           *)
Fresh ==
    \A p \in Pages : page[p].step = "retain" =>
        /\ journal # Nothing => journal.tx # page[p].copy.tx
        /\ ~Carries(saved, page[p].copy.tx)
        /\ \A q \in Pages : ~Carries(page[q].known, page[p].copy.tx)

(* A capture that may still replace a file with the attempt holds it too.  *)
Captures ==
    \A p, q \in Pages :
        /\ page[p].step \in Acknowledging /\ page[q].step = "capture"
        /\ live # Nothing /\ Carries(page[p].known, live.tx)
        => Carries(page[q].known, live.tx)

(* Past its first comparison an acknowledgement is backed by the committed *)
(* file, whatever other pages commit.                                      *)
BackedUp ==
    \A p \in Pages : page[p].step \in Evidenced =>
        Carries(file, page[p].copy.tx) /\ Carries(page[p].known, page[p].copy.tx)

(* The committed file with the digest of a page's capture holds what the   *)
(* capture held.                                                           *)
Latest == \A p \in Pages : page[p].latest => file # Nothing /\ file = page[p].known

IInv ==
    /\ TypeOK /\ Locked /\ Working /\ Final /\ Witnessed /\ Fresh /\ Captures /\ BackedUp
    /\ Latest
    /\ SentIsJournaled

-------------------------------------------------------------------------------
(* A step of a command *)

Moved(p) == page' \in [Pages -> Command] /\ \A q \in Pages \ {p} : page'[q] = page[q]

Locks(p) ==
    /\ lock' \in Pages \cup {Nothing} /\ capturing' \in Pages \cup {Nothing}
    /\ \A q \in Pages \ {p} : lock = q => lock' = q
    /\ \A q \in Pages \ {p} : capturing = q => capturing' = q

(* The journal changes only under the recovery lock: the attempt goes on,  *)
(* is retired, or a new one begins.                                        *)
Continues ==
    /\ live # Nothing /\ journal'.phase \in AttemptPhases
    /\ journal'.tx = live.tx /\ allowPhase(live.phase, journal'.phase)
Retires(p) ==
    /\ page[p].step = "retire" /\ live # Nothing /\ live.phase = "confirmed"
    /\ journal' = [journal EXCEPT !.phase = "retired"]
Begins(p) ==
    /\ page[p].step = "retain" /\ live = Nothing
    /\ journal'.tx = page[p].copy.tx /\ journal'.phase = "signed"
Writes(p) ==
    /\ page[p].step \in Inside /\ journal' \in Record
    /\ journal'.phase = "confirmed" => status[journal'.tx] = "confirmed"
    /\ Continues \/ Retires(p) \/ Begins(p)

(* The chain never forgets what it confirmed.                              *)
ChainMoves ==
    /\ status' \in [Txs -> {"absent", "mempool", "confirmed"}]
    /\ \A t \in Txs : status[t] = "confirmed" => status'[t] = "confirmed"
    /\ Final'

Keys(p) ==
    /\ signed \subseteq signed' /\ signed' \subseteq Sweeps
    /\ \/ sent' = sent
       \/ page[p].step = "broadcast" /\ sent' = sent \cup {page[p].copy.tx}

(* Where the command goes is where the invariant allows it to be.          *)
Proper(p) ==
    /\ page'[p].step \in Inside => lock' = p
    /\ page'[p].step \in OnAttempt =>
          page'[p].copy \in Attempt /\ live' # Nothing /\ live'.tx = page'[p].copy.tx
    /\ page'[p].step \in {"broadcast", "uncertain"} => live'.phase # "signed"
    /\ page'[p].step = "confirm" => status[page'[p].copy.tx] = "confirmed"
    /\ page'[p].step = "retain" =>
          page'[p].copy \in Attempt /\ page'[p].copy.tx \in signed' \ signed
          /\ journal' = journal
    /\ page'[p].step \in Acknowledging => page[p].step \in Acknowledging
    /\ page'[p].step = "capture" =>
          capturing' = p /\ page'[p].known = [mature |-> live] /\ journal' = journal
    /\ page'[p].step # "capture" => page'[p].known \in {Nothing, page[p].known}
    /\ page'[p].step \in Acknowledging => page'[p].known = page[p].known
    /\ page'[p].latest => page[p].latest /\ page'[p].known = page[p].known
    /\ page'[p].step \in Evidenced =>
          Carries(file, page'[p].copy.tx) /\ Carries(page'[p].known, page'[p].copy.tx)

CommandStep(p) ==
    /\ Moved(p) /\ Locks(p) /\ Proper(p) /\ ChainMoves /\ Keys(p)
    /\ journal' = journal \/ Writes(p)
    /\ UNCHANGED <<file, saved, matured, faults>>

LEMMA LiveIsAttempt ==
    ASSUME TypeOK
    PROVE  /\ live \in Attempt \cup {Nothing} /\ Nothing \notin Attempt
           /\ live # Nothing => live = journal /\ journal # Nothing
           /\ journal # Nothing /\ journal.phase # "retired" => live = journal
           /\ journal = Nothing => live = Nothing
  BY NullAssumption DEF TypeOK, live, Record, Attempt, AttemptPhases

LEMMA CommandStepTyped ==
    ASSUME IInv, NEW p \in Pages, CommandStep(p)
    PROVE  TypeOK'
  <1>1. page[p].step = "broadcast" => page[p].copy.tx \in signed
    BY LiveIsAttempt DEF IInv, Working, Works, Witnessed, OnAttempt, Inside
  <1>2. sent' \subseteq signed'
    BY <1>1 DEF IInv, TypeOK, CommandStep, Keys
  <1>3. QED
    BY <1>2 DEF IInv, TypeOK, CommandStep, Moved, Locks, ChainMoves, Keys, Writes

(* How the attempt of the journal changes.                                 *)
LEMMA AttemptStep ==
    ASSUME IInv, NEW p \in Pages, CommandStep(p), journal' # journal
    PROVE  /\ lock = p /\ journal' # Nothing /\ journal' \in Record
           /\ \/ /\ live # Nothing /\ live' # Nothing /\ live'.tx = live.tx
                 /\ allowPhase(live.phase, live'.phase) /\ live' = journal'
              \/ /\ live # Nothing /\ live' = Nothing /\ journal'.tx = journal.tx
                 /\ status[journal.tx] = "confirmed" /\ journal'.phase = "retired"
                 /\ page[p].step = "retire"
              \/ /\ live = Nothing /\ live' = journal' /\ live' # Nothing
                 /\ page[p].step = "retain" /\ live'.tx = page[p].copy.tx
                 /\ live'.phase = "signed"
  <1>1. Writes(p) /\ lock = p /\ journal' \in Record /\ journal' # Nothing
    BY NullAssumption DEF CommandStep, Writes, IInv, Locked
  <1>2. TypeOK'
    BY CommandStepTyped
  <1>3. CASE Continues
    BY <1>1, <1>2, <1>3, LiveIsAttempt DEF Continues, live, AttemptPhases
  <1>4. CASE Retires(p)
    BY <1>1, <1>2, <1>4, LiveIsAttempt DEF Retires, live, IInv, Witnessed, TypeOK, Record
  <1>5. CASE Begins(p)
    BY <1>1, <1>2, <1>5, LiveIsAttempt DEF Begins, live
  <1>6. QED
    BY <1>1, <1>3, <1>4, <1>5 DEF Writes

LEMMA CommandStepWorks ==
    ASSUME IInv, NEW p \in Pages, CommandStep(p)
    PROVE  Locked' /\ Working'
  <1>1. Locked'
    <2>1. [mature |-> live] # Nothing
      BY LiveIsAttempt, NullAssumption DEF IInv, File
    <2>2. QED
      BY <2>1 DEF IInv, Locked, CommandStep, Moved, Locks, Proper
  <1>2. ASSUME NEW q \in Pages \ {p}
        PROVE  Works(q)'
    <2>1. page'[q] = page[q] /\ Works(q) /\ TypeOK
      BY DEF CommandStep, Moved, IInv, Working
    <2>2. CASE page[q].step \in Inside
      <3>1. lock # p
        BY <2>2 DEF IInv, Locked
      <3>2. journal' = journal /\ live' = live
        BY <3>1, AttemptStep DEF live
      <3>3. page[q].step = "confirm" => page[q].copy.tx \in Txs
        BY <2>1 DEF Works, OnAttempt, Inside, Attempt, Txs
      <3>4. QED
        BY <2>1, <3>2, <3>3 DEF Works, CommandStep, ChainMoves, Keys
    <2>3. CASE page[q].step \notin Inside
      BY <2>1, <2>3 DEF Works, OnAttempt, Inside
    <2>4. QED
      BY <2>2, <2>3
  <1>3. Works(p)'
    <2>1. page'[p].step = "confirm" => page'[p].copy.tx \in Txs
      BY DEF CommandStep, Proper, OnAttempt, Inside, Attempt, Txs
    <2>2. QED
      BY <2>1 DEF Works, CommandStep, Proper, ChainMoves
  <1>4. QED
    BY <1>1, <1>2, <1>3 DEF Working

LEMMA CommandStepWitnessed ==
    ASSUME IInv, NEW p \in Pages, CommandStep(p)
    PROVE  Witnessed'
  <1> USE DEF CommandStep, IInv
  <1>1. journal' # Nothing => journal'.tx \in signed'
    <2>1. CASE journal' = journal
      BY <2>1 DEF Witnessed, Keys
    <2>2. CASE journal' # journal
      <3>1. journal # Nothing => journal.tx \in signed'
        BY DEF Witnessed, Keys
      <3>2. page[p].step = "retain" => page[p].copy.tx \in signed'
        BY DEF Working, Works, Keys
      <3>3. TypeOK' /\ TypeOK
        BY CommandStepTyped
      <3>4. QED
        BY <2>2, <3>1, <3>2, <3>3, AttemptStep, LiveIsAttempt
    <2>3. QED
      BY <2>1, <2>2
  <1>2. journal' # Nothing /\ journal'.phase = "confirmed" => status'[journal'.tx] = "confirmed"
    <2>1. journal' # Nothing => journal'.tx \in Txs
      BY CommandStepTyped DEF TypeOK, Record, Txs
    <2>2. CASE journal' = journal
      BY <2>1, <2>2 DEF Witnessed, ChainMoves
    <2>3. CASE Writes(p)
      BY <2>1, <2>3, NullAssumption DEF Writes, ChainMoves
    <2>4. QED
      BY <2>2, <2>3
  <1>3. saved' # Nothing =>
          /\ saved'.mature # Nothing /\ saved'.mature.tx \in signed'
          /\ saved'.mature.phase = "dispatched"
    BY DEF Witnessed, Keys
  <1>4. ASSUME NEW q \in Pages, NEW tx \in Sweeps, Carries(page'[q].known, tx)
        PROVE  journal' # Nothing /\ tx \in signed'
    <2>1. journal # Nothing => journal' # Nothing
      BY AttemptStep
    <2>2. CASE Carries(page[q].known, tx)
      BY <2>1, <2>2 DEF Witnessed, Keys
    <2>3. CASE q = p /\ page'[q].known = [mature |-> live]
      <3>1. live # Nothing /\ live.tx = tx
        BY <1>4, <2>3 DEF Carries
      <3>2. QED
        BY <2>1, <3>1, LiveIsAttempt DEF Witnessed, Keys
    <2>4. CASE page'[q].known = Nothing
      BY <1>4, <2>4 DEF Carries
    <2>5. QED
      BY <1>4, <2>2, <2>3, <2>4 DEF Moved, Proper
  <1>5. QED
    BY <1>1, <1>2, <1>3, <1>4 DEF Witnessed

LEMMA CommandStepFresh ==
    ASSUME IInv, NEW p \in Pages, CommandStep(p)
    PROVE  Fresh'
  <1> USE DEF CommandStep, IInv
  <1> SUFFICES ASSUME NEW q \in Pages, page'[q].step = "retain"
               PROVE  /\ journal' # Nothing => journal'.tx # page'[q].copy.tx
                      /\ ~Carries(saved, page'[q].copy.tx)
                      /\ \A r \in Pages : ~Carries(page'[r].known, page'[q].copy.tx)
    BY DEF Fresh, Carries
  <1>0. TypeOK /\ TypeOK' /\ lock' = q
    BY CommandStepTyped, CommandStepWorks DEF Locked, Inside
  <1>1. CASE q = p
    <2>1. page'[p].copy.tx \in Sweeps \ signed
      BY <1>1 DEF Proper, Keys, Attempt
    <2>2. journal' = journal
      BY <1>1 DEF Proper
    <2>3. journal # Nothing => journal.tx # page'[p].copy.tx
      BY <2>1 DEF Witnessed
    <2>4. ASSUME NEW r \in Pages
          PROVE  ~Carries(page'[r].known, page'[p].copy.tx)
      <3>1. ~Carries(page[r].known, page'[p].copy.tx)
        BY <2>1 DEF Witnessed
      <3>2. CASE r # p
        BY <3>1, <3>2 DEF Moved
      <3>3. CASE r = p
        BY <1>1, <3>1, <3>3 DEF Proper, Carries
      <3>4. QED
        BY <3>2, <3>3
    <2>5. ~Carries(saved, page'[p].copy.tx)
      BY <2>1 DEF Witnessed, Carries
    <2>6. QED
      BY <1>1, <2>2, <2>3, <2>4, <2>5
  <1>2. CASE q # p
    <2>1. page'[q] = page[q] /\ page[q].step = "retain" /\ lock = q
      BY <1>2 DEF Moved, Locked, Inside
    <2>2. journal' = journal
      BY <1>2, <2>1, AttemptStep
    <2>3. ASSUME NEW r \in Pages
          PROVE  ~Carries(page'[r].known, page[q].copy.tx)
      <3>1. ~Carries(page[r].known, page[q].copy.tx)
        BY <2>1 DEF Fresh
      <3>2. CASE r # p
        BY <3>1, <3>2 DEF Moved
      <3>3. CASE r = p /\ page'[r].known \in {Nothing, page[r].known}
        BY <3>1, <3>3 DEF Carries
      <3>4. CASE r = p /\ page'[r].known = [mature |-> live]
        BY <2>1, <3>4, LiveIsAttempt DEF Carries, Fresh
      <3>5. QED
        BY <3>2, <3>3, <3>4 DEF Proper
    <2>4. QED
      BY <2>1, <2>2, <2>3 DEF Fresh
  <1>3. QED
    BY <1>1, <1>2

LEMMA CommandStepCaptures ==
    ASSUME IInv, NEW p \in Pages, CommandStep(p)
    PROVE  Captures'
  <1> USE DEF CommandStep, IInv
  <1> SUFFICES ASSUME NEW a \in Pages, NEW b \in Pages,
                      page'[a].step \in Acknowledging, page'[b].step = "capture",
                      live' # Nothing, Carries(page'[a].known, live'.tx)
               PROVE  Carries(page'[b].known, live'.tx)
    BY DEF Captures, Carries
  <1>1. TypeOK /\ TypeOK'
    BY CommandStepTyped
  <1>2. page[a].step \in Acknowledging /\ page'[a].known = page[a].known
    BY DEF Moved, Proper
  <1>3. live # Nothing /\ live'.tx = live.tx
    <2>1. CASE journal' = journal
      BY <2>1 DEF live
    <2>2. CASE journal' # journal
      <3>1. page[p].step = "retain" => ~Carries(page[a].known, page[p].copy.tx)
        BY DEF Fresh
      <3>2. QED
        BY <1>2, <2>2, <3>1, AttemptStep
    <2>3. QED
      BY <2>1, <2>2
  <1>4. CASE b # p
    BY <1>2, <1>3, <1>4 DEF Moved, Captures
  <1>5. CASE b = p
    <2>1. page'[b].known = [mature |-> live]
      BY <1>5 DEF Proper
    <2>2. QED
      BY <1>3, <2>1, NullAssumption, <1>1, LiveIsAttempt DEF Carries, File
  <1>6. QED
    BY <1>4, <1>5

LEMMA CommandStepBackedUp ==
    ASSUME IInv, NEW p \in Pages, CommandStep(p)
    PROVE  BackedUp'
  BY DEF CommandStep, IInv, BackedUp, Moved, Proper, Carries

LEMMA CommandStepLatest ==
    ASSUME IInv, NEW p \in Pages, CommandStep(p)
    PROVE  Latest'
  BY DEF CommandStep, IInv, Latest, Moved, Proper

LEMMA CommandStepSent ==
    ASSUME IInv, NEW p \in Pages, CommandStep(p)
    PROVE  SentIsJournaled'
  <1> USE DEF CommandStep, IInv
  <1> SUFFICES ASSUME NEW s \in sent', status'[s] # "confirmed"
               PROVE  live' # Nothing /\ live'.tx = s /\ live'.phase # "signed"
    BY DEF SentIsJournaled
  <1>1. TypeOK /\ TypeOK'
    BY CommandStepTyped
  <1>2. status[s] # "confirmed"
    BY <1>1 DEF ChainMoves, TypeOK, Txs
  <1>3. live # Nothing /\ live.tx = s /\ live.phase # "signed"
    <2>1. CASE s \in sent
      BY <1>2, <2>1 DEF SentIsJournaled
    <2>2. CASE s = page[p].copy.tx /\ page[p].step = "broadcast"
      BY <2>2 DEF Working, Works, OnAttempt, Inside
    <2>3. QED
      BY <2>1, <2>2 DEF Keys
  <1>4. CASE journal' = journal
    BY <1>3, <1>4 DEF live
  <1>5. CASE journal' # journal
    BY <1>1, <1>2, <1>3, <1>5, AttemptStep, LiveIsAttempt DEF allowPhase
  <1>6. QED
    BY <1>4, <1>5

LEMMA CommandStepSafe ==
    ASSUME IInv, NEW p \in Pages, CommandStep(p)
    PROVE  IInv'
  BY CommandStepTyped, CommandStepWorks, CommandStepWitnessed, CommandStepFresh,
     CommandStepCaptures, CommandStepBackedUp, CommandStepLatest, CommandStepSent
  DEF IInv, CommandStep, ChainMoves
-------------------------------------------------------------------------------
(* The pieces the actions are made of *)

LEMMA GoesMoves ==
    ASSUME TypeOK, NEW p \in Pages, NEW step \in Steps, Goes(p, step)
    PROVE  /\ Moved(p) /\ page'[p].step = step
           /\ page'[p].copy = page[p].copy /\ page'[p].known = page[p].known
           /\ (page'[p].latest => page[p].latest)
  BY DEF TypeOK, Goes, Moved, Command

(* A command that begins, and one that ended.                              *)
LEMMA StartTyped ==
    ASSUME NEW step \in Steps, NEW k \in File \cup {Nothing}
    PROVE  /\ Starts(step, k) \in Command /\ Starts(step, k).step = step
           /\ Starts(step, k).copy = Nothing /\ Starts(step, k).known = k
           /\ ~Starts(step, k).latest
  BY DEF Starts, Command

LEMMA Starting ==
    ASSUME TypeOK, NEW p \in Pages, NEW step \in Steps, NEW k \in File \cup {Nothing},
           page' = [page EXCEPT ![p] = Starts(step, k)]
    PROVE  /\ Moved(p) /\ page'[p].step = step /\ page'[p].copy = Nothing
           /\ page'[p].known = k /\ ~page'[p].latest
  BY StartTyped DEF TypeOK, Moved

LEMMA StepsTo ==
    ASSUME TypeOK, NEW p \in Pages, NEW step \in Steps, NEW r \in Record,
           page' = [page EXCEPT ![p].step = step, ![p].copy = r]
    PROVE  /\ Moved(p) /\ page'[p].step = step /\ page'[p].copy = r
           /\ page'[p].known = page[p].known
           /\ (page'[p].latest => page[p].latest)
  BY DEF TypeOK, Moved, Command

LEMMA EndsMoves ==
    ASSUME TypeOK, NEW p \in Pages, NEW end \in {Idle, Failed}, EndsAs(p, end)
    PROVE  /\ Moved(p) /\ Locks(p)
           /\ page'[p].step \in {"idle", "failed"} /\ page'[p].known = Nothing /\ ~page'[p].latest
  <1>1. PICK step \in {"idle", "failed"} : end = Starts(step, Nothing)
    BY DEF Idle, Failed
  <1>2. page' = [page EXCEPT ![p] = Starts(step, Nothing)] /\ step \in Steps
    BY <1>1 DEF EndsAs, Steps
  <1>3. Moved(p) /\ page'[p].step = step /\ page'[p].known = Nothing /\ ~page'[p].latest
    BY <1>2, Starting
  <1>4. QED
    BY <1>3, NullAssumption DEF TypeOK, EndsAs, Locks

LEMMA LocksKept ==
    ASSUME TypeOK, NEW p \in Pages, UNCHANGED locks
    PROVE  Locks(p)
  BY DEF TypeOK, locks, Locks

LEMMA ChainKept ==
    ASSUME IInv, status' = status
    PROVE  ChainMoves
  BY DEF IInv, TypeOK, ChainMoves, Final, Rivalled

LEMMA KeysKept ==
    ASSUME IInv, NEW p \in Pages, UNCHANGED keys
    PROVE  Keys(p)
  BY DEF IInv, TypeOK, keys, Keys

(* A command that ends, with or without a failure.                         *)
LEMMA Ending ==
    ASSUME IInv, NEW p \in Pages, NEW end \in {Idle, Failed}, EndsAs(p, end),
           UNCHANGED <<store, chain, keys, faults>>
    PROVE  CommandStep(p)
  <1>1. /\ Moved(p) /\ Locks(p)
        /\ page'[p].step \in {"idle", "failed"} /\ page'[p].known = Nothing /\ ~page'[p].latest
    BY EndsMoves DEF IInv
  <1>2. Proper(p)
    BY <1>1 DEF Proper, Inside, OnAttempt, Acknowledging, Evidenced
  <1>3. QED
    BY <1>1, <1>2, ChainKept, KeysKept DEF CommandStep, store, chain

(* persistPhase writes what the journal takes, and the command goes on.    *)
LEMMA PersistsWrites ==
    ASSUME IInv, NEW p \in Pages, NEW phase \in AttemptPhases,
           journal' = [page[p].copy EXCEPT !.phase = phase],
           Persistable([page[p].copy EXCEPT !.phase = phase]),
           page[p].step \in Inside \ {"unlock"},
           phase = "signed" => page[p].step = "retain",
           phase = "confirmed" => status[page[p].copy.tx] = "confirmed"
    PROVE  /\ Writes(p) /\ live' = journal' /\ live' # Nothing /\ live' \in Attempt
           /\ live'.tx = page[p].copy.tx /\ live'.phase = phase
  <1>1. TypeOK /\ page[p].copy \in Attempt /\ page[p] \in Command
    BY DEF IInv, TypeOK, Working, Works, OnAttempt, Inside
  <1>2. /\ journal' \in Attempt /\ journal' \in Record /\ journal' # Nothing
        /\ journal'.tx = page[p].copy.tx /\ journal'.phase = phase
    BY <1>1, NullAssumption DEF Attempt, Record
  <1>3. live' = journal'
    BY <1>2 DEF live, AttemptPhases
  <1>4. CASE live = Nothing
    BY <1>2, <1>3, <1>4 DEF Persistable, Writes, Begins, Inside
  <1>5. CASE live # Nothing
    BY <1>2, <1>3, <1>5 DEF Persistable, Writes, Continues, Inside
  <1>6. QED
    BY <1>2, <1>3, <1>4, <1>5

LEMMA PersistsEnds ==
    ASSUME IInv, NEW p \in Pages, NEW phase \in AttemptPhases, Persists(p, phase, "idle"),
           page[p].step \in Inside \ {"unlock", "retain"}, phase # "signed",
           phase = "confirmed" => status[page[p].copy.tx] = "confirmed",
           UNCHANGED <<file, saved, chain, keys, faults>>
    PROVE  CommandStep(p)
  <1>1. EndsAs(p, Idle)
    BY DEF Persists, Ends
  <1>2. /\ Moved(p) /\ Locks(p)
        /\ page'[p].step \in {"idle", "failed"} /\ page'[p].known = Nothing /\ ~page'[p].latest
    BY <1>1, EndsMoves DEF IInv
  <1>3. Proper(p)
    BY <1>2 DEF Proper, Inside, OnAttempt, Acknowledging, Evidenced
  <1>4. Writes(p)
    BY PersistsWrites DEF Persists
  <1>5. QED
    BY <1>2, <1>3, <1>4, ChainKept, KeysKept DEF CommandStep, chain

LEMMA PersistsGoes ==
    ASSUME IInv, NEW p \in Pages, NEW phase \in AttemptPhases, NEW next \in Steps,
           Persists(p, phase, next), page[p].step \in Inside \ {"unlock"},
           phase = "signed" => page[p].step = "retain",
           phase = "confirmed" => status[page[p].copy.tx] = "confirmed",
           \/ next = "dispatch"
           \/ next = "evidence" /\ page[p].step = "check"
           \/ next = "broadcast" /\ phase = "dispatched",
           UNCHANGED <<file, saved, chain, keys, faults>>
    PROVE  CommandStep(p)
  <1> DEFINE record == [page[p].copy EXCEPT !.phase = phase]
  <1>1. TypeOK /\ lock = p
    BY DEF IInv, Locked
  <1>2. /\ journal' = record /\ page' = [page EXCEPT ![p].copy = record, ![p].step = next]
        /\ UNCHANGED locks
    BY DEF Persists
  <1>3. /\ Writes(p) /\ live' = record /\ live' # Nothing /\ record \in Attempt
        /\ live'.phase = phase
    BY <1>2, PersistsWrites DEF Persists
  <1>4. /\ Moved(p) /\ page'[p].step = next /\ page'[p].copy = record
        /\ page'[p].known = page[p].known
        /\ (page'[p].latest => page[p].latest)
    <2>1. journal' \in Record /\ page[p] \in Command
      BY <1>1, <1>2, <1>3 DEF TypeOK, Attempt, Record
    <2>2. page' = [page EXCEPT ![p].copy = journal', ![p].step = next]
      BY <1>2
    <2>3. Moved(p) /\ page'[p].step = next /\ page'[p].copy = journal'
          /\ page'[p].known = page[p].known
          /\ (page'[p].latest => page[p].latest)
      <3> HIDE DEF record
      <3> QED
        BY <1>1, <2>1, <2>2 DEF TypeOK, Moved, Command
    <2>4. QED
      BY <1>2, <2>3
  <1>5. Proper(p)
    BY <1>1, <1>2, <1>3, <1>4 DEF Proper, Inside, OnAttempt, Acknowledging, Evidenced, locks
  <1>6. QED
    BY <1>1, <1>2, <1>3, <1>4, <1>5, LocksKept, ChainKept, KeysKept DEF CommandStep, chain

(* A command that goes on without writing anything.                        *)
LEMMA Going ==
    ASSUME IInv, NEW p \in Pages, NEW step \in Steps, Goes(p, step), UNCHANGED locks,
           page[p].step \in OnAttempt,
           step \in {"confirm", "conflict", "dispatch", "evidence", "reload", "retire"},
           step = "confirm" => status[page[p].copy.tx] = "confirmed",
           step \in Acknowledging => page[p].step \in Acknowledging,
           step \in Evidenced =>
               Carries(file, page[p].copy.tx) /\ Carries(page[p].known, page[p].copy.tx),
           UNCHANGED <<store, chain, keys, faults>>
    PROVE  CommandStep(p)
  <1>1. TypeOK /\ page[p].step \in Inside
    BY DEF IInv, OnAttempt
  <1>2. /\ Moved(p) /\ page'[p].step = step
        /\ page'[p].copy = page[p].copy /\ page'[p].known = page[p].known
        /\ (page'[p].latest => page[p].latest)
    BY <1>1, GoesMoves
  <1>3. lock' = p /\ live' = live /\ Works(p) /\ journal' = journal
    BY <1>1 DEF IInv, Locked, Working, locks, store, live
  <1>4. Proper(p)
    BY <1>2, <1>3 DEF Proper, Works, Inside, OnAttempt, Acknowledging, Evidenced
  <1>5. QED
    BY <1>1, <1>2, <1>4, LocksKept, ChainKept, KeysKept DEF CommandStep, store, chain
-------------------------------------------------------------------------------
(* The actions of a command *)

LEMMA RecoverSafe ==
    ASSUME IInv, NEW p \in Pages, Recover(p)
    PROVE  CommandStep(p)
  <1> USE DEF Recover
  <1>1. TypeOK /\ page[p] \in Command /\ live' = live
    BY DEF IInv, TypeOK, live, store
  <1>2. lock = Nothing /\ lock' = p /\ capturing' = capturing
    OBVIOUS
  <1>3. CASE live # Nothing
    <2>1. /\ Moved(p) /\ page'[p].step = "inspect" /\ page'[p].copy = live
          /\ page'[p].known = page[p].known
          /\ (page'[p].latest => page[p].latest)
      BY <1>1, <1>3, LiveIsAttempt DEF TypeOK, Moved, Command, Steps, Attempt, Record
    <2>2. Proper(p)
      BY <1>1, <1>2, <1>3, <2>1, LiveIsAttempt
      DEF Proper, Inside, OnAttempt, Acknowledging, Evidenced
    <2>3. QED
      BY <1>1, <1>2, <2>1, <2>2, ChainKept, KeysKept, NullAssumption
      DEF CommandStep, store, chain, Locks, TypeOK
  <1>4. CASE live = Nothing
    <2>1. Moved(p) /\ page'[p].step = "unlock" /\ page'[p].known = Nothing /\ ~page'[p].latest
      BY <1>1, <1>4, Starting DEF Steps
    <2>2. Proper(p)
      BY <1>1, <1>2, <2>1 DEF Proper, Inside, OnAttempt, Acknowledging, Evidenced
    <2>3. QED
      BY <1>1, <1>2, <2>1, <2>2, ChainKept, KeysKept, NullAssumption
      DEF CommandStep, store, chain, Locks, TypeOK
  <1>5. QED
    BY <1>3, <1>4

LEMMA InspectSafe ==
    ASSUME IInv, NEW p \in Pages, inspectAttempt(p)
    PROVE  CommandStep(p)
  <1> USE DEF inspectAttempt, At
  <1>1. page[p].step = "inspect" /\ "inspect" \in OnAttempt
    BY DEF OnAttempt, Inside
  <1>2. CASE Ends(p)
    BY <1>2, Ending DEF Ends
  <1>3. ASSUME UNCHANGED locks,
               \/ status[page[p].copy.tx] = "confirmed" /\ Goes(p, "confirm")
               \/ Goes(p, "dispatch") \/ Goes(p, "conflict")
        PROVE  CommandStep(p)
    BY <1>1, <1>3, Going DEF Steps, Acknowledging, Evidenced
  <1>4. QED
    BY <1>2, <1>3

LEMMA RecordConfirmedSafe ==
    ASSUME IInv, NEW p \in Pages, RecordConfirmed(p)
    PROVE  CommandStep(p)
  <1>1. page[p].step = "confirm" /\ status[page[p].copy.tx] = "confirmed"
    BY DEF RecordConfirmed, At, IInv, Working, Works
  <1>2. QED
    BY <1>1, PersistsEnds DEF RecordConfirmed, AttemptPhases, Steps, Inside

LEMMA RecordConflictSafe ==
    ASSUME IInv, NEW p \in Pages, RecordConflict(p)
    PROVE  CommandStep(p)
  BY PersistsEnds DEF RecordConflict, At, AttemptPhases, Steps, Inside

LEMMA FindSafe ==
    ASSUME IInv, NEW p \in Pages, findMatureBoardingInputs(p)
    PROVE  CommandStep(p)
  <1> USE DEF findMatureBoardingInputs, At
  <1> DEFINE found == {c \in matured : Spenders(c) = {}}
  <1>1. CASE found = {}
    BY <1>1, Ending DEF Ends
  <1>2. CASE found # {}
    <2>1. TypeOK /\ page' = [page EXCEPT ![p].coins = found] /\ UNCHANGED locks
      BY <1>2 DEF IInv
    <2>2. Moved(p) /\ page'[p].step = "unlock" /\ page'[p].known = page[p].known
                   /\ (page'[p].latest => page[p].latest)
      BY <2>1 DEF TypeOK, Moved, Command
    <2>3. lock' = p
      BY <2>1 DEF IInv, Locked, Inside, locks
    <2>4. Proper(p)
      BY <2>2, <2>3 DEF Proper, OnAttempt, Acknowledging, Evidenced
    <2>5. QED
      BY <2>1, <2>2, <2>4, LocksKept, ChainKept, KeysKept DEF CommandStep, store, chain
  <1>3. QED
    BY <1>1, <1>2

LEMMA SignSafe ==
    ASSUME IInv, NEW p \in Pages, SignSweep(p)
    PROVE  CommandStep(p)
  <1> USE DEF SignSweep, At
  <1>1. CASE Candidates(p) = {}
    BY <1>1, Ending DEF Ends, keys
  <1>2. ASSUME NEW s \in Candidates(p),
               signed' = signed \cup {s},
               page' = [page EXCEPT ![p].step = "retain",
                        ![p].copy = [tx |-> s, phase |-> "signed"]],
               UNCHANGED locks
        PROVE  CommandStep(p)
    <2>1. TypeOK /\ s \in Sweeps \ signed
      BY <1>2 DEF IInv, Candidates
    <2>2. /\ Moved(p) /\ page'[p].step = "retain" /\ page'[p].known = page[p].known
          /\ (page'[p].latest => page[p].latest)
          /\ page'[p].copy = [tx |-> s, phase |-> "signed"] /\ page'[p].copy \in Attempt
      <3>1. [tx |-> s, phase |-> "signed"] \in Attempt \cap Record
        BY <2>1 DEF Attempt, AttemptPhases, Record
      <3>2. page[p] \in Command /\ page \in [Pages -> Command] /\ "retain" \in Steps
        BY <2>1 DEF TypeOK, Steps
      <3>3. PICK r : r = [tx |-> s, phase |-> "signed"]
        OBVIOUS
      <3>4. page' = [page EXCEPT ![p].step = "retain", ![p].copy = r] /\ r \in Record
        BY <1>2, <3>1, <3>3
      <3>5. /\ Moved(p) /\ page'[p].step = "retain" /\ page'[p].known = page[p].known
            /\ (page'[p].latest => page[p].latest)
            /\ page'[p].copy = r
        BY <3>2, <3>4 DEF Moved, Command
      <3>6. QED
        BY <3>1, <3>3, <3>5
    <2>3. lock' = p /\ journal' = journal
      BY <1>2 DEF IInv, Locked, Inside, locks, store
    <2>4. Proper(p)
      BY <1>2, <2>1, <2>2, <2>3 DEF Proper, OnAttempt, Acknowledging, Evidenced
    <2>5. Keys(p)
      BY <1>2, <2>1 DEF Keys, TypeOK
    <2>6. QED
      BY <1>2, <2>1, <2>2, <2>4, <2>5, LocksKept, ChainKept DEF CommandStep, store, chain
  <1>3. QED
    BY <1>1, <1>2

LEMMA RetainSafe ==
    ASSUME IInv, NEW p \in Pages, persistSigned(p)
    PROVE  CommandStep(p)
  BY PersistsGoes DEF persistSigned, At, AttemptPhases, Steps, Inside

LEMMA DispatchSafe ==
    ASSUME IInv, NEW p \in Pages, dispatchExact(p)
    PROVE  CommandStep(p)
  BY PersistsGoes DEF dispatchExact, At, AttemptPhases, Steps, Inside

(* A transaction that is not in conflict with a confirmed one can be taken *)
(* by the chain without taking anything confirmed back.                    *)
LEMMA TakesMoves ==
    ASSUME IInv, NEW t \in Txs, NEW state \in {"mempool", "confirmed"}, Takes(t, state),
           status[t] # "confirmed", Spendable(t) \/ status[t] = "mempool"
    PROVE  ChainMoves
  <1>1. /\ status \in [Txs -> {"absent", "mempool", "confirmed"}] /\ Final
    BY DEF IInv, TypeOK
  <1>2. \A u \in Txs : status'[u] = IF u = t THEN state
                                    ELSE IF u \in Rivalled(t) THEN "absent" ELSE status[u]
    BY DEF Takes
  <1>3. \A u, v \in Txs : u \in Rivalled(v) => v \in Rivalled(u)
    BY DEF Rivalled
  <1>4. \A u \in Rivalled(t) : status[u] # "confirmed" /\ u \in Txs
    <2>1. ASSUME NEW u \in Rivalled(t), status[u] = "confirmed"
          PROVE  FALSE
      <3>1. u \in Txs /\ t \in Rivalled(u)
        BY <1>3 DEF Rivalled
      <3>2. QED
        BY <1>1, <2>1, <3>1 DEF Final, Spendable
    <2>2. QED
      BY <2>1 DEF Rivalled
  <1>5. \A u \in Txs : status[u] = "confirmed" => status'[u] = "confirmed"
    BY <1>2, <1>4
  <1>6. Final'
    <2>1. ASSUME NEW u \in Txs, status'[u] = "confirmed", NEW v \in Rivalled(u)
          PROVE  status'[v] = "absent"
      <3>1. v \in Txs /\ v # u
        BY DEF Rivalled
      <3>2. CASE u = t
        BY <1>2, <3>1, <3>2
      <3>3. CASE u # t
        <4>1. u \notin Rivalled(t) /\ status[u] = "confirmed"
          BY <1>2, <2>1, <3>3
        <4>2. v # t
          BY <1>3, <4>1
        <4>3. status[v] = "absent"
          BY <1>1, <4>1 DEF Final
        <4>4. QED
          BY <1>2, <3>1, <4>2, <4>3
      <3>4. QED
        BY <3>2, <3>3
    <2>2. QED
      BY <2>1 DEF Final, Rivalled
  <1>7. status' \in [Txs -> {"absent", "mempool", "confirmed"}]
    BY <1>1 DEF Takes
  <1>8. QED
    BY <1>5, <1>6, <1>7 DEF ChainMoves

LEMMA BroadcastSafe ==
    ASSUME IInv, NEW p \in Pages, Broadcast(p)
    PROVE  CommandStep(p)
  <1> USE DEF Broadcast, At
  <1> DEFINE tx == page[p].copy.tx
  <1>1. /\ TypeOK /\ page[p].step = "broadcast" /\ lock = p /\ journal' = journal
        /\ live' = live /\ page[p].copy \in Attempt /\ live # Nothing /\ live.tx = tx
        /\ live.phase # "signed" /\ tx \in Txs
    BY DEF IInv, Locked, Working, Works, OnAttempt, Inside, store, live, Attempt, Txs
  <1>2. ChainMoves
    <2>1. CASE status' = status
      BY <2>1, ChainKept
    <2>2. CASE status[tx] = "absent" /\ Spendable(tx) /\ Takes(tx, "mempool")
      BY <1>1, <2>2, TakesMoves
    <2>3. QED
      BY <2>1, <2>2
  <1>3. Keys(p)
    BY <1>1 DEF Keys, TypeOK
  <1>4. CASE Ends(p)
    <2>1. /\ Moved(p) /\ Locks(p)
          /\ page'[p].step \in {"idle", "failed"} /\ page'[p].known = Nothing /\ ~page'[p].latest
      BY <1>1, <1>4, EndsMoves DEF Ends
    <2>2. Proper(p)
      BY <2>1 DEF Proper, Inside, OnAttempt, Acknowledging, Evidenced
    <2>3. QED
      BY <1>2, <1>3, <2>1, <2>2 DEF CommandStep, store
  <1>5. CASE Goes(p, "uncertain") /\ UNCHANGED locks
    <2>1. /\ Moved(p) /\ page'[p].step = "uncertain"
          /\ page'[p].copy = page[p].copy /\ page'[p].known = page[p].known
          /\ (page'[p].latest => page[p].latest)
      BY <1>1, <1>5, GoesMoves DEF Steps
    <2>2. Proper(p)
      BY <1>1, <1>5, <2>1 DEF Proper, Inside, OnAttempt, Acknowledging, Evidenced, locks
    <2>3. QED
      BY <1>1, <1>2, <1>3, <1>5, <2>1, <2>2, LocksKept DEF CommandStep, store
  <1>6. QED
    BY <1>4, <1>5

LEMMA UncertainSafe ==
    ASSUME IInv, NEW p \in Pages, RecordUncertain(p)
    PROVE  CommandStep(p)
  <1>1. CASE Persists(p, "uncertain", "idle")
    BY <1>1, PersistsEnds DEF RecordUncertain, At, AttemptPhases, Steps, Inside
  <1>2. CASE Ends(p) /\ UNCHANGED journal
    BY <1>2, Ending DEF RecordUncertain, Ends, store
  <1>3. QED
    BY <1>1, <1>2 DEF RecordUncertain

LEMMA CaptureSafe ==
    ASSUME IInv, NEW p \in Pages, CaptureReads(p)
    PROVE  CommandStep(p)
  <1> USE DEF CaptureReads
  <1>1. TypeOK /\ journal' = journal /\ lock' = lock /\ capturing' = p /\ capturing = Nothing
    BY DEF IInv, store
  <1>2. /\ Moved(p) /\ page'[p].step = "capture" /\ page'[p].known = [mature |-> live]
        /\ ~page'[p].latest
    <2>1. [mature |-> live] \in File
      BY <1>1, LiveIsAttempt DEF File
    <2>2. PICK k \in File : k = [mature |-> live]
      BY <2>1
    <2>3. page' = [page EXCEPT ![p] = Starts("capture", k)] /\ "capture" \in Steps
      BY <2>2 DEF Steps
    <2>4. QED
      BY <1>1, <2>2, <2>3, Starting
  <1>3. Locks(p)
    BY <1>1, NullAssumption DEF Locks, TypeOK
  <1>4. Proper(p)
    BY <1>1, <1>2 DEF Proper, Inside, OnAttempt, Acknowledging, Evidenced
  <1>5. QED
    BY <1>1, <1>2, <1>3, <1>4, ChainKept, KeysKept DEF CommandStep, store, chain

LEMMA AckLoadsSafe ==
    ASSUME IInv, NEW p \in Pages, AckLoads(p)
    PROVE  CommandStep(p)
  <1> USE DEF AckLoads, At
  <1>1. TypeOK /\ journal' = journal /\ live' = live /\ capturing' = capturing
    BY DEF IInv, store, live
  <1>2. Locks(p)
    BY <1>1, NullAssumption DEF Locks, TypeOK
  <1>3. CASE live = Nothing
    <2>1. Moved(p) /\ page'[p].step = "idle" /\ page'[p].known = Nothing /\ ~page'[p].latest
      BY <1>1, <1>3, Starting DEF Steps, Idle
    <2>2. Proper(p)
      BY <2>1 DEF Proper, Inside, OnAttempt, Acknowledging, Evidenced
    <2>3. QED
      BY <1>1, <1>2, <2>1, <2>2, ChainKept, KeysKept DEF CommandStep, store, chain
  <1>4. CASE live # Nothing
    <2>1. /\ Moved(p) /\ page'[p].step = "check" /\ page'[p].copy = live
          /\ page'[p].known = page[p].known
          /\ (page'[p].latest => page[p].latest)
      BY <1>1, <1>4, LiveIsAttempt DEF TypeOK, Moved, Command, Steps, Attempt, Record
    <2>2. Proper(p)
      BY <1>1, <1>4, <2>1, LiveIsAttempt DEF Proper, Inside, OnAttempt, Acknowledging, Evidenced
    <2>3. QED
      BY <1>1, <1>2, <2>1, <2>2, ChainKept, KeysKept DEF CommandStep, store, chain
  <1>5. QED
    BY <1>3, <1>4

LEMMA AckConfirmsSafe ==
    ASSUME IInv, NEW p \in Pages, AckConfirms(p)
    PROVE  CommandStep(p)
  <1> USE DEF AckConfirms, At
  <1>1. CASE Ends(p) /\ UNCHANGED journal
    BY <1>1, Ending DEF Ends, store
  <1>2. CASE Goes(p, "evidence") /\ UNCHANGED <<journal, locks>>
    BY <1>2, Going DEF Steps, Inside, OnAttempt, Acknowledging, Evidenced, store
  <1>3. CASE status[page[p].copy.tx] = "confirmed" /\ Persists(p, "confirmed", "evidence")
    BY <1>3, PersistsGoes DEF AttemptPhases, Steps, Inside
  <1>4. QED
    BY <1>1, <1>2, <1>3

LEMMA AckEvidenceSafe ==
    ASSUME IInv, NEW p \in Pages, AckEvidence(p)
    PROVE  CommandStep(p)
  <1> USE DEF AckEvidence, At
  <1>1. CASE Ends(p)
    BY <1>1, Ending DEF Ends
  <1>2. CASE HoldsSweep(p) /\ page[p].latest /\ Goes(p, "reload") /\ UNCHANGED locks
    <2>1. Carries(file, page[p].copy.tx) /\ Carries(page[p].known, page[p].copy.tx)
      BY <1>2 DEF HoldsSweep, Carries, IInv, Latest
    <2>2. QED
      BY <1>2, <2>1, Going DEF Steps, Inside, OnAttempt, Acknowledging, Evidenced
  <1>3. QED
    BY <1>1, <1>2

LEMMA AckReloadsSafe ==
    ASSUME IInv, NEW p \in Pages, AckReloads(p)
    PROVE  CommandStep(p)
  <1> USE DEF AckReloads, At
  <1>1. CASE Ends(p)
    BY <1>1, Ending DEF Ends
  <1>2. CASE /\ live # Nothing /\ live.tx = page[p].copy.tx
             /\ page' = [page EXCEPT ![p].step = "compare", ![p].copy = live]
             /\ UNCHANGED locks
    <2>1. TypeOK /\ journal' = journal /\ live' = live
      BY DEF IInv, store, live
    <2>2. /\ Moved(p) /\ page'[p].step = "compare" /\ page'[p].copy = live
          /\ page'[p].known = page[p].known
          /\ (page'[p].latest => page[p].latest)
      <3>1. live \in Record
        BY <1>2, <2>1, LiveIsAttempt DEF TypeOK
      <3>2. QED
        BY <1>2, <2>1, <3>1, StepsTo DEF Steps
    <2>3. lock' = p
      BY <1>2 DEF IInv, Locked, Inside, locks
    <2>4. Carries(file, live.tx) /\ Carries(page[p].known, live.tx)
      BY <1>2 DEF IInv, BackedUp, Evidenced
    <2>5. Proper(p)
      BY <1>2, <2>1, <2>2, <2>3, <2>4, LiveIsAttempt
      DEF Proper, Inside, OnAttempt, Acknowledging, Evidenced
    <2>6. QED
      BY <1>2, <2>1, <2>2, <2>5, LocksKept, ChainKept, KeysKept DEF CommandStep, store, chain
  <1>3. QED
    BY <1>1, <1>2

LEMMA AckComparesSafe ==
    ASSUME IInv, NEW p \in Pages, AckCompares(p)
    PROVE  CommandStep(p)
  <1> USE DEF AckCompares, At
  <1>1. CASE Ends(p)
    BY <1>1, Ending DEF Ends
  <1>2. CASE Goes(p, "retire") /\ UNCHANGED locks
    <2>1. Carries(file, page[p].copy.tx) /\ Carries(page[p].known, page[p].copy.tx)
      BY DEF IInv, BackedUp, Evidenced
    <2>2. QED
      BY <1>2, <2>1, Going DEF Steps, Inside, OnAttempt, Acknowledging, Evidenced
  <1>3. QED
    BY <1>1, <1>2

LEMMA RetireSafe ==
    ASSUME IInv, NEW p \in Pages, retireMatureBoardingAttempt(p)
    PROVE  CommandStep(p)
  <1> USE DEF retireMatureBoardingAttempt, At
  <1>1. TypeOK /\ EndsAs(p, Idle) /\ page[p].step = "retire"
    BY DEF IInv, Ends
  <1>2. CASE journal' = journal
    BY <1>1, <1>2, Ending DEF store
  <1>3. CASE live # Nothing /\ live.phase = "confirmed"
             /\ journal' = [live EXCEPT !.phase = "retired"]
    <2>1. /\ Moved(p) /\ Locks(p)
          /\ page'[p].step \in {"idle", "failed"} /\ page'[p].known = Nothing /\ ~page'[p].latest
      BY <1>1, EndsMoves
    <2>2. Proper(p)
      BY <2>1 DEF Proper, Inside, OnAttempt, Acknowledging, Evidenced
    <2>3. live = journal /\ live \in Attempt
      BY <1>1, <1>3, LiveIsAttempt
    <2>4. Writes(p)
      BY <1>1, <1>3, <2>3 DEF Writes, Retires, Inside, Attempt, Record
    <2>5. QED
      BY <2>1, <2>2, <2>4, ChainKept, KeysKept DEF CommandStep, chain
  <1>4. QED
    BY <1>2, <1>3

LEMMA StopsSafe ==
    ASSUME IInv, NEW p \in Pages, Refused(p) \/ Fails(p)
    PROVE  CommandStep(p)
  BY Ending DEF Refused, Fails, Ends

-------------------------------------------------------------------------------
(* The other steps *)

(* The committed file is replaced: an acknowledgement that compared it is  *)
(* of an attempt that the new file holds too.                              *)
LEMMA CommitSafe ==
    ASSUME IInv, NEW p \in Pages, CaptureCommits(p)
    PROVE  IInv'
  <1> USE DEF At, IInv
  <1>0. PICK same \in SUBSET Repeats(p) : CommitsAs(p, same)
    BY DEF CaptureCommits
  <1>1. /\ page[p].step = "capture" /\ capturing = p /\ file' = page[p].known
        /\ UNCHANGED <<journal, saved, lock, chain, keys, faults>> /\ capturing' = Nothing
    BY <1>0 DEF CommitsAs, Locked
  <1>2. \A q \in Pages : page[q].step = "capture" => q = p
    BY <1>1 DEF Locked
  <1>3. /\ page' \in [Pages -> Command] /\ page'[p].step = "captured"
        /\ \A q \in Pages : /\ page'[q].copy = page[q].copy /\ page'[q].known = page[q].known
                            /\ q # p => page'[q].step = page[q].step
    <2> DEFINE new(q) == IF q = p THEN [page[q] EXCEPT !.step = "captured", !.latest = TRUE]
                         ELSE [page[q] EXCEPT !.latest = q \in same]
    <2>1. page' = [q \in Pages |-> new(q)]
      BY <1>0 DEF CommitsAs
    <2>2. \A q \in Pages : /\ new(q) \in Command /\ new(q).copy = page[q].copy
                           /\ new(q).known = page[q].known
                           /\ new(q).step = IF q = p THEN "captured" ELSE page[q].step
      <3>1. "captured" \in Steps /\ new(p) = [page[p] EXCEPT !.step = "captured", !.latest = TRUE]
        BY DEF Steps
      <3>2. \A q \in Pages \ {p} : new(q) = [page[q] EXCEPT !.latest = q \in same]
        OBVIOUS
      <3>3. \A q \in Pages : page[q] \in Command
        BY DEF TypeOK
      <3> HIDE DEF new
      <3>4. /\ new(p) \in Command /\ new(p).copy = page[p].copy
            /\ new(p).known = page[p].known /\ new(p).step = "captured"
        BY <3>1, <3>3 DEF Command
      <3>5. ASSUME NEW q \in Pages \ {p}
            PROVE  /\ new(q) \in Command /\ new(q).copy = page[q].copy
                   /\ new(q).known = page[q].known /\ new(q).step = page[q].step
        <4>1. CASE q \in same
          <5>1. new(q) = [page[q] EXCEPT !.latest = TRUE]
            BY <3>2, <4>1, Zenon
          <5>2. QED
            BY <3>3, <5>1 DEF Command
        <4>2. CASE q \notin same
          <5>1. (q \in same) = FALSE
            BY <4>2
          <5>2. new(q) = [page[q] EXCEPT !.latest = FALSE]
            BY <3>2, <5>1, Zenon
          <5>3. QED
            BY <3>3, <5>2 DEF Command
        <4>3. QED
          BY <4>1, <4>2
      <3>6. QED
        BY <3>4, <3>5
    <2> HIDE DEF new
    <2>3. QED
      BY <2>1, <2>2
  <1>4. Latest'
    <2>1. \A q \in Pages : page'[q].latest => q = p \/ q \in same
      BY <1>0 DEF CommitsAs, TypeOK, Command
    <2>2. \A q \in same : page[q].known = page[p].known
      BY DEF Repeats
    <2>3. page[p].known # Nothing
      BY <1>1 DEF Locked
    <2>4. QED
      BY <1>1, <1>3, <2>1, <2>2, <2>3 DEF Latest
  <1>5. TypeOK' /\ live' = live
    <2>1. page[p].known \in File \cup {Nothing}
      BY DEF TypeOK, Command
    <2>2. QED
      BY <1>1, <1>3, <2>1 DEF TypeOK, chain, keys, live
  <1>6. Locked' /\ Final'
    BY <1>1, <1>2, <1>3 DEF Locked, Inside, chain, Final, Rivalled
  <1>7. Working'
    BY <1>1, <1>3, <1>5 DEF Working, Works, Inside, OnAttempt, chain, keys
  <1>8. Witnessed'
    BY <1>1, <1>3 DEF Witnessed, Carries, chain, keys
  <1>9. Fresh'
    BY <1>1, <1>3 DEF Fresh, Carries
  <1>10. Captures'
    BY <1>2, <1>3 DEF Captures
  <1>11. BackedUp'
    <2> SUFFICES ASSUME NEW q \in Pages, page'[q].step \in Evidenced
                 PROVE  Carries(file', page[q].copy.tx) /\ Carries(page[q].known, page[q].copy.tx)
      BY <1>3 DEF BackedUp, Carries
    <2>1. q # p /\ page[q].step \in Evidenced /\ Carries(page[q].known, page[q].copy.tx)
      BY <1>3 DEF BackedUp, Evidenced
    <2>2. live # Nothing /\ live.tx = page[q].copy.tx
      BY <2>1 DEF Working, Works, OnAttempt, Inside, Evidenced
    <2>3. Carries(page[p].known, live.tx)
      BY <1>1, <2>1, <2>2 DEF Captures, Acknowledging, Evidenced
    <2>4. QED
      BY <1>1, <2>1, <2>2, <2>3
  <1>12. SentIsJournaled'
    BY <1>1, <1>5 DEF SentIsJournaled, chain, keys
  <1>13. QED
    BY <1>4, <1>5, <1>6, <1>7, <1>8, <1>9, <1>10, <1>11, <1>12

(* A restore continues the attempt of the journal, or brings the one of    *)
(* the saved file to a browser that never had one.                         *)
LEMMA RestoreSafe ==
    ASSUME IInv, NEW p \in Pages, restoreMatureBoardingAttempt(p)
    PROVE  IInv'
  <1> USE DEF restoreMatureBoardingAttempt, IInv
  <1>1. /\ saved \in File /\ saved.mature \in Attempt /\ saved.mature.phase = "dispatched"
        /\ saved.mature.tx \in signed /\ saved' = saved
    BY DEF Witnessed, TypeOK, File
  <1>2. /\ live' \in Attempt /\ journal' = live' /\ live'.phase # "signed"
        /\ live'.tx = saved.mature.tx
        /\ live # Nothing => live'.tx = live.tx
        /\ live = Nothing => journal = Nothing
    <2>1. Restored(saved.mature) \in Attempt /\ Restored(saved.mature).tx = saved.mature.tx
          /\ Restored(saved.mature).phase # "signed"
      BY <1>1, LiveIsAttempt DEF Restored, allowPhase
    <2>2. live' = journal'
      BY <2>1, NullAssumption DEF live, Attempt, AttemptPhases, Record
    <2>3. live # Nothing => live.tx = saved.mature.tx
      BY LiveIsAttempt
    <2>4. QED
      BY <2>1, <2>2, <2>3
  <1>3. live' # Nothing /\ journal' # Nothing
    BY <1>2, LiveIsAttempt
  <1>4. /\ Moved(p) /\ page'[p].step = "import" /\ page'[p].known = saved
        /\ ~page'[p].latest /\ page[p].step \in {"idle", "failed"}
        /\ \A q \in Pages : page[q].step # "capture"
    BY <1>1, Starting, NullAssumption DEF Free, Locked, Steps
  <1>5. TypeOK'
    BY <1>1, <1>2, <1>4 DEF TypeOK, Record, Attempt, Moved, chain, keys
  <1>6. Locked' /\ Final' /\ Latest'
    BY <1>4 DEF Locked, Inside, Moved, chain, Final, Rivalled, Latest
  <1>7. Working'
    BY <1>2, <1>3, <1>4 DEF Working, Works, Moved, OnAttempt, Inside, chain, keys
  <1>8. Witnessed'
    <2>1. journal'.phase = "confirmed" => status[journal'.tx] = "confirmed"
      BY <1>1, <1>2, LiveIsAttempt DEF Restored, Witnessed
    <2>2. \A q \in Pages, tx \in Sweeps : Carries(page'[q].known, tx) => tx \in signed
      BY <1>1, <1>4 DEF Witnessed, Carries, Moved
    <2>3. QED
      BY <1>1, <1>2, <1>3, <2>1, <2>2 DEF Witnessed, Carries, chain, keys
  <1>9. Fresh'
    <2>1. \A q \in Pages : page[q].step = "retain" => journal'.tx # page[q].copy.tx
      BY <1>1, <1>2 DEF Fresh, Carries
    <2>2. QED
      BY <1>1, <1>4, <2>1 DEF Fresh, Carries, Moved
  <1>10. Captures' /\ BackedUp'
    BY <1>4 DEF Captures, BackedUp, Carries, Moved, Acknowledging, Evidenced
  <1>11. SentIsJournaled'
    BY <1>2, <1>3, LiveIsAttempt DEF SentIsJournaled, chain, keys
  <1>12. QED
    BY <1>5, <1>6, <1>7, <1>8, <1>9, <1>10, <1>11

(* A restored file becomes the committed one only where there was none, so *)
(* that no acknowledgement has compared it.                                *)
LEMMA ImportSafe ==
    ASSUME IInv, NEW p \in Pages, storeRecoveryImport(p)
    PROVE  IInv'
  <1> USE DEF storeRecoveryImport, At, IInv
  <1>1. /\ TypeOK /\ EndsAs(p, Idle) /\ live' = live
        /\ UNCHANGED <<journal, saved, chain, keys, faults>>
    BY DEF Ends, live
  <1>2. /\ Moved(p) /\ Locks(p)
        /\ page'[p].step \in {"idle", "failed"} /\ page'[p].known = Nothing /\ ~page'[p].latest
    BY <1>1, EndsMoves
  <1>3. file = Nothing =>
          \A q \in Pages : ~page[q].latest /\ page[q].step \notin Evidenced
    BY DEF Latest, BackedUp, Carries
  <1>4. TypeOK'
    BY <1>1, <1>2 DEF TypeOK, Moved, Locks, Command, chain, keys
  <1>5. Locked' /\ Final'
    BY <1>1, <1>2 DEF Locked, Inside, Moved, Locks, chain, Final, Rivalled
  <1>6. Working'
    BY <1>1, <1>2 DEF Working, Works, Moved, OnAttempt, Inside, chain, keys
  <1>7. Witnessed' /\ Fresh'
    BY <1>1, <1>2 DEF Witnessed, Fresh, Carries, Moved, chain, keys
  <1>8. Captures'
    BY <1>1, <1>2 DEF Captures, Moved, Acknowledging
  <1>9. BackedUp' /\ Latest'
    BY <1>2, <1>3 DEF BackedUp, Latest, Carries, Moved, Evidenced
  <1>10. SentIsJournaled'
    BY <1>1 DEF SentIsJournaled, chain, keys
  <1>11. QED
    BY <1>4, <1>5, <1>6, <1>7, <1>8, <1>9, <1>10

LEMMA ChainSafe ==
    ASSUME IInv, ChainMoves, UNCHANGED <<store, locks, page, keys>>,
           matured' \subseteq Coins, faults' \in 0..MaxFaults
    PROVE  IInv'
  <1> USE DEF IInv, ChainMoves, store, locks, keys
  <1>1. TypeOK' /\ live' = live
    BY DEF TypeOK, live
  <1>2. Locked' /\ Fresh' /\ Captures' /\ BackedUp' /\ Latest'
    BY <1>1 DEF Locked, Fresh, Captures, BackedUp, Latest, Carries
  <1>3. Working'
    <2> SUFFICES ASSUME NEW p \in Pages
                 PROVE  Works(p)'
      BY DEF Working
    <2>1. Works(p) /\ (page[p].step = "confirm" => page[p].copy.tx \in Txs)
      BY DEF Working, Works, OnAttempt, Inside, Attempt, Txs
    <2>2. QED
      BY <1>1, <2>1 DEF Works
  <1>4. Witnessed'
    <2>1. journal # Nothing => journal.tx \in Txs
      BY DEF TypeOK, Record, Txs
    <2>2. QED
      BY <2>1 DEF Witnessed, Carries
  <1>5. SentIsJournaled'
    <2>1. sent \subseteq Txs
      BY DEF TypeOK, Txs
    <2>2. QED
      BY <1>1, <2>1 DEF SentIsJournaled
  <1>6. QED
    BY <1>1, <1>2, <1>3, <1>4, <1>5

LEMMA FaultCounts ==
    ASSUME TypeOK, Fault
    PROVE  faults' \in 0..MaxFaults
  BY BoundAssumption DEF TypeOK, Fault

LEMMA OthersSafe ==
    ASSUME IInv, \/ OtherDeviceSends
                 \/ \E c \in Coins : Mature(c)
                 \/ \E t \in Txs : RivalSpends(t) \/ Confirms(t) \/ Drops(t)
    PROVE  IInv'
  <1>1. TypeOK /\ Final
    BY DEF IInv
  <1>2. matured \subseteq Coins /\ faults \in 0..MaxFaults
    BY <1>1 DEF TypeOK
  <1>3. CASE OtherDeviceSends
    <2>1. saved.mature.tx \in Txs
      BY <1>1, <1>3 DEF OtherDeviceSends, TypeOK, File, Attempt, Txs
    <2>2. ChainMoves
      BY <1>3, <2>1, TakesMoves DEF OtherDeviceSends
    <2>3. QED
      BY <1>1, <1>2, <1>3, <2>2, ChainSafe, FaultCounts DEF OtherDeviceSends
  <1>4. CASE \E c \in Coins : Mature(c)
    BY <1>2, <1>4, ChainSafe, ChainKept DEF Mature
  <1>5. ASSUME NEW t \in Txs, RivalSpends(t)
        PROVE  IInv'
    <2>1. ChainMoves
      BY <1>5, TakesMoves DEF RivalSpends
    <2>2. QED
      BY <1>2, <1>5, <2>1, ChainSafe DEF RivalSpends
  <1>6. ASSUME NEW t \in Txs, Confirms(t)
        PROVE  IInv'
    <2>1. ChainMoves
      BY <1>6, TakesMoves DEF Confirms
    <2>2. QED
      BY <1>2, <1>6, <2>1, ChainSafe DEF Confirms
  <1>7. ASSUME NEW t \in Txs, Drops(t)
        PROVE  IInv'
    <2>1. ChainMoves
      BY <1>1, <1>7 DEF Drops, ChainMoves, Final, Rivalled, TypeOK
    <2>2. QED
      BY <1>1, <1>2, <1>7, <2>1, ChainSafe, FaultCounts DEF Drops
  <1>8. QED
    BY <1>3, <1>4, <1>5, <1>6, <1>7

-------------------------------------------------------------------------------
LEMMA InitSafe == Init => IInv
  <1> SUFFICES ASSUME Init
               PROVE  IInv
    OBVIOUS
  <1> USE DEF Init
  <1>1. \A p \in Pages : /\ page[p] \in Command /\ page[p].step = "idle"
                        /\ page[p].known = Nothing /\ ~page[p].latest
    BY StartTyped DEF Idle, Steps
  <1>2. /\ saved \in File \cup {Nothing}
        /\ saved # Nothing => /\ saved.mature # Nothing /\ saved.mature.tx \in signed
                              /\ saved.mature.phase = "dispatched"
    <2>1. CASE saved = Nothing
      BY <2>1
    <2>2. ASSUME NEW s \in Foreign, saved = [mature |-> [tx |-> s, phase |-> "dispatched"]],
                 signed = {s}
          PROVE  saved \in File /\ saved.mature # Nothing /\ saved.mature.tx \in signed
                 /\ saved.mature.phase = "dispatched"
      <3>1. [tx |-> s, phase |-> "dispatched"] \in Attempt \cap Record
        BY <2>2, SweepAssumption DEF Attempt, AttemptPhases, Record
      <3>2. QED
        BY <2>2, <3>1, NullAssumption DEF File
    <2>3. QED
      BY <2>1, <2>2
  <1>3. signed \subseteq Sweeps
    BY SweepAssumption
  <1>4. TypeOK
    BY <1>1, <1>2, <1>3, BoundAssumption DEF TypeOK, File
  <1>5. Locked /\ Working /\ Fresh /\ Captures /\ BackedUp /\ Latest
    BY <1>1 DEF Locked, Working, Works, Fresh, Captures, BackedUp, Latest, Inside, OnAttempt,
      Acknowledging, Evidenced
  <1>6. Final /\ SentIsJournaled
    BY DEF Final, SentIsJournaled
  <1>7. Witnessed
    BY <1>1, <1>2 DEF Witnessed, Carries
  <1>8. QED
    BY <1>4, <1>5, <1>6, <1>7 DEF IInv

(* Every step is one of a command, the commit of a capture, one of a       *)
(* restore, or one of the chain.                                           *)
LEMMA StepKinds ==
    ASSUME IInv, Next
    PROVE  \/ \E p \in Pages : \/ CommandStep(p) \/ CaptureCommits(p)
                               \/ restoreMatureBoardingAttempt(p) \/ storeRecoveryImport(p)
           \/ OtherDeviceSends
           \/ \E c \in Coins : Mature(c)
           \/ \E t \in Txs : RivalSpends(t) \/ Confirms(t) \/ Drops(t)
  <1>1. ASSUME NEW p \in Pages, Work(p)
        PROVE  CommandStep(p) \/ CaptureCommits(p) \/ storeRecoveryImport(p)
    BY <1>1, InspectSafe, RecordConfirmedSafe, RecordConflictSafe, FindSafe, SignSafe,
       RetainSafe, DispatchSafe, BroadcastSafe, UncertainSafe, AckConfirmsSafe,
       AckEvidenceSafe, AckReloadsSafe, AckComparesSafe, RetireSafe, StopsSafe
    DEF Work
  <1>2. ASSUME NEW p \in Pages, Recover(p) \/ CaptureReads(p) \/ AckLoads(p) \/ Fails(p)
        PROVE  CommandStep(p)
    BY <1>2, RecoverSafe, CaptureSafe, AckLoadsSafe, StopsSafe
  <1>3. QED
    BY <1>1, <1>2 DEF Next, Failure

LEMMA StepSafe == IInv /\ [Next]_vars => IInv'
  <1> SUFFICES ASSUME IInv, [Next]_vars
               PROVE  IInv'
    OBVIOUS
  <1>1. CASE Next
    BY <1>1, StepKinds, CommandStepSafe, CommitSafe, RestoreSafe, ImportSafe, OthersSafe
  <1>2. CASE UNCHANGED vars
    BY <1>2, ChainSafe, ChainKept DEF vars, store, locks, keys, IInv, TypeOK
  <1>3. QED
    BY <1>1, <1>2

LEMMA Invariance == Spec => []IInv
  BY InitSafe, StepSafe, PTL DEF Spec

(* Types of the journal, the files and the pages                            *)
(* (matureBoardingJournal.ts, MatureBoardingRecord).                        *)
THEOREM TypeCorrect == Spec => []TypeOK
  BY Invariance, PTL DEF IInv

(* A sweep whose bytes left this browser is the journaled attempt until it *)
(* is confirmed (boardingRecovery.ts, startAttempt and dispatchExact).     *)
THEOREM SentStaysJournaled == Spec => []SentIsJournaled
  BY Invariance, PTL DEF IInv

(* What the journal has learnt is never taken back, and an attempt leaves  *)
(* it only while its sweep is confirmed and the committed file holds it    *)
(* (boardingRecovery.ts, acknowledge; matureBoardingJournal.ts, retire).   *)
THEOREM JournalKeptUntilBackedUp == Spec => KeptUntilBackedUp
  <1>1. ASSUME IInv, Next, journal # Nothing
        PROVE  journal' # Nothing /\ Kept
    <2>1. CASE journal' = journal
      BY <1>1, <2>1 DEF Kept, allowPhase
    <2>2. ASSUME NEW p \in Pages, CommandStep(p), journal' # journal
          PROVE  journal' # Nothing /\ Kept
      <3>1. TypeOK /\ TypeOK' /\ file' = file /\ journal' # Nothing
        BY <1>1, <2>2, CommandStepTyped, AttemptStep DEF IInv, CommandStep
      <3>2. CASE Continues
        BY <1>1, <2>2, <3>1, <3>2, LiveIsAttempt DEF Continues, Kept
      <3>3. CASE Retires(p)
        <4>1. live = journal
          BY <3>1, <3>3, LiveIsAttempt DEF Retires
        <4>2. Carries(file, live.tx)
          BY <1>1, <3>3 DEF Retires, IInv, BackedUp, Evidenced, Working, Works, OnAttempt, Inside
        <4>3. QED
          BY <1>1, <3>1, <3>3, <4>1, <4>2 DEF Retires, Kept, Carries, IInv, Witnessed
      <3>4. CASE Begins(p)
        BY <1>1, <3>1, <3>4, LiveIsAttempt DEF Begins, Kept
      <3>5. QED
        BY <2>2, <3>1, <3>2, <3>3, <3>4 DEF CommandStep, Writes
    <2>3. ASSUME NEW p \in Pages, restoreMatureBoardingAttempt(p)
          PROVE  journal' # Nothing /\ Kept
      <3>1. TypeOK /\ live # Nothing /\ live = journal /\ live.tx = saved.mature.tx
            /\ journal' = Restored(saved.mature)
        BY <1>1, <2>3, LiveIsAttempt DEF restoreMatureBoardingAttempt, IInv
      <3>2. TypeOK' /\ journal' # Nothing
        BY <1>1, <2>3, <3>1, RestoreSafe DEF IInv, Restored, restoreMatureBoardingAttempt, Witnessed
      <3>3. QED
        BY <3>1, <3>2 DEF Restored, Kept, allowPhase
    <2>4. CASE \/ \E p \in Pages : CaptureCommits(p) \/ storeRecoveryImport(p)
               \/ OtherDeviceSends
               \/ \E c \in Coins : Mature(c)
               \/ \E t \in Txs : RivalSpends(t) \/ Confirms(t) \/ Drops(t)
      BY <2>1, <2>4 DEF CaptureCommits, CommitsAs, storeRecoveryImport, OtherDeviceSends, Mature,
        RivalSpends, Confirms, Drops, store
    <2>5. QED
      BY <1>1, <2>1, <2>2, <2>3, <2>4, StepKinds
  <1>2. IInv /\ [Next]_vars => [journal # Nothing => journal' # Nothing /\ Kept]_vars
    BY <1>1
  <1>3. QED
    BY <1>2, Invariance, PTL DEF Spec, KeptUntilBackedUp
===============================================================================
