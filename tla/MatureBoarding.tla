---------------------------- MODULE MatureBoarding ----------------------------
(***************************************************************************)
(* The recovery of deposits that were never boarded.  Once their delay has *)
(* passed the phone key sweeps them in one transaction, whose exact bytes  *)
(* are journaled before they are sent and stay there until the sweep is    *)
(* confirmed and a committed recovery file holds them.                     *)
(*                                                                         *)
(* src/src/lib/vault/vtxo/boardingRecovery.ts       recover, acknowledge   *)
(* src/src/lib/vault/vtxo/matureBoardingJournal.ts  the journal            *)
(* src/src/lib/vault/recoveryCommands.ts, recovery/  captures and restore  *)
(*                                                                         *)
(* Three locks: a page holds the recovery lock for a whole recovery or     *)
(* acknowledgement, the capture lock for a whole capture or restore, and   *)
(* the journal's own lock for one write, which is one action here.  A      *)
(* recovery is refused while the first is held; whatever else needs a lock *)
(* waits for it.  A command whose session ended stops at its next fence:   *)
(* it may stop at every step, as it does when a request fails or the page  *)
(* is closed.                                                              *)
(* External: the chain, on which the deposits may be spent by others and   *)
(* unconfirmed transactions may be dropped; another device that holds a    *)
(* saved file.  Blocks are not undone and the storage is not lost.         *)
(***************************************************************************)
EXTENDS Integers, FiniteSets

CONSTANTS
    Pages,
    Recovering,     \* pages whose user asks for a recovery
    Coins,          \* boarding outputs of the vault
    Sweeps,         \* sweep transactions the phone key may sign
    Foreign,        \* sweeps another device may have signed and saved
    Rivals,         \* transactions of others that spend a deposit
    Inputs,         \* the coins a transaction spends
    MaxFaults,      \* bound on dropped transactions and on sends of other devices
    Nothing

Txs == Sweeps \cup Rivals

ASSUME PageAssumption == Recovering \subseteq Pages
ASSUME SweepAssumption == Foreign \subseteq Sweeps
ASSUME InputAssumption ==
    /\ Inputs \in [Txs -> SUBSET Coins \ {{}}]
    /\ Sweeps \cap Rivals = {}
ASSUME BoundAssumption == MaxFaults \in Nat

AttemptPhases == {"signed", "dispatched", "uncertain", "conflict", "confirmed"}
(* MatureBoardingRecord: an attempt, or the note that it was retired.      *)
Attempt == [tx : Sweeps, phase : AttemptPhases]
Record == [tx : Sweeps, phase : AttemptPhases \cup {"retired"}]
(* The recovery file, of which only the boarding journal is kept here.  The*)
(* digest of a file is that of all it holds, the time of the capture, the  *)
(* status at the Guardian and the other journals too: files that hold the  *)
(* same attempt may have the same digest or not.                           *)
File == [mature : Attempt \cup {Nothing}]

ASSUME NullAssumption == Nothing \notin Pages \cup Record \cup File

VARIABLES
    journal,    \* the record of this vault, or Nothing
    file,       \* the committed recovery file, or Nothing
    saved,      \* the file the user holds, of another device, or Nothing
    lock,       \* the page that holds the recovery lock, or Nothing
    capturing,  \* the page that holds the capture lock, or Nothing
    page,       \* per page: the command under way
    matured,    \* coins whose delay has passed
    status,     \* per transaction: "absent", "mempool" or "confirmed"
    signed,     \* sweeps the phone key signed
    sent,       \* sweeps whose bytes were handed to the network
    faults

store == <<journal, file, saved>>
locks == <<lock, capturing>>
chain == <<matured, status>>
keys == <<signed, sent>>
vars == <<journal, file, saved, lock, capturing, page, matured, status,
          signed, sent, faults>>

Steps == {"idle", "failed", "inspect", "confirm", "conflict", "dispatch", "broadcast",
          "uncertain", "unlock", "retain", "capture", "captured", "check", "evidence", "reload",
          "compare", "retire", "import"}
(* "copy" is the record the command works on, "known" the file it captured *)
(* or restores, "latest" whether the committed file has the digest of the  *)
(* one it captured.                                                        *)
Command == [step : Steps, copy : Record \cup {Nothing},
            coins : SUBSET Coins, known : File \cup {Nothing}, latest : BOOLEAN]
Starts(step, held) == [step |-> step, copy |-> Nothing, coins |-> {}, known |-> held,
                       latest |-> FALSE]
Idle == Starts("idle", Nothing)
Failed == Starts("failed", Nothing)

(* Type correctness of the journal, the files and the pages.               *)
TypeOK ==
    /\ journal \in Record \cup {Nothing} /\ file \in File \cup {Nothing}
    /\ saved \in File \cup {Nothing}
    /\ lock \in Pages \cup {Nothing} /\ capturing \in Pages \cup {Nothing}
    /\ page \in [Pages -> Command]
    /\ matured \subseteq Coins /\ status \in [Txs -> {"absent", "mempool", "confirmed"}]
    /\ signed \subseteq Sweeps /\ sent \subseteq signed /\ faults \in 0..MaxFaults

(* The browser is new to the vault; the user may hold the recovery file of *)
(* another device, which has signed a sweep.                               *)
Init ==
    /\ journal = Nothing /\ file = Nothing
    /\ \/ saved = Nothing /\ signed = {}
       \/ \E s \in Foreign :
             /\ saved = [mature |-> [tx |-> s, phase |-> "dispatched"]]
             /\ signed = {s}
    /\ lock = Nothing /\ capturing = Nothing
    /\ page = [p \in Pages |-> Idle]
    /\ matured = {} /\ status = [t \in Txs |-> "absent"]
    /\ sent = {} /\ faults = 0

Fault == faults < MaxFaults /\ faults' = faults + 1

-------------------------------------------------------------------------------
(* The chain *)

Spenders(c) == {t \in Txs : c \in Inputs[t] /\ status[t] # "absent"}
Rivalled(t) == {u \in Txs \ {t} : Inputs[u] \cap Inputs[t] # {}}
Spendable(t) == \A u \in Rivalled(t) : status[u] # "confirmed"
(* The chain takes a transaction; those in conflict with it give way.      *)
Takes(t, state) ==
    status' = [u \in Txs |-> IF u = t THEN state
                             ELSE IF u \in Rivalled(t) THEN "absent" ELSE status[u]]

Mature(c) ==
    /\ c \notin matured /\ matured' = matured \cup {c}
    /\ UNCHANGED <<store, locks, page, status, keys, faults>>

(* The deposit is boarded by its batch, or swept from another device.      *)
RivalSpends(t) ==
    /\ t \in Rivals /\ status[t] = "absent" /\ Spendable(t) /\ Takes(t, "mempool")
    /\ UNCHANGED <<store, locks, page, matured, keys, faults>>

Confirms(t) ==
    /\ status[t] = "mempool" /\ Takes(t, "confirmed")
    /\ UNCHANGED <<store, locks, page, matured, keys, faults>>

Drops(t) ==
    /\ Fault
    /\ status[t] = "mempool" /\ status' = [status EXCEPT ![t] = "absent"]
    /\ UNCHANGED <<store, locks, page, matured, keys>>

(* A device that restored the saved file sends the bytes it holds.         *)
OtherDeviceSends ==
    /\ Fault
    /\ saved # Nothing /\ saved.mature # Nothing
    /\ status[saved.mature.tx] = "absent" /\ Spendable(saved.mature.tx)
    /\ Takes(saved.mature.tx, "mempool")
    /\ UNCHANGED <<store, locks, page, matured, keys>>

-------------------------------------------------------------------------------
(* The journal *)

allowPhase(from, to) ==
    \/ from = to
    \/ from = "conflict" /\ to = "confirmed"
    \/ from = "signed" /\ to \in {"dispatched", "uncertain", "confirmed"}
    \/ from \in {"dispatched", "uncertain"}
       /\ to \in {"dispatched", "uncertain", "conflict", "confirmed"}

(* Mutant: the note of a retirement is taken for an attempt.               *)
AnyRecord == journal

live == IF journal # Nothing /\ journal.phase # "retired" THEN journal ELSE Nothing

(* persistMatureBoardingAttempt takes a record that continues the attempt. *)
Persistable(next) ==
    IF live = Nothing THEN next.phase = "signed"
    ELSE live.tx = next.tx /\ allowPhase(live.phase, next.phase)

Goes(p, step) == page' = [page EXCEPT ![p].step = step]
EndsAs(p, end) ==
    /\ page' = [page EXCEPT ![p] = end]
    /\ lock' = IF lock = p THEN Nothing ELSE lock
    /\ capturing' = IF capturing = p THEN Nothing ELSE capturing
Ends(p) == EndsAs(p, Idle)
At(p, step) == page[p].step = step
(* No command is under way; the last one may have failed.                  *)
Free(p) == page[p].step \in {"idle", "failed"}

(* persistPhase, and the step that follows: "idle" ends the command.       *)
Persists(p, phase, next) ==
    LET record == [page[p].copy EXCEPT !.phase = phase]
    IN  /\ Persistable(record)
        /\ journal' = record
        /\ IF next = "idle" THEN Ends(p)
           ELSE /\ page' = [page EXCEPT ![p].copy = record, ![p].step = next]
                /\ UNCHANGED locks

-------------------------------------------------------------------------------
(* recoverMatureBoardingInputs *)

Recover(p) ==
    /\ p \in Recovering /\ Free(p) /\ lock = Nothing
    /\ lock' = p
    /\ IF live # Nothing
       THEN page' = [page EXCEPT ![p].step = "inspect", ![p].copy = live]
       ELSE page' = [page EXCEPT ![p] = Starts("unlock", Nothing)]
    /\ UNCHANGED <<store, capturing, chain, keys, faults>>

(* inspectAttempt: a missing or failed answer proves nothing; an outspend  *)
(* of another transaction counts as soon as it is seen.                    *)
inspectAttempt(p) ==
    /\ At(p, "inspect")
    /\ LET tx == page[p].copy.tx
       IN  \/ /\ status[tx] = "confirmed"
              /\ IF page[p].copy.phase = "confirmed"
                 THEN Ends(p) ELSE Goes(p, "confirm") /\ UNCHANGED locks
           \/ status[tx] = "mempool" /\ Goes(p, "dispatch") /\ UNCHANGED locks
           \/ /\ \E c \in Inputs[tx] : Spenders(c) \ {tx} # {}
              /\ Goes(p, "conflict") /\ UNCHANGED locks
           \/ Goes(p, "dispatch") /\ UNCHANGED locks
    /\ UNCHANGED <<store, chain, keys, faults>>

RecordConfirmed(p) ==
    /\ At(p, "confirm") /\ Persists(p, "confirmed", "idle")
    /\ UNCHANGED <<file, saved, chain, keys, faults>>

RecordConflict(p) ==
    /\ At(p, "conflict") /\ Persists(p, "conflict", "idle")
    /\ UNCHANGED <<file, saved, chain, keys, faults>>

(* findMatureBoardingInputs and startAttempt: the deposits the wallet lists*)
(* as matured and unspent, then the phone key.                             *)
findMatureBoardingInputs(p) ==
    /\ At(p, "unlock") /\ page[p].coins = {}
    /\ LET found == {c \in matured : Spenders(c) = {}}
       IN  IF found = {} THEN Ends(p)
           ELSE page' = [page EXCEPT ![p].coins = found] /\ UNCHANGED locks
    /\ UNCHANGED <<store, chain, keys, faults>>

Candidates(p) == {s \in Sweeps \ signed : Inputs[s] = page[p].coins}
SignSweep(p) ==
    /\ At(p, "unlock") /\ page[p].coins # {}
    /\ IF Candidates(p) = {} THEN Ends(p) /\ UNCHANGED signed
       ELSE \E s \in Candidates(p) :
               /\ signed' = signed \cup {s}
               /\ page' = [page EXCEPT ![p].step = "retain",
                           ![p].copy = [tx |-> s, phase |-> "signed"]]
               /\ UNCHANGED locks
    /\ UNCHANGED <<store, chain, sent, faults>>

persistSigned(p) ==
    /\ At(p, "retain") /\ Persists(p, "signed", "dispatch")
    /\ UNCHANGED <<file, saved, chain, keys, faults>>

(* Mutant: the bytes are sent although the phase could not be stored.      *)
DispatchAnyway(p) ==
    /\ At(p, "dispatch")
    /\ Goes(p, "broadcast") /\ UNCHANGED locks
    /\ UNCHANGED <<store, chain, keys, faults>>

dispatchExact(p) ==
    /\ At(p, "dispatch") /\ Persists(p, "dispatched", "broadcast")
    /\ UNCHANGED <<file, saved, chain, keys, faults>>

(* The network may take the bytes whatever the page then hears.            *)
Broadcast(p) ==
    /\ At(p, "broadcast")
    /\ LET tx == page[p].copy.tx
       IN  /\ sent' = sent \cup {tx}
           /\ \/ /\ Spendable(tx)
                 /\ IF status[tx] = "absent" THEN Takes(tx, "mempool")
                    ELSE UNCHANGED status
                 /\ \/ Ends(p)
                    \/ Goes(p, "uncertain") /\ UNCHANGED locks
              \/ Goes(p, "uncertain") /\ UNCHANGED <<status, locks>>
    /\ UNCHANGED <<store, matured, signed, faults>>

(* The failure is noted if the journal allows it.                          *)
RecordUncertain(p) ==
    /\ At(p, "uncertain")
    /\ \/ Persists(p, "uncertain", "idle")
       \/ ~Persistable([page[p].copy EXCEPT !.phase = "uncertain"])
          /\ Ends(p) /\ UNCHANGED journal
    /\ UNCHANGED <<file, saved, chain, keys, faults>>

-------------------------------------------------------------------------------
(* Captures and acknowledgeMatureBoardingRecovery *)

(* captureVaultRecoveryFile: journals are read and the file is committed   *)
(* under the capture lock.                                                 *)
CaptureReads(p) ==
    /\ Free(p) /\ capturing = Nothing
    /\ capturing' = p
    /\ page' = [page EXCEPT ![p] = Starts("capture", [mature |-> live])]
    /\ UNCHANGED <<store, lock, chain, keys, faults>>

(* Pages whose capture held the same attempt in the same phase.            *)
Repeats(p) == {q \in Pages \ {p} : page[q].known = page[p].known}

(* The file of another page's capture has the digest of this one, or it is *)
(* the committed one no more.                                              *)
CommitsAs(p, same) ==
    /\ At(p, "capture") /\ capturing' = Nothing
    /\ file' = page[p].known
    /\ page' = [q \in Pages |->
                  IF q = p THEN [page[q] EXCEPT !.step = "captured", !.latest = TRUE]
                  ELSE [page[q] EXCEPT !.latest = q \in same]]
    /\ UNCHANGED <<journal, saved, lock, chain, keys, faults>>

CaptureCommits(p) == \E same \in SUBSET Repeats(p) : CommitsAs(p, same)

AckLoads(p) ==
    /\ At(p, "captured") /\ lock = Nothing
    /\ IF live = Nothing
       THEN page' = [page EXCEPT ![p] = Idle] /\ UNCHANGED lock
       ELSE /\ lock' = p
            /\ page' = [page EXCEPT ![p].step = "check", ![p].copy = live]
    /\ UNCHANGED <<store, capturing, chain, keys, faults>>

(* Mutant: the note of the confirmation is left to the next recovery.      *)
AckWaits(p) ==
    /\ At(p, "check")
    /\ IF page[p].copy.phase = "confirmed"
       THEN Goes(p, "evidence") /\ UNCHANGED locks ELSE Ends(p)
    /\ UNCHANGED <<store, chain, keys, faults>>

(* The sweep must be confirmed; then the journal says so.                  *)
AckConfirms(p) ==
    /\ At(p, "check")
    /\ IF status[page[p].copy.tx] # "confirmed" THEN Ends(p) /\ UNCHANGED journal
       ELSE IF page[p].copy.phase = "confirmed"
       THEN Goes(p, "evidence") /\ UNCHANGED <<journal, locks>>
       ELSE Persists(p, "confirmed", "evidence")
    /\ UNCHANGED <<file, saved, chain, keys, faults>>

(* Mutant: the committed file need not hold the sweep.                     *)
HoldsAnything(p) == file # Nothing

HoldsSweep(p) ==
    file # Nothing /\ file.mature # Nothing /\ file.mature.tx = page[p].copy.tx

(* The committed file holds the same bytes, and is the one just captured.  *)
AckEvidence(p) ==
    /\ At(p, "evidence")
    /\ IF HoldsSweep(p) /\ page[p].latest
       THEN Goes(p, "reload") /\ UNCHANGED locks ELSE Ends(p)
    /\ UNCHANGED <<store, chain, keys, faults>>

(* The history shows the payment; the journal still holds the attempt.     *)
AckReloads(p) ==
    /\ At(p, "reload")
    /\ IF live # Nothing /\ live.tx = page[p].copy.tx
       THEN page' = [page EXCEPT ![p].step = "compare", ![p].copy = live]
            /\ UNCHANGED locks
       ELSE Ends(p)
    /\ UNCHANGED <<store, chain, keys, faults>>

AckCompares(p) ==
    /\ At(p, "compare")
    /\ IF HoldsSweep(p) /\ page[p].latest /\ page[p].copy.phase = "confirmed"
       THEN Goes(p, "retire") /\ UNCHANGED locks ELSE Ends(p)
    /\ UNCHANGED <<store, chain, keys, faults>>

retireMatureBoardingAttempt(p) ==
    /\ At(p, "retire") /\ Ends(p)
    /\ journal' = IF live # Nothing /\ live.tx = page[p].copy.tx /\ live.phase = "confirmed"
                  THEN [live EXCEPT !.phase = "retired"] ELSE journal
    /\ UNCHANGED <<file, saved, chain, keys, faults>>

(* The phase a step is about to store.                                     *)
Stored(step) ==
    CASE step = "retain" -> "signed" [] step = "dispatch" -> "dispatched"
      [] step = "conflict" -> "conflict" [] OTHER -> "confirmed"

(* The journal refuses the phase: the command ends.                        *)
Refused(p) ==
    /\ page[p].step \in {"confirm", "conflict", "retain", "dispatch", "check"}
    /\ ~Persistable([page[p].copy EXCEPT !.phase = Stored(page[p].step)])
    /\ Ends(p)
    /\ UNCHANGED <<store, chain, keys, faults>>

(* A request or a write fails, a fence finds that the session ended, or    *)
(* the page is closed: the command ends and its locks are free.  So does a *)
(* capture that no acknowledgement follows (guardianRenewal.ts).           *)
Fails(p) ==
    /\ ~Free(p)
    /\ EndsAs(p, Failed)
    /\ UNCHANGED <<store, chain, keys, faults>>

-------------------------------------------------------------------------------
(* Restore *)

Restored(incoming) ==
    IF live # Nothing /\ ~allowPhase(live.phase, incoming.phase) THEN live ELSE incoming

(* restoreVaultRecoveryFile, under the capture lock: the journal first.  A *)
(* retired attempt stays retired, another attempt is refused ...           *)
restoreMatureBoardingAttempt(p) ==
    /\ Free(p) /\ capturing = Nothing
    /\ saved # Nothing /\ saved.mature # Nothing
    /\ journal = Nothing \/ (live # Nothing /\ live.tx = saved.mature.tx)
    /\ capturing' = p
    /\ journal' = Restored(saved.mature)
    /\ page' = [page EXCEPT ![p] = Starts("import", saved)]
    /\ UNCHANGED <<file, saved, lock, chain, keys, faults>>

(* ... then the file, which is the committed one where there was none.     *)
storeRecoveryImport(p) ==
    /\ At(p, "import") /\ Ends(p)
    /\ file' = IF file = Nothing THEN page[p].known ELSE file
    /\ UNCHANGED <<journal, saved, chain, keys, faults>>

-------------------------------------------------------------------------------
Work(p) ==
    \/ inspectAttempt(p) \/ RecordConfirmed(p) \/ RecordConflict(p)
    \/ findMatureBoardingInputs(p) \/ SignSweep(p) \/ persistSigned(p) \/ dispatchExact(p)
    \/ Broadcast(p) \/ RecordUncertain(p) \/ CaptureCommits(p) \/ AckConfirms(p)
    \/ AckEvidence(p) \/ AckReloads(p) \/ AckCompares(p)
    \/ retireMatureBoardingAttempt(p) \/ storeRecoveryImport(p) \/ Refused(p)
Failure == \E p \in Pages : Fails(p)

Next ==
    \/ \E p \in Pages : \/ Recover(p) \/ CaptureReads(p) \/ AckLoads(p) \/ Work(p)
                         \/ restoreMatureBoardingAttempt(p)
    \/ Failure \/ OtherDeviceSends
    \/ \E c \in Coins : Mature(c)
    \/ \E t \in Txs : RivalSpends(t) \/ Confirms(t) \/ Drops(t)

Spec == Init /\ [][Next]_vars

(* A capture finds the attempt of another page's and commits another file, *)
(* or one that is again what the other page captured.                      *)
Unsettled ==
    \E p \in Pages : \E same \in SUBSET Repeats(p) :
        same # {q \in Repeats(p) : page[q].latest} /\ CommitsAs(p, same)

(* The page works while it runs, the observation captures a file again and *)
(* again (recoveryCommands.ts), locks are granted in order, and in the end *)
(* no command fails on the way.  Nobody has to recover or confirm anything.*)
(* What the program does not see to: in the end one page is left, or two   *)
(* that capture the same attempt find the rest of the file as it was.      *)
FairSpec ==
    /\ Spec
    /\ <>[][~Failure]_vars
    /\ <>[][~Unsettled]_vars
    /\ \A p \in Pages :
          WF_vars(Work(p)) /\ SF_vars(CaptureReads(p)) /\ SF_vars(AckLoads(p))

-------------------------------------------------------------------------------
(* Properties *)

(* A sweep whose bytes left this browser is the journaled attempt until it *)
(* is confirmed, whatever pages, restores and lost answers do meanwhile:   *)
(* its bytes can be sent again, and no other sweep is signed in its place  *)
(* (boardingRecovery.ts, startAttempt and dispatchExact).                  *)
SentIsJournaled ==
    \A s \in sent :
        status[s] # "confirmed" =>
            live # Nothing /\ live.tx = s /\ live.phase # "signed"

(* What the journal has learnt of an attempt is never taken back, and the  *)
(* attempt gives way only through its retirement, while its sweep is       *)
(* confirmed and the committed file holds it: captures of other pages      *)
(* replace that file, and restores write to the journal, between the       *)
(* checks (acknowledge, restore).                                          *)
Kept ==
    \/ journal.tx = journal'.tx /\ allowPhase(journal.phase, journal'.phase)
    \/ /\ journal' = [journal EXCEPT !.phase = "retired"]
       /\ status[journal.tx] = "confirmed"
       /\ file' # Nothing /\ file'.mature # Nothing /\ file'.mature.tx = journal.tx
    \/ journal.phase = "retired" /\ journal'.phase = "signed"
KeptUntilBackedUp == [][journal # Nothing => journal' # Nothing /\ Kept]_vars

(* A confirmed sweep leaves the journal in the end, which makes room for   *)
(* deposits that mature later, if the pages do not replace each other's    *)
(* files for ever (acknowledge asks for the file it captured).             *)
ConfirmedIsRetired ==
    (live # Nothing /\ status[live.tx] = "confirmed")
        ~> (journal # Nothing /\ journal.phase = "retired")
===============================================================================
