------------------------------ MODULE CloudBackup ------------------------------
(***************************************************************************)
(* The encrypted cloud copy of a vault's recovery file.  Pages of several  *)
(* devices open passkey sessions on it, capture what their device holds,   *)
(* and upload it with a compare-and-swap on the revision.                  *)
(*                                                                         *)
(* src/src/lib/vault/recovery/cloudBackup.ts  sessions and uploads         *)
(* src/src/lib/vault/recoveryCommands.ts      captures and their sharing   *)
(* src/src/lib/vault/session.ts               restoring the cloud copy     *)
(*                                                                         *)
(* The archive service is external.  It stores a write whose revision is   *)
(* the current one, repeats its answer for the ciphertext it holds, and    *)
(* refuses every other write.  Opening a session may be answered with an   *)
(* older copy: "revision < seen" is what the wallet has against it.        *)
(*                                                                         *)
(* A file is the set of records in it.  A payment journal lives on the     *)
(* device that made the payment, so a device captures its own records and  *)
(* the ones it restored.                                                   *)
(***************************************************************************)
EXTENDS Integers, Sequences, FiniteSets

CONSTANTS
    Devices,        \* browser profiles signed in to the vault
    Tabs,           \* pages a profile has open
    Records,        \* journal entries and transaction paths
    StaleOpens,     \* whether an open may be answered with an older copy
    MaxRevision,    \* bound on uploads
    MaxRequests,    \* bound on writes under way
    MaxCrashes,     \* bound on page crashes and closes
    NoFile, NoPage, NoSession

Pages == Devices \X Tabs
DeviceOf(p) == p[1]
Files == SUBSET Records
Revisions == 0..MaxRevision

(* Token, key and header are those of the passkey.  "pending" is an upload *)
(* in doubt, at the session's revision; it keeps its ciphertext.           *)
RecoveryBackupSession ==
    [revision : Revisions, file : Files \cup {NoFile}, pending : Files \cup {NoFile}]

(* Writes of one page are distinguished by whether they carry the          *)
(* ciphertext of the upload it has in doubt.                               *)
Writes == [page : Pages, revision : Revisions, file : Files, pending : BOOLEAN]

ASSUME BoundAssumption ==
    /\ {MaxRevision, MaxRequests, MaxCrashes} \subseteq Nat
    /\ StaleOpens \in BOOLEAN
ASSUME NullAssumption ==
    /\ \A f \in Files : f # NoFile
    /\ \A s \in RecoveryBackupSession : s # NoSession
    /\ NoPage \notin Pages

VARIABLES
    local,      \* what a capture on each device contains
    own,        \* the records each device made itself
    seen,       \* the revision in each device's localStorage
    verified,   \* the highest revision each device ever verified
    acked,      \* what each device reported as verified in the cloud
    session,    \* the cloud session of each page, or NoSession
    expired,    \* pages whose session is past expiresAt
    shot,       \* the file of a local capture under way that a backup can share
    pc,         \* where the cloud work of each page is
    file,       \* the file it saves
    answer,     \* the revision an open was answered with, or NoFile
    net,        \* writes under way
    cloud,      \* the files the service stored, one for each revision
    top,        \* the page whose upload in doubt is the current one, or NoPage
    crashes

device == <<local, own, seen, verified, acked>>
page == <<session, expired, shot, pc, file, answer>>
service == <<net, cloud, top>>
vars == <<local, own, seen, verified, acked, session, expired, shot, pc, file,
          answer, net, cloud, top, crashes>>

Places == {"idle", "open", "restore", "importing", "capture", "sync", "write",
           "read", "verify"}

TypeOK ==
    /\ local \in [Devices -> Files] /\ own \in [Devices -> Files]
    /\ seen \in [Devices -> Revisions] /\ verified \in [Devices -> Revisions]
    /\ acked \in [Devices -> Files]
    /\ session \in [Pages -> RecoveryBackupSession \cup {NoSession}]
    /\ expired \subseteq Pages
    /\ shot \in [Pages -> Files \cup {NoFile}]
    /\ pc \in [Pages -> Places]
    /\ file \in [Pages -> Files \cup {NoFile}]
    /\ answer \in [Pages -> Revisions \cup {NoFile}]
    /\ net \subseteq Writes
    /\ cloud \in Seq(Files) /\ Len(cloud) <= MaxRevision
    /\ top \in Pages \cup {NoPage}
    /\ crashes \in Nat

Init ==
    /\ local = [d \in Devices |-> {}] /\ own = [d \in Devices |-> {}]
    /\ seen = [d \in Devices |-> 0] /\ verified = [d \in Devices |-> 0]
    /\ acked = [d \in Devices |-> {}]
    /\ session = [p \in Pages |-> NoSession]
    /\ expired = {}
    /\ shot = [p \in Pages |-> NoFile]
    /\ pc = [p \in Pages |-> "idle"]
    /\ file = [p \in Pages |-> NoFile]
    /\ answer = [p \in Pages |-> NoFile]
    /\ net = {}
    /\ cloud = <<>>
    /\ top = NoPage
    /\ crashes = 0

(* The file at a revision of the cloud copy. *)
At(n) == IF n = 0 THEN NoFile ELSE cloud[n]

Latest == IF cloud = <<>> THEN {} ELSE cloud[Len(cloud)]

Live(p) == session[p] # NoSession /\ p \notin expired

(* The locals of the cloud work are gone once it ends; the session stays.  *)
Return(p) ==
    /\ pc' = [pc EXCEPT ![p] = "idle"]
    /\ file' = [file EXCEPT ![p] = NoFile]
    /\ answer' = [answer EXCEPT ![p] = NoFile]
    /\ UNCHANGED <<expired, shot>>

(* Mutant: the next revision is noted. *)
SetSeenNext(d, n) ==
    /\ seen' = [seen EXCEPT ![d] = n + 1]
    /\ verified' = [verified EXCEPT ![d] = IF n > @ THEN n ELSE @]

(* The page has no upload in doubt any more.  What is under way stays so.   *)
Forget(p) ==
    /\ net' = {IF m.page = p THEN [m EXCEPT !.pending = FALSE] ELSE m : m \in net}
    /\ top' = IF top = p THEN NoPage ELSE top
    /\ UNCHANGED cloud

(* localStorage.setItem(revisionKey(vaultId), ...) *)
SetSeen(d, n) ==
    /\ seen' = [seen EXCEPT ![d] = n]
    /\ verified' = [verified EXCEPT ![d] = IF n > @ THEN n ELSE @]

-------------------------------------------------------------------------------
(* What the device holds *)

(* Mutant: captures are shared whatever happened since. *)
SameEpoch(p) == UNCHANGED shot

(* A capture of an earlier activity epoch is shared no more, except by a   *)
(* command whose fence is of that epoch too.                               *)
NewEpoch(p) == shot' = [shot EXCEPT ![p] = NoFile]

(* A payment or receive on a page, and the event it fires there.           *)
Activity(p, r) ==
    /\ \A d \in Devices : r \notin own[d]
    /\ local' = [local EXCEPT ![DeviceOf(p)] = @ \cup {r}]
    /\ own' = [own EXCEPT ![DeviceOf(p)] = @ \cup {r}]
    /\ NewEpoch(p)
    /\ UNCHANGED <<seen, verified, acked, session, expired, pc, file, answer,
                   service, crashes>>

(* The observation captures without a live session: the copy stays on this *)
(* device.  The capture is in flight while it acknowledges payments.       *)
captureLocalWork(p) ==
    /\ pc[p] = "idle" /\ ~Live(p) /\ shot[p] = NoFile
    /\ shot' = [shot EXCEPT ![p] = local[DeviceOf(p)]]
    /\ UNCHANGED <<device, session, expired, pc, file, answer, service, crashes>>

CaptureEnds(p) ==
    /\ shot[p] # NoFile
    /\ shot' = [shot EXCEPT ![p] = NoFile]
    /\ UNCHANGED <<device, session, expired, pc, file, answer, service, crashes>>

-------------------------------------------------------------------------------
(* Opening a session *)

Answers == IF StaleOpens THEN 0..Len(cloud) ELSE {Len(cloud)}

(* Mutant: a session that is over is kept. *)
NoSessionYet(p) == session[p] = NoSession

NeedsSession(p) == ~Live(p)

(* A backup command takes its fence, which is that of a capture in flight. *)
(* Without a live session it asks for the passkey and opens one.           *)
openRecoveryCloudBackup(p) ==
    /\ pc[p] = "idle" /\ NeedsSession(p)
    /\ \E n \in Answers : answer' = [answer EXCEPT ![p] = n]
    /\ pc' = [pc EXCEPT ![p] = "open"]
    /\ file' = [file EXCEPT ![p] = shot[p]]
    /\ UNCHANGED <<device, session, expired, shot, service, crashes>>

NotOlder(p) == answer[p] >= seen[DeviceOf(p)]

(* The copy is older than the last verified one. *)
OpenRefused(p) ==
    /\ pc[p] \in {"open", "restore"}
    /\ ~NotOlder(p)
    /\ Return(p)
    /\ UNCHANGED <<device, session, service, crashes>>

(* The command goes on with a capture: the one with its fence, which was   *)
(* taken before the session was opened, unless that one has ended.         *)
AdmitSession(p) ==
    /\ pc[p] = "open"
    /\ NotOlder(p)
    /\ SetSeen(DeviceOf(p), answer[p])
    /\ session' = [session EXCEPT ![p] =
           [revision |-> answer[p], file |-> At(answer[p]),
            pending |-> NoFile]]
    /\ Forget(p)
    /\ expired' = expired \ {p}
    /\ pc' = [pc EXCEPT ![p] = "capture"]
    /\ \E f \in {file[p], NoFile} : file' = [file EXCEPT ![p] = f]
    /\ answer' = [answer EXCEPT ![p] = NoFile]
    /\ UNCHANGED <<local, own, acked, shot, crashes>>

(* Restoring the cloud copy ends the session of the page, and with it the  *)
(* backup session and the sharing of captures.                             *)
restoreRecoveryArchive(p) ==
    /\ pc[p] = "idle"
    /\ \E n \in Answers : answer' = [answer EXCEPT ![p] = n]
    /\ pc' = [pc EXCEPT ![p] = "restore"]
    /\ session' = [session EXCEPT ![p] = NoSession]
    /\ Forget(p)
    /\ expired' = expired \ {p}
    /\ shot' = [shot EXCEPT ![p] = NoFile]
    /\ UNCHANGED <<device, file, crashes>>

RestoreStarts(p) ==
    /\ pc[p] = "restore"
    /\ NotOlder(p)
    /\ pc' = [pc EXCEPT ![p] = "importing"]
    /\ UNCHANGED <<device, session, expired, shot, file, answer, service, crashes>>

(* The import merges the file into the device, and the revision is noted.  *)
restoreVaultRecoveryFile(p) ==
    /\ pc[p] = "importing"
    /\ local' = IF answer[p] = 0 THEN local
                ELSE [local EXCEPT ![DeviceOf(p)] = @ \cup cloud[answer[p]]]
    /\ SetSeen(DeviceOf(p), answer[p])
    /\ Return(p)
    /\ UNCHANGED <<own, acked, session, service, crashes>>

(* The import fails between two journals; it can be repeated.              *)
RestorePartly(p) ==
    /\ pc[p] = "importing" /\ answer[p] # 0
    /\ \E part \in SUBSET cloud[answer[p]] :
          local' = [local EXCEPT ![DeviceOf(p)] = @ \cup part]
    /\ Return(p)
    /\ UNCHANGED <<own, seen, verified, acked, session, service, crashes>>

-------------------------------------------------------------------------------
(* Saving what the device holds *)

(* The observation, or a backup command with a live session: the session   *)
(* is admitted before the capture, and its end is found out by the upload. *)
captureArchive(p) ==
    /\ pc[p] = "idle" /\ session[p] # NoSession
    /\ pc' = [pc EXCEPT ![p] = "capture"]
    /\ UNCHANGED <<device, session, expired, shot, file, answer, service, crashes>>

captureFor(p) ==
    /\ pc[p] = "capture"
    /\ file' = [file EXCEPT ![p] = IF @ # NoFile THEN @ ELSE local[DeviceOf(p)]]
    /\ pc' = [pc EXCEPT ![p] = "sync"]
    /\ UNCHANGED <<device, session, expired, shot, answer, service, crashes>>

(* Mutant: the upload in doubt was verified, whatever it contained. *)
UploadedPending(p) == session[p].pending = NoFile /\ session[p].revision > 0

(* The cloud holds this file, as far as the session knows. *)
UpToDate(p) == session[p].pending = NoFile /\ session[p].file = file[p]

(* The file is reported as the verified service copy. *)
Synced(p) ==
    /\ pc[p] = "sync" /\ UpToDate(p) /\ p \notin expired
    /\ acked' = [acked EXCEPT ![DeviceOf(p)] = @ \cup file[p]]
    /\ Return(p)
    /\ UNCHANGED <<local, own, seen, verified, session, service, crashes>>

(* "Unlock with the original passkey to resume backup" *)
SessionOver(p) ==
    /\ pc[p] = "sync" /\ p \in expired
    /\ Return(p)
    /\ UNCHANGED <<device, session, service, crashes>>

(* An upload in doubt comes first, with the ciphertext it had; a new one   *)
(* encrypts the file at the session's revision.                            *)
Pending(p) == IF session[p].pending # NoFile THEN session[p].pending ELSE file[p]

SendWrite(p) ==
    /\ pc[p] = "sync" /\ ~UpToDate(p) /\ p \notin expired
    /\ session[p].revision < MaxRevision
    /\ session' = [session EXCEPT ![p].pending = Pending(p)]
    /\ net' = net \cup {[page |-> p, revision |-> session[p].revision,
                         file |-> Pending(p), pending |-> TRUE]}
    /\ Cardinality(net') <= MaxRequests
    /\ pc' = [pc EXCEPT ![p] = "write"]
    /\ UNCHANGED <<device, expired, shot, file, answer, cloud, top, crashes>>

(* The read answers with the revision and the ciphertext that were         *)
(* written, or the backup stays in doubt.                                  *)
ReadBack(p) ==
    /\ pc[p] = "read"
    /\ IF Len(cloud) = session[p].revision + 1 /\ top = p
       THEN pc' = [pc EXCEPT ![p] = "verify"] /\ UNCHANGED <<expired, shot, file, answer>>
       ELSE Return(p)
    /\ UNCHANGED <<device, session, service, crashes>>

(* Mutant: the session takes the capture for what it uploaded. *)
CapturedFile(p) == file[p]

VerifiedFile(p) == session[p].pending

(* The copy was decrypted: it is the last verified one. *)
syncSnapshot(p) ==
    /\ pc[p] = "verify"
    /\ SetSeen(DeviceOf(p), session[p].revision + 1)
    /\ session' = [session EXCEPT ![p] =
           [revision |-> @.revision + 1, file |-> VerifiedFile(p),
            pending |-> NoFile]]
    /\ Forget(p)
    /\ pc' = [pc EXCEPT ![p] = "sync"]
    /\ UNCHANGED <<local, own, acked, expired, shot, file, answer, crashes>>

(* A request fails, is refused or answered in vain, or the passkey or the  *)
(* capture fails: the upload stays pending in the session.                 *)
Fails(p) ==
    /\ pc[p] \in {"open", "restore", "capture", "write", "read", "verify"}
    /\ Return(p)
    /\ UNCHANGED <<device, session, service, crashes>>

(* cancel: the wallet locked, or the account changed. *)
Lock(p) ==
    /\ pc[p] = "idle" /\ session[p] # NoSession
    /\ session' = [session EXCEPT ![p] = NoSession]
    /\ Forget(p)
    /\ expired' = expired \ {p}
    /\ shot' = [shot EXCEPT ![p] = NoFile]
    /\ UNCHANGED <<device, pc, file, answer, crashes>>

Expire(p) ==
    /\ Live(p)
    /\ expired' = expired \cup {p}
    /\ UNCHANGED <<device, session, shot, pc, file, answer, service, crashes>>

(* The page is closed: its memory goes, its requests stay under way. *)
Crash(p) ==
    /\ crashes < MaxCrashes
    /\ pc[p] # "idle" \/ session[p] # NoSession
    /\ crashes' = crashes + 1
    /\ pc' = [pc EXCEPT ![p] = "idle"]
    /\ file' = [file EXCEPT ![p] = NoFile]
    /\ answer' = [answer EXCEPT ![p] = NoFile]
    /\ session' = [session EXCEPT ![p] = NoSession]
    /\ Forget(p)
    /\ shot' = [shot EXCEPT ![p] = NoFile]
    /\ expired' = expired \ {p}
    /\ UNCHANGED device

-------------------------------------------------------------------------------
(* The archive service *)

StoreWrite(m) ==
    /\ m.revision = Len(cloud)
    /\ cloud' = Append(cloud, m.file)
    /\ top' = IF m.pending THEN m.page ELSE NoPage

RepeatWrite(m) ==
    /\ m.revision + 1 = Len(cloud) /\ m.pending /\ top = m.page
    /\ UNCHANGED <<cloud, top>>

(* A write that takes effect answers the page that waits for it, unless    *)
(* the answer is lost.                                                     *)
ServeWrite ==
    \E m \in net, delivered \in BOOLEAN :
        /\ StoreWrite(m) \/ RepeatWrite(m)
        /\ net' = net \ {m}
        /\ IF delivered /\ pc[m.page] = "write" /\ m.pending
           THEN pc' = [pc EXCEPT ![m.page] = "read"]
           ELSE UNCHANGED pc
        /\ UNCHANGED <<device, session, expired, shot, file, answer, crashes>>

LoseWrite ==
    \E m \in net :
        /\ net' = net \ {m}
        /\ UNCHANGED <<device, page, cloud, top, crashes>>

-------------------------------------------------------------------------------
PageStep(p) ==
    \/ openRecoveryCloudBackup(p) \/ OpenRefused(p) \/ AdmitSession(p)
    \/ restoreRecoveryArchive(p) \/ RestoreStarts(p) \/ restoreVaultRecoveryFile(p)
    \/ RestorePartly(p)
    \/ captureArchive(p) \/ captureFor(p) \/ Synced(p) \/ SessionOver(p)
    \/ SendWrite(p) \/ ReadBack(p) \/ syncSnapshot(p) \/ Fails(p)
    \/ captureLocalWork(p) \/ CaptureEnds(p)
    \/ Lock(p) \/ Expire(p) \/ Crash(p)
    \/ \E r \in Records : Activity(p, r)

Next == (\E p \in Pages : PageStep(p)) \/ ServeWrite \/ LoseWrite

Spec == Init /\ [][Next]_vars

-------------------------------------------------------------------------------
(* Safety *)

(* A session knows what the cloud holds at its revision: lost answers,     *)
(* late writes and other writers never make it take another copy for its   *)
(* own.                                                                    *)
SessionMatchesCloud ==
    \A p \in Pages :
        session[p] # NoSession /\ session[p].revision > 0 =>
            /\ session[p].revision <= Len(cloud)
            /\ session[p].file = cloud[session[p].revision]

(* What a device reports as verified was uploaded. *)
ReportedWasUploaded ==
    \A d \in Devices : \A r \in acked[d] :
        \E n \in DOMAIN cloud : r \in cloud[n]

(* An upload of a device with one page never takes its own records out of  *)
(* the cloud: no retry, late write or older capture undoes its later       *)
(* backup.                                                                 *)
OwnRecordsKept ==
    [][\A m \in net :
          m \notin net' /\ cloud' # cloud =>
              \A r \in own[DeviceOf(m.page)] : r \in Latest => r \in Latest']_vars

-------------------------------------------------------------------------------
(* Liveness.  The user keeps opening the backup, the wallet keeps          *)
(* capturing, sessions come to their end, and from some point on nothing   *)
(* fails that need not.                                                    *)

Failure ==
    \/ \E p \in Pages :
          /\ Fails(p)
          /\ \/ pc[p] \notin {"read", "write"}
             \/ pc[p] = "read" /\ ENABLED (ReadBack(p) /\ pc'[p] = "verify")
             \/ pc[p] = "write" /\ \E m \in net : m.page = p /\ m.pending
    \/ \E p \in Pages : RestorePartly(p)
    \/ LoseWrite /\ ENABLED ServeWrite
    \/ ServeWrite /\ pc' = pc /\ \E p \in Pages : pc[p] = "write"
    \/ \E p \in Pages : Expire(p) /\ pc[p] # "idle"
    \/ \E p \in Pages : openRecoveryCloudBackup(p) /\ answer'[p] # Len(cloud)

PageWork(p) ==
    \/ OpenRefused(p) \/ AdmitSession(p) \/ RestoreStarts(p)
    \/ restoreVaultRecoveryFile(p) \/ captureFor(p) \/ Synced(p)
    \/ SessionOver(p) \/ SendWrite(p) \/ ReadBack(p) \/ syncSnapshot(p)
    \/ Fails(p)

FairSpec ==
    /\ Spec
    /\ <>[][~Failure]_vars
    /\ \A p \in Pages :
          /\ WF_vars(PageWork(p))
          /\ SF_vars(openRecoveryCloudBackup(p))
          /\ SF_vars(captureArchive(p))
          /\ WF_vars(CaptureEnds(p))
          /\ SF_vars(Expire(p))
    /\ WF_vars(ServeWrite \/ LoseWrite)

(* Every record a device makes gets into a verified upload, whatever       *)
(* failed before: a conflict, a lost answer or a closed page delays it.    *)
(* The bound on uploads ends the model.                                    *)
RecordBackedUp ==
    \A d \in Devices, r \in Records :
        r \in own[d] ~> (r \in acked[d] \/ Len(cloud) = MaxRevision)
===============================================================================
