-------------------------- MODULE CloudBackupProofs --------------------------
(* Proofs about CloudBackup, for any number of devices, tabs and records    *)
(* and any bounds, with services that answer with older copies.             *)
EXTENDS CloudBackup, TLAPS

(* The session of a page, and its work, agree with the stored copies. *)
PageSound(p) ==
    /\ session[p] # NoSession =>
          /\ session[p].revision <= Len(cloud)
          /\ session[p].file = At(session[p].revision)
    /\ pc[p] \in {"capture", "sync", "write", "read", "verify"} => session[p] # NoSession
    /\ pc[p] \in {"sync", "write", "read", "verify"} => file[p] # NoFile
    /\ pc[p] \in {"write", "read", "verify"} => session[p].pending # NoFile
    /\ pc[p] = "verify" =>
          /\ session[p].revision < Len(cloud)
          /\ cloud[session[p].revision + 1] = session[p].pending
    /\ pc[p] \in {"open", "restore", "importing"} => answer[p] \in 0..Len(cloud)

PagesSound == \A p \in Pages : PageSound(p)

(* A write with the ciphertext a page has in doubt is that page's upload.  *)
WritesSound ==
    \A m \in net :
        /\ m.revision < MaxRevision
        /\ m.pending =>
              /\ session[m.page] # NoSession
              /\ session[m.page].revision = m.revision
              /\ session[m.page].pending = m.file

(* So is the current copy when it has that ciphertext. *)
TopSound ==
    top # NoPage =>
        /\ session[top] # NoSession
        /\ Len(cloud) = session[top].revision + 1
        /\ cloud[Len(cloud)] = session[top].pending

IInv == TypeOK /\ PagesSound /\ WritesSound /\ TopSound /\ ReportedWasUploaded

-------------------------------------------------------------------------------
(* Every step keeps it *)

LEMMA InitSafe == Init => IInv
  <1> SUFFICES ASSUME Init PROVE IInv
    OBVIOUS
  <1> USE DEF Init
  <1>1. TypeOK
    BY BoundAssumption DEF TypeOK, Files, Revisions, Places
  <1>2. PagesSound /\ WritesSound /\ TopSound /\ ReportedWasUploaded
    BY DEF PagesSound, PageSound, WritesSound, TopSound, ReportedWasUploaded
  <1> QED
    BY <1>1, <1>2 DEF IInv

(* A step that leaves the sessions, the reports and the service alone. *)
LEMMA Untouched ==
    ASSUME IInv, UNCHANGED <<session, acked, service>>
    PROVE  WritesSound' /\ TopSound' /\ ReportedWasUploaded'
  BY DEF IInv, WritesSound, TopSound, ReportedWasUploaded, service

(* A page that forgets its upload leaves what is under way to the others.  *)
LEMMA ForgetSafe ==
    ASSUME TypeOK, NEW p \in Pages, Forget(p)
    PROVE  /\ net' \subseteq Writes
           /\ \A m \in net' : \E n \in net :
                 /\ m.page = n.page /\ m.revision = n.revision /\ m.file = n.file
                 /\ m.pending => n.pending /\ n.page # p
           /\ top' \in {top, NoPage} /\ top' # p
           /\ cloud' = cloud
  <1>1. ASSUME NEW m \in net'
        PROVE  /\ m \in Writes
               /\ \E n \in net :
                     /\ m.page = n.page /\ m.revision = n.revision /\ m.file = n.file
                     /\ m.pending => n.pending /\ n.page # p
    <2>1. PICK n \in net : m = IF n.page = p THEN [n EXCEPT !.pending = FALSE] ELSE n
      BY <1>1 DEF Forget
    <2>2. n \in Writes
      BY DEF TypeOK
    <2> QED
      BY <2>1, <2>2 DEF Writes
  <1>2. top' \in {top, NoPage} /\ top' # p /\ cloud' = cloud
    BY NullAssumption DEF Forget
  <1> QED
    BY <1>1, <1>2

LEMMA ForgetTyped ==
    ASSUME TypeOK, NEW p \in Pages, Forget(p)
    PROVE  /\ net' \subseteq Writes
           /\ top' \in Pages \cup {NoPage}
           /\ cloud' \in Seq(Files) /\ Len(cloud') <= MaxRevision
  BY ForgetSafe DEF TypeOK

(* A page that ends or replaces its session disturbs no other's uploads.   *)
LEMMA ForgottenSafe ==
    ASSUME IInv, NEW p \in Pages, Forget(p),
           \A q \in Pages \ {p} : session'[q] = session[q]
    PROVE  WritesSound' /\ TopSound'
  <1> USE DEF IInv
  <1>1. WritesSound'
    <2> SUFFICES ASSUME NEW m \in net'
                 PROVE  /\ m.revision < MaxRevision
                        /\ m.pending => /\ session'[m.page] # NoSession
                                        /\ session'[m.page].revision = m.revision
                                        /\ session'[m.page].pending = m.file
      BY DEF WritesSound
    <2>1. PICK n \in net :
             /\ m.page = n.page /\ m.revision = n.revision /\ m.file = n.file
             /\ m.pending => n.pending /\ n.page # p
      BY ForgetSafe
    <2>2. n.page \in Pages
      BY DEF TypeOK, Writes
    <2> QED
      BY <2>1, <2>2 DEF WritesSound
  <1>2. TopSound'
    BY ForgetSafe DEF TopSound, TypeOK
  <1> QED
    BY <1>1, <1>2

(* A step of a page that leaves the stored copies and the other pages      *)
(* alone.                                                                  *)
LEMMA OthersSound ==
    ASSUME IInv, NEW p \in Pages, cloud' = cloud, PageSound(p)',
           \A q \in Pages \ {p} :
              /\ session'[q] = session[q] /\ pc'[q] = pc[q]
              /\ file'[q] = file[q] /\ answer'[q] = answer[q]
    PROVE  PagesSound'
  BY DEF IInv, PagesSound, PageSound, At

(* The copy an open is answered with. *)
LEMMA AnswerTyped ==
    ASSUME TypeOK, NEW n \in 0..Len(cloud)
    PROVE  n \in Revisions /\ At(n) \in Files \cup {NoFile}
  BY BoundAssumption DEF TypeOK, At, Revisions

LEMMA DeviceOfPage ==
    ASSUME NEW p \in Pages
    PROVE  DeviceOf(p) \in Devices
  BY DEF Pages, DeviceOf

-------------------------------------------------------------------------------
(* One lemma for each action *)

LEMMA openRecoveryCloudBackupSafe ==
    ASSUME IInv, NEW p \in Pages, openRecoveryCloudBackup(p)
    PROVE  IInv'
  <1> USE DEF openRecoveryCloudBackup, NeedsSession, Live, Answers, IInv, device, service
  <1>1. TypeOK'
    BY BoundAssumption, DeviceOfPage DEF TypeOK, Places, PagesSound, PageSound, Files, Revisions
  <1>2. PageSound(p)'
    BY DEF TypeOK, PagesSound, PageSound, At
  <1>3. PagesSound'
    BY <1>2, OthersSound DEF TypeOK
  <1> QED
    BY <1>1, <1>3, Untouched

LEMMA OpenRefusedSafe ==
    ASSUME IInv, NEW p \in Pages, OpenRefused(p)
    PROVE  IInv'
  <1> USE DEF OpenRefused, NotOlder, Return, IInv, device, service
  <1>1. TypeOK'
    BY BoundAssumption, DeviceOfPage DEF TypeOK, Places, PagesSound, PageSound, Files, Revisions
  <1>2. PageSound(p)'
    BY DEF TypeOK, PagesSound, PageSound, At
  <1>3. PagesSound'
    BY <1>2, OthersSound DEF TypeOK
  <1> QED
    BY <1>1, <1>3, Untouched

LEMMA AdmitSessionSafe ==
    ASSUME IInv, NEW p \in Pages, AdmitSession(p)
    PROVE  IInv'
  <1> USE DEF AdmitSession, NotOlder, SetSeen, IInv, device
  <1>1. TypeOK'
    <2>1. answer[p] \in 0..Len(cloud)
      BY DEF PagesSound, PageSound
    <2>2. session' \in [Pages -> RecoveryBackupSession \cup {NoSession}]
      BY <2>1, AnswerTyped DEF TypeOK, RecoveryBackupSession
    <2>3. /\ seen' \in [Devices -> Revisions]
          /\ verified' \in [Devices -> Revisions]
      BY <2>1, AnswerTyped, DeviceOfPage DEF TypeOK
    <2>4. file' \in [Pages -> Files \cup {NoFile}]
      BY DEF TypeOK
    <2> QED
      BY <2>2, <2>3, <2>4, ForgetTyped DEF TypeOK, Places
  <1>2. cloud' = cloud
    BY DEF Forget
  <1>3. PageSound(p)'
    <2>1. session'[p] = [revision |-> answer[p], file |-> At(answer[p]), pending |-> NoFile]
      BY DEF TypeOK
    <2>2. answer[p] \in 0..Len(cloud) /\ pc'[p] = "capture"
      BY DEF TypeOK, PagesSound, PageSound
    <2>3. session'[p] # NoSession
      BY <2>1, <2>2, AnswerTyped, NullAssumption DEF RecoveryBackupSession
    <2> QED
      BY <1>2, <2>1, <2>2, <2>3 DEF PageSound, At, TypeOK
  <1>4. PagesSound'
    BY <1>2, <1>3, OthersSound DEF TypeOK
  <1>5. WritesSound' /\ TopSound'
    BY ForgottenSafe DEF TypeOK
  <1>6. ReportedWasUploaded'
    BY <1>2 DEF ReportedWasUploaded
  <1> QED
    BY <1>1, <1>4, <1>5, <1>6

LEMMA restoreRecoveryArchiveSafe ==
    ASSUME IInv, NEW p \in Pages, restoreRecoveryArchive(p)
    PROVE  IInv'
  <1> USE DEF restoreRecoveryArchive, Answers, IInv, device
  <1>1. TypeOK'
    <2>1. answer' \in [Pages -> Revisions \cup {NoFile}]
      BY AnswerTyped, BoundAssumption DEF TypeOK
    <2> QED
      BY <2>1, ForgetTyped DEF TypeOK, Places
  <1>2. cloud' = cloud
    BY DEF Forget
  <1>3. PageSound(p)'
    BY <1>2 DEF TypeOK, PagesSound, PageSound, At, RecoveryBackupSession, Files, Revisions
  <1>4. PagesSound'
    BY <1>2, <1>3, OthersSound DEF TypeOK
  <1>5. WritesSound' /\ TopSound'
    BY ForgottenSafe DEF TypeOK
  <1>6. ReportedWasUploaded'
    BY <1>2 DEF ReportedWasUploaded
  <1> QED
    BY <1>1, <1>4, <1>5, <1>6

LEMMA RestoreStartsSafe ==
    ASSUME IInv, NEW p \in Pages, RestoreStarts(p)
    PROVE  IInv'
  <1> USE DEF RestoreStarts, NotOlder, IInv, device, service
  <1>1. TypeOK'
    BY BoundAssumption, DeviceOfPage DEF TypeOK, Places, PagesSound, PageSound, Files, Revisions
  <1>2. PageSound(p)'
    BY DEF TypeOK, PagesSound, PageSound, At
  <1>3. PagesSound'
    BY <1>2, OthersSound DEF TypeOK
  <1> QED
    BY <1>1, <1>3, Untouched

LEMMA restoreVaultRecoveryFileSafe ==
    ASSUME IInv, NEW p \in Pages, restoreVaultRecoveryFile(p)
    PROVE  IInv'
  <1> USE DEF restoreVaultRecoveryFile, SetSeen, Return, IInv, device, service
  <1>1. TypeOK'
    BY BoundAssumption, DeviceOfPage DEF TypeOK, Places, PagesSound, PageSound, Files, Revisions
  <1>2. PageSound(p)'
    BY DEF TypeOK, PagesSound, PageSound, At
  <1>3. PagesSound'
    BY <1>2, OthersSound DEF TypeOK
  <1> QED
    BY <1>1, <1>3, Untouched

LEMMA RestorePartlySafe ==
    ASSUME IInv, NEW p \in Pages, RestorePartly(p)
    PROVE  IInv'
  <1> USE DEF RestorePartly, Return, IInv, device, service
  <1>1. TypeOK'
    BY BoundAssumption, DeviceOfPage DEF TypeOK, Places, PagesSound, PageSound, Files, Revisions
  <1>2. PageSound(p)'
    BY DEF TypeOK, PagesSound, PageSound, At
  <1>3. PagesSound'
    BY <1>2, OthersSound DEF TypeOK
  <1> QED
    BY <1>1, <1>3, Untouched

LEMMA captureArchiveSafe ==
    ASSUME IInv, NEW p \in Pages, captureArchive(p)
    PROVE  IInv'
  <1> USE DEF captureArchive, IInv, device, service
  <1>1. TypeOK'
    BY BoundAssumption, DeviceOfPage DEF TypeOK, Places, PagesSound, PageSound, Files, Revisions
  <1>2. PageSound(p)'
    BY DEF TypeOK, PagesSound, PageSound, At
  <1>3. PagesSound'
    BY <1>2, OthersSound DEF TypeOK
  <1> QED
    BY <1>1, <1>3, Untouched

LEMMA captureForSafe ==
    ASSUME IInv, NEW p \in Pages, captureFor(p)
    PROVE  IInv'
  <1> USE DEF captureFor, IInv, device, service
  <1>1. TypeOK'
    BY BoundAssumption, DeviceOfPage DEF TypeOK, Places, PagesSound, PageSound, Files, Revisions
  <1>2. PageSound(p)'
    BY NullAssumption, DeviceOfPage DEF TypeOK, PagesSound, PageSound, At
  <1>3. PagesSound'
    BY <1>2, OthersSound DEF TypeOK
  <1> QED
    BY <1>1, <1>3, Untouched

LEMMA SyncedSafe ==
    ASSUME IInv, NEW p \in Pages, Synced(p)
    PROVE  IInv'
  <1> USE DEF Synced, UpToDate, Return, IInv, device, service
  <1>1. file[p] \in Files /\ session[p] # NoSession /\ session[p] \in RecoveryBackupSession
    BY DEF TypeOK, PagesSound, PageSound
  <1>2. TypeOK'
    BY <1>1, DeviceOfPage DEF TypeOK, Places, Files
  <1>3. PageSound(p)'
    BY DEF TypeOK, PagesSound, PageSound, At
  <1>4. PagesSound'
    BY <1>3, OthersSound DEF TypeOK
  <1>5. WritesSound' /\ TopSound'
    BY DEF WritesSound, TopSound
  <1>6. session[p].revision \in DOMAIN cloud /\ file[p] = cloud[session[p].revision]
    BY <1>1, NullAssumption DEF TypeOK, PagesSound, PageSound, At, RecoveryBackupSession, Revisions
  <1>7. ReportedWasUploaded'
    BY <1>1, <1>6, DeviceOfPage DEF TypeOK, ReportedWasUploaded
  <1> QED
    BY <1>2, <1>4, <1>5, <1>7

LEMMA SessionOverSafe ==
    ASSUME IInv, NEW p \in Pages, SessionOver(p)
    PROVE  IInv'
  <1> USE DEF SessionOver, Return, IInv, device, service
  <1>1. TypeOK'
    BY BoundAssumption, DeviceOfPage DEF TypeOK, Places, PagesSound, PageSound, Files, Revisions
  <1>2. PageSound(p)'
    BY DEF TypeOK, PagesSound, PageSound, At
  <1>3. PagesSound'
    BY <1>2, OthersSound DEF TypeOK
  <1> QED
    BY <1>1, <1>3, Untouched

LEMMA SendWriteSafe ==
    ASSUME IInv, NEW p \in Pages, SendWrite(p)
    PROVE  IInv'
  <1> USE DEF SendWrite, IInv, device
  <1>1. file[p] \in Files /\ session[p] # NoSession /\ session[p] \in RecoveryBackupSession
    BY DEF TypeOK, PagesSound, PageSound
  <1>2. Pending(p) \in Files /\ session'[p] = [session[p] EXCEPT !.pending = Pending(p)]
    BY <1>1 DEF TypeOK, Pending, RecoveryBackupSession
  <1>3. session' \in [Pages -> RecoveryBackupSession \cup {NoSession}]
    BY <1>1, <1>2 DEF TypeOK, RecoveryBackupSession
  <1>4. net' \subseteq Writes
    <2>1. [page |-> p, revision |-> session[p].revision, file |-> Pending(p), pending |-> TRUE]
            \in Writes
      BY <1>1, <1>2 DEF Writes, RecoveryBackupSession
    <2> QED
      BY <2>1 DEF TypeOK
  <1>5. TypeOK'
    BY <1>3, <1>4 DEF TypeOK, Places
  <1>6. PageSound(p)'
    BY <1>1, <1>2, NullAssumption DEF TypeOK, PagesSound, PageSound, At, RecoveryBackupSession
  <1>7. PagesSound'
    BY <1>6, OthersSound DEF TypeOK
  <1>8. session[p].pending # NoFile => session'[p] = session[p]
    BY <1>1, <1>2 DEF Pending, RecoveryBackupSession
  <1>9. WritesSound'
    <2> SUFFICES ASSUME NEW m \in net'
                 PROVE  /\ m.revision < MaxRevision
                        /\ m.pending => /\ session'[m.page] # NoSession
                                        /\ session'[m.page].revision = m.revision
                                        /\ session'[m.page].pending = m.file
      BY DEF WritesSound
    <2>1. CASE m \in net
      <3>1. m \in Writes /\ m.file # NoFile
        BY <2>1, NullAssumption DEF TypeOK, Writes
      <3>2. CASE m.page = p
        BY <2>1, <3>1, <3>2, <1>1, <1>8 DEF WritesSound, TypeOK, RecoveryBackupSession
      <3>3. CASE m.page # p
        BY <2>1, <3>1, <3>3 DEF WritesSound, TypeOK, Writes
      <3> QED
        BY <3>2, <3>3
    <2>2. CASE m \notin net
      BY <2>2, <1>1, <1>2, NullAssumption DEF TypeOK, RecoveryBackupSession
    <2> QED
      BY <2>1, <2>2
  <1>10. TopSound'
    <2>1. top = p => session[p].pending # NoFile
      <3> SUFFICES ASSUME top = p PROVE session[p].pending # NoFile
        OBVIOUS
      <3>1. Len(cloud) \in 1..Len(cloud)
        BY <1>1, NullAssumption DEF TypeOK, TopSound, RecoveryBackupSession, Revisions
      <3> QED
        BY <3>1, NullAssumption DEF TypeOK, TopSound
    <2> QED
      BY <2>1, <1>8 DEF TypeOK, TopSound
  <1> QED
    BY <1>5, <1>7, <1>9, <1>10 DEF ReportedWasUploaded

LEMMA ReadBackSafe ==
    ASSUME IInv, NEW p \in Pages, ReadBack(p)
    PROVE  IInv'
  <1> USE DEF ReadBack, Return, IInv, device, service
  <1>1. TypeOK'
    BY BoundAssumption, DeviceOfPage DEF TypeOK, Places, PagesSound, PageSound, Files, Revisions
  <1>2. PageSound(p)'
    BY NullAssumption DEF TypeOK, PagesSound, PageSound, At, TopSound,
      RecoveryBackupSession, Revisions
  <1>3. PagesSound'
    BY <1>2, OthersSound DEF TypeOK
  <1> QED
    BY <1>1, <1>3, Untouched

LEMMA syncSnapshotSafe ==
    ASSUME IInv, NEW p \in Pages, syncSnapshot(p)
    PROVE  IInv'
  <1> USE DEF syncSnapshot, VerifiedFile, SetSeen, IInv, device
  <1>1. TypeOK'
    <2>1. session[p] \in RecoveryBackupSession /\ session[p].revision < Len(cloud)
      BY DEF TypeOK, PagesSound, PageSound
    <2>2. session[p].revision + 1 \in Revisions
      BY <2>1, BoundAssumption DEF TypeOK, RecoveryBackupSession, Revisions
    <2>3. session' \in [Pages -> RecoveryBackupSession \cup {NoSession}]
      BY <2>1, <2>2 DEF TypeOK, RecoveryBackupSession
    <2>4. /\ seen' \in [Devices -> Revisions]
          /\ verified' \in [Devices -> Revisions]
      BY <2>2, DeviceOfPage DEF TypeOK
    <2> QED
      BY <2>3, <2>4, ForgetTyped DEF TypeOK, Places
  <1>2. cloud' = cloud
    BY DEF Forget
  <1>3. PageSound(p)'
    <2>1. session[p] \in RecoveryBackupSession
      BY DEF TypeOK, PagesSound, PageSound
    <2>2. session'[p] = [revision |-> session[p].revision + 1, file |-> session[p].pending,
                         pending |-> NoFile]
      BY DEF TypeOK
    <2>3. /\ session[p].revision < Len(cloud)
          /\ cloud[session[p].revision + 1] = session[p].pending
          /\ file[p] # NoFile
      BY DEF PagesSound, PageSound
    <2>4. session'[p] # NoSession
      <3>1. session[p].revision + 1 \in Revisions
        BY <2>1, <2>3, BoundAssumption DEF TypeOK, RecoveryBackupSession, Revisions
      <3>2. session'[p] \in RecoveryBackupSession
        BY <2>1, <2>2, <3>1 DEF RecoveryBackupSession
      <3> QED
        BY <3>2, NullAssumption
    <2> QED
      BY <1>2, <2>1, <2>2, <2>3, <2>4 DEF PageSound, At, TypeOK, RecoveryBackupSession, Revisions
  <1>4. PagesSound'
    BY <1>2, <1>3, OthersSound DEF TypeOK
  <1>5. WritesSound' /\ TopSound'
    BY ForgottenSafe DEF TypeOK
  <1>6. ReportedWasUploaded'
    BY <1>2 DEF ReportedWasUploaded
  <1> QED
    BY <1>1, <1>4, <1>5, <1>6

LEMMA FailsSafe ==
    ASSUME IInv, NEW p \in Pages, Fails(p)
    PROVE  IInv'
  <1> USE DEF Fails, Return, IInv, device, service
  <1>1. TypeOK'
    BY BoundAssumption, DeviceOfPage DEF TypeOK, Places, PagesSound, PageSound, Files, Revisions
  <1>2. PageSound(p)'
    BY DEF TypeOK, PagesSound, PageSound, At
  <1>3. PagesSound'
    BY <1>2, OthersSound DEF TypeOK
  <1> QED
    BY <1>1, <1>3, Untouched

LEMMA captureLocalWorkSafe ==
    ASSUME IInv, NEW p \in Pages, captureLocalWork(p)
    PROVE  IInv'
  <1> USE DEF captureLocalWork, Live, IInv, device, service
  <1>1. TypeOK'
    BY BoundAssumption, DeviceOfPage DEF TypeOK, Places, PagesSound, PageSound, Files, Revisions
  <1>2. PageSound(p)'
    BY DEF TypeOK, PagesSound, PageSound, At
  <1>3. PagesSound'
    BY <1>2, OthersSound DEF TypeOK
  <1> QED
    BY <1>1, <1>3, Untouched

LEMMA CaptureEndsSafe ==
    ASSUME IInv, NEW p \in Pages, CaptureEnds(p)
    PROVE  IInv'
  <1> USE DEF CaptureEnds, IInv, device, service
  <1>1. TypeOK'
    BY BoundAssumption, DeviceOfPage DEF TypeOK, Places, PagesSound, PageSound, Files, Revisions
  <1>2. PageSound(p)'
    BY DEF TypeOK, PagesSound, PageSound, At
  <1>3. PagesSound'
    BY <1>2, OthersSound DEF TypeOK
  <1> QED
    BY <1>1, <1>3, Untouched

LEMMA LockSafe ==
    ASSUME IInv, NEW p \in Pages, Lock(p)
    PROVE  IInv'
  <1> USE DEF Lock, IInv, device
  <1>1. TypeOK'
    BY ForgetTyped DEF TypeOK
  <1>2. cloud' = cloud
    BY DEF Forget
  <1>3. PageSound(p)'
    BY <1>2 DEF TypeOK, PagesSound, PageSound, At, RecoveryBackupSession, Files, Revisions
  <1>4. PagesSound'
    BY <1>2, <1>3, OthersSound DEF TypeOK
  <1>5. WritesSound' /\ TopSound'
    BY ForgottenSafe DEF TypeOK
  <1>6. ReportedWasUploaded'
    BY <1>2 DEF ReportedWasUploaded
  <1> QED
    BY <1>1, <1>4, <1>5, <1>6

LEMMA ExpireSafe ==
    ASSUME IInv, NEW p \in Pages, Expire(p)
    PROVE  IInv'
  <1> USE DEF Expire, Live, IInv, device, service
  <1>1. TypeOK'
    BY BoundAssumption, DeviceOfPage DEF TypeOK, Places, PagesSound, PageSound, Files, Revisions
  <1>2. PageSound(p)'
    BY DEF TypeOK, PagesSound, PageSound, At
  <1>3. PagesSound'
    BY <1>2, OthersSound DEF TypeOK
  <1> QED
    BY <1>1, <1>3, Untouched

LEMMA CrashSafe ==
    ASSUME IInv, NEW p \in Pages, Crash(p)
    PROVE  IInv'
  <1> USE DEF Crash, IInv, device
  <1>1. TypeOK'
    BY ForgetTyped DEF TypeOK, Places
  <1>2. cloud' = cloud
    BY DEF Forget
  <1>3. PageSound(p)'
    BY <1>2 DEF TypeOK, PagesSound, PageSound, At, RecoveryBackupSession, Files, Revisions
  <1>4. PagesSound'
    BY <1>2, <1>3, OthersSound DEF TypeOK
  <1>5. WritesSound' /\ TopSound'
    BY ForgottenSafe DEF TypeOK
  <1>6. ReportedWasUploaded'
    BY <1>2 DEF ReportedWasUploaded
  <1> QED
    BY <1>1, <1>4, <1>5, <1>6

LEMMA ActivitySafe ==
    ASSUME IInv, NEW p \in Pages, NEW r \in Records, Activity(p, r)
    PROVE  IInv'
  <1> USE DEF Activity, NewEpoch, IInv, device, service
  <1>1. TypeOK'
    BY BoundAssumption, DeviceOfPage DEF TypeOK, Places, PagesSound, PageSound, Files, Revisions
  <1>2. PageSound(p)'
    BY DEF TypeOK, PagesSound, PageSound, At
  <1>3. PagesSound'
    BY <1>2, OthersSound DEF TypeOK
  <1> QED
    BY <1>1, <1>3, Untouched

(* The service *)

LEMMA ServeWriteSafe ==
    ASSUME IInv, ServeWrite
    PROVE  IInv'
  <1> USE DEF IInv, device
  <1>1. PICK m \in net, delivered \in BOOLEAN :
           /\ StoreWrite(m) \/ RepeatWrite(m)
           /\ net' = net \ {m}
           /\ \/ m.pending /\ pc[m.page] = "write" /\ pc' = [pc EXCEPT ![m.page] = "read"]
              \/ UNCHANGED pc
           /\ UNCHANGED <<device, session, expired, shot, file, answer, crashes>>
    BY DEF ServeWrite
  <1>2. m \in Writes
    BY DEF TypeOK
  <1>3. /\ cloud' \in Seq(Files) /\ Len(cloud') \in Len(cloud)..MaxRevision
        /\ \A n \in 1..Len(cloud) : cloud'[n] = cloud[n]
    <2>1. CASE StoreWrite(m)
      <3>1. m.file \in Files /\ Len(cloud) < MaxRevision
        BY <2>1, <1>2 DEF StoreWrite, WritesSound, Writes
      <3>2. /\ cloud' \in Seq(Files) /\ Len(cloud') = Len(cloud) + 1
            /\ \A n \in 1..Len(cloud) : cloud'[n] = cloud[n]
        BY <2>1, <3>1 DEF StoreWrite, TypeOK
      <3> QED
        BY <3>1, <3>2, BoundAssumption DEF TypeOK
    <2>2. CASE RepeatWrite(m)
      BY <2>2, BoundAssumption DEF RepeatWrite, TypeOK
    <2> QED
      BY <1>1, <2>1, <2>2
  <1>4. top' \in Pages \cup {NoPage}
    BY <1>1, <1>2 DEF TypeOK, StoreWrite, RepeatWrite, Writes
  <1>5. TypeOK'
    BY <1>1, <1>2, <1>3, <1>4 DEF TypeOK, Places, Writes
  <1>6. ASSUME NEW p \in Pages
        PROVE  PageSound(p)'
    <2>1. pc'[p] = pc[p] \/ (pc[p] = "write" /\ pc'[p] = "read")
      BY <1>1 DEF TypeOK
    <2>2. session[p] # NoSession => session[p] \in RecoveryBackupSession
      BY DEF TypeOK
    <2>3. Len(cloud) \in Nat /\ Len(cloud') \in Nat /\ Len(cloud) <= Len(cloud')
      BY <1>3, BoundAssumption DEF TypeOK
    <2>4. ASSUME session[p] # NoSession
          PROVE  /\ session[p].revision <= Len(cloud')
                 /\ session[p].file = At(session[p].revision)'
      <3>1. session[p].revision \in 0..Len(cloud) /\ session[p].file = At(session[p].revision)
        BY <2>2, <2>4 DEF PagesSound, PageSound, RecoveryBackupSession, Revisions
      <3> QED
        BY <1>1, <1>3, <2>3, <3>1 DEF At
    <2>5. ASSUME pc'[p] = "verify"
          PROVE  /\ session[p].revision < Len(cloud')
                 /\ cloud'[session[p].revision + 1] = session[p].pending
      <3>1. /\ session[p].revision \in Nat /\ session[p].revision + 1 \in 1..Len(cloud)
            /\ cloud[session[p].revision + 1] = session[p].pending
        BY <2>1, <2>2, <2>3, <2>5 DEF PagesSound, PageSound, RecoveryBackupSession, Revisions
      <3> QED
        BY <1>3, <2>3, <3>1
    <2>6. pc'[p] \in {"open", "restore", "importing"} => answer[p] \in 0..Len(cloud')
      BY <2>1, <2>3 DEF PagesSound, PageSound
    <2> QED
      BY <1>1, <2>1, <2>4, <2>5, <2>6 DEF PagesSound, PageSound
  <1>7. WritesSound'
    BY <1>1 DEF WritesSound
  <1>8. TopSound'
    <2>1. CASE StoreWrite(m)
      <3>1. Len(cloud') = m.revision + 1 /\ cloud'[m.revision + 1] = m.file
        BY <2>1, <1>2 DEF StoreWrite, TypeOK, Writes
      <3> QED
        BY <2>1, <3>1, <1>1 DEF TopSound, WritesSound, StoreWrite
    <2>2. CASE RepeatWrite(m)
      BY <2>2, <1>1 DEF TopSound, RepeatWrite
    <2> QED
      BY <1>1, <2>1, <2>2
  <1>9. ReportedWasUploaded'
    BY <1>1, <1>3 DEF TypeOK, ReportedWasUploaded
  <1> QED
    BY <1>5, <1>6, <1>7, <1>8, <1>9 DEF PagesSound

LEMMA LoseWriteSafe ==
    ASSUME IInv, LoseWrite
    PROVE  IInv'
  <1> USE DEF LoseWrite, IInv, device, page
  <1>1. TypeOK'
    BY DEF TypeOK
  <1>2. PagesSound'
    BY DEF PagesSound, PageSound, At
  <1>3. WritesSound' /\ TopSound' /\ ReportedWasUploaded'
    BY DEF WritesSound, TopSound, ReportedWasUploaded
  <1> QED
    BY <1>1, <1>2, <1>3

LEMMA StepSafe ==
    ASSUME IInv, [Next]_vars
    PROVE  IInv'
  <1>1. ASSUME NEW p \in Pages, PageStep(p)
        PROVE  IInv'
    <2>1. CASE openRecoveryCloudBackup(p) \/ OpenRefused(p) \/ AdmitSession(p)
      BY <2>1, openRecoveryCloudBackupSafe, OpenRefusedSafe, AdmitSessionSafe
    <2>2. CASE \/ restoreRecoveryArchive(p) \/ RestoreStarts(p)
               \/ restoreVaultRecoveryFile(p) \/ RestorePartly(p)
      BY <2>2, restoreRecoveryArchiveSafe, RestoreStartsSafe, restoreVaultRecoveryFileSafe,
        RestorePartlySafe
    <2>3. CASE captureArchive(p) \/ captureFor(p) \/ Synced(p) \/ SessionOver(p)
      BY <2>3, captureArchiveSafe, captureForSafe, SyncedSafe, SessionOverSafe
    <2>4. CASE SendWrite(p) \/ ReadBack(p) \/ syncSnapshot(p) \/ Fails(p)
      BY <2>4, SendWriteSafe, ReadBackSafe, syncSnapshotSafe, FailsSafe
    <2>5. CASE captureLocalWork(p) \/ CaptureEnds(p) \/ \E r \in Records : Activity(p, r)
      BY <2>5, captureLocalWorkSafe, CaptureEndsSafe, ActivitySafe
    <2>6. CASE Lock(p) \/ Expire(p) \/ Crash(p)
      BY <2>6, LockSafe, ExpireSafe, CrashSafe
    <2> QED
      BY <1>1, <2>1, <2>2, <2>3, <2>4, <2>5, <2>6 DEF PageStep
  <1>2. ASSUME UNCHANGED vars
        PROVE  IInv'
    BY <1>2 DEF vars, IInv, TypeOK, PagesSound, PageSound, At, WritesSound, TopSound,
      ReportedWasUploaded
  <1> QED
    BY <1>1, <1>2, ServeWriteSafe, LoseWriteSafe DEF Next

-------------------------------------------------------------------------------
(* With one page on a device, no upload of it loses one of its own records *)

OneTab == \A t, u \in Tabs : t = u

(* The records of all the devices.  The next one a device makes is new     *)
(* everywhere.                                                             *)
Made == UNION {own[d] : d \in Devices}

NothingUnmade ==
    /\ \A d \in Devices : local[d] \subseteq Made
    /\ \A p \in Pages :
          /\ shot[p] # NoFile => shot[p] \subseteq Made
          /\ file[p] # NoFile => file[p] \subseteq Made
          /\ session[p] # NoSession /\ session[p].pending # NoFile =>
                session[p].pending \subseteq Made
    /\ \A m \in net : m.file \subseteq Made
    /\ \A n \in DOMAIN cloud : cloud[n] \subseteq Made

(* File g can take the place of file f: the page's device loses nothing.   *)
Replaces(p, g, f) == f # NoFile => own[DeviceOf(p)] \cap f \subseteq g

(* A capture is of the activity epoch the page is in. *)
CapturesComplete ==
    /\ \A d \in Devices : own[d] \subseteq local[d]
    /\ \A p \in Pages : shot[p] # NoFile => own[DeviceOf(p)] \subseteq shot[p]

(* The file a page saves can replace the copy its session has, and the     *)
(* upload it has in doubt.                                                 *)
WorkReplaces(p) ==
    /\ pc[p] \in {"idle", "restore", "importing"} => file[p] = NoFile
    /\ pc[p] = "open" /\ file[p] # NoFile => Replaces(p, file[p], At(answer[p]))
    /\ pc[p] = "capture" /\ file[p] # NoFile =>
          session[p].pending = NoFile /\ Replaces(p, file[p], session[p].file)
    /\ pc[p] \in {"sync", "write", "read", "verify"} =>
          /\ Replaces(p, file[p], session[p].file)
          /\ Replaces(p, file[p], session[p].pending)
    /\ session[p] # NoSession /\ session[p].pending # NoFile =>
          Replaces(p, session[p].pending, session[p].file)

(* So can every write the copy at its revision, whoever forgot it. *)
WritesReplace ==
    \A m \in net :
        m.revision <= Len(cloud) /\ Replaces(m.page, m.file, At(m.revision))

OwnInv ==
    /\ NothingUnmade /\ CapturesComplete /\ WritesReplace
    /\ \A p \in Pages : WorkReplaces(p)

LEMMA InitOwn == Init => OwnInv
  <1> SUFFICES ASSUME Init PROVE OwnInv
    OBVIOUS
  <1> USE DEF Init
  <1>1. NothingUnmade /\ CapturesComplete /\ WritesReplace
    BY DEF NothingUnmade, CapturesComplete, WritesReplace
  <1>2. \A p \in Pages : WorkReplaces(p)
    BY DEF WorkReplaces
  <1> QED
    BY <1>1, <1>2 DEF OwnInv

(* A page answers for its own files, and for the writes it sends; the      *)
(* device only gets more.                                                  *)
LEMMA PageOwn ==
    ASSUME OwnInv, NEW p \in Pages, own' = own, cloud' = cloud,
           \A d \in Devices : local[d] \subseteq local'[d] /\ local'[d] \subseteq Made,
           \A q \in Pages \ {p} :
              /\ session'[q] = session[q] /\ pc'[q] = pc[q] /\ shot'[q] = shot[q]
              /\ file'[q] = file[q] /\ answer'[q] = answer[q],
           shot'[p] # NoFile =>
              shot'[p] \subseteq Made /\ own[DeviceOf(p)] \subseteq shot'[p],
           file'[p] # NoFile => file'[p] \subseteq Made,
           session'[p] # NoSession /\ session'[p].pending # NoFile =>
              session'[p].pending \subseteq Made,
           \A m \in net' :
              \/ \E n \in net :
                    m.page = n.page /\ m.revision = n.revision /\ m.file = n.file
              \/ /\ m.file \subseteq Made /\ m.revision <= Len(cloud)
                 /\ Replaces(m.page, m.file, At(m.revision)),
           WorkReplaces(p)'
    PROVE  OwnInv'
  <1> USE DEF OwnInv
  <1>1. Made' = Made
    BY DEF Made
  <1>2. NothingUnmade'
    <2>1. \A d \in Devices : local'[d] \subseteq Made'
      BY <1>1
    <2>2. ASSUME NEW q \in Pages
          PROVE  /\ shot'[q] # NoFile => shot'[q] \subseteq Made'
                 /\ file'[q] # NoFile => file'[q] \subseteq Made'
                 /\ session'[q] # NoSession /\ session'[q].pending # NoFile =>
                       session'[q].pending \subseteq Made'
      BY <1>1 DEF NothingUnmade
    <2>3. \A m \in net' : m.file \subseteq Made'
      BY <1>1 DEF NothingUnmade
    <2>4. \A n \in DOMAIN cloud' : cloud'[n] \subseteq Made'
      BY <1>1 DEF NothingUnmade
    <2> QED
      BY <2>1, <2>2, <2>3, <2>4 DEF NothingUnmade
  <1>3. CapturesComplete'
    BY DEF CapturesComplete
  <1>4. WritesReplace'
    BY DEF WritesReplace, Replaces, At
  <1>5. ASSUME NEW q \in Pages
        PROVE  WorkReplaces(q)'
    BY DEF WorkReplaces, Replaces, At
  <1> QED
    BY <1>2, <1>3, <1>4, <1>5

(* The records of a stored copy were made. *)
LEMMA StoredMade ==
    ASSUME TypeOK, OwnInv, NEW n \in 1..Len(cloud)
    PROVE  cloud[n] \subseteq Made /\ At(n) = cloud[n] /\ At(n) # NoFile
  BY NullAssumption DEF TypeOK, OwnInv, NothingUnmade, At

(* What a page forgets is still under way. *)
LEMMA ForgetWrites ==
    ASSUME TypeOK, NEW p \in Pages, Forget(p)
    PROVE  /\ cloud' = cloud
           /\ \A m \in net' : \E n \in net :
                 m.page = n.page /\ m.revision = n.revision /\ m.file = n.file
  BY ForgetSafe

(* Opening a session and restoring. *)

LEMMA openRecoveryCloudBackupOwn ==
    ASSUME IInv, OwnInv, NEW p \in Pages, openRecoveryCloudBackup(p)
    PROVE  OwnInv'
  <1> USE DEF openRecoveryCloudBackup, Answers, IInv, device, service
  <1>1. WorkReplaces(p)'
    <2>1. /\ pc'[p] = "open" /\ file'[p] = shot[p] /\ session'[p] = session[p]
          /\ own' = own /\ cloud' = cloud
      BY DEF TypeOK
    <2>2. file'[p] # NoFile => own[DeviceOf(p)] \subseteq file'[p]
      BY <2>1 DEF OwnInv, CapturesComplete
    <2> QED
      BY <2>1, <2>2 DEF OwnInv, WorkReplaces, Replaces, At
  <1> QED
    BY <1>1, PageOwn DEF TypeOK, OwnInv, NothingUnmade, CapturesComplete

LEMMA OpenRefusedOwn ==
    ASSUME IInv, OwnInv, NEW p \in Pages, OpenRefused(p)
    PROVE  OwnInv'
  <1> USE DEF OpenRefused, Return, IInv, device, service
  <1>1. WorkReplaces(p)'
    BY DEF TypeOK, OwnInv, WorkReplaces, Replaces
  <1> QED
    BY <1>1, PageOwn DEF TypeOK, OwnInv, NothingUnmade, CapturesComplete

LEMMA AdmitSessionOwn ==
    ASSUME IInv, OwnInv, NEW p \in Pages, AdmitSession(p)
    PROVE  OwnInv'
  <1> USE DEF AdmitSession, IInv
  <1>1. /\ session'[p] = [revision |-> answer[p], file |-> At(answer[p]), pending |-> NoFile]
        /\ pc'[p] = "capture" /\ file'[p] \in {file[p], NoFile} /\ pc[p] = "open"
        /\ own' = own /\ local' = local /\ shot' = shot /\ cloud' = cloud
    BY DEF TypeOK, Forget
  <1>2. WorkReplaces(p)'
    BY <1>1 DEF OwnInv, WorkReplaces, Replaces
  <1> QED
    BY <1>1, <1>2, PageOwn, ForgetWrites
      DEF TypeOK, OwnInv, NothingUnmade, CapturesComplete

LEMMA restoreRecoveryArchiveOwn ==
    ASSUME IInv, OwnInv, NEW p \in Pages, restoreRecoveryArchive(p)
    PROVE  OwnInv'
  <1> USE DEF restoreRecoveryArchive, Answers, IInv, device
  <1>1. /\ session'[p] = NoSession /\ pc'[p] = "restore" /\ shot'[p] = NoFile
        /\ file' = file /\ own' = own /\ local' = local /\ pc[p] = "idle"
    BY DEF TypeOK
  <1>2. WorkReplaces(p)'
    BY <1>1 DEF OwnInv, WorkReplaces, Replaces
  <1> QED
    BY <1>1, <1>2, PageOwn, ForgetWrites
      DEF TypeOK, OwnInv, NothingUnmade, CapturesComplete

LEMMA RestoreStartsOwn ==
    ASSUME IInv, OwnInv, NEW p \in Pages, RestoreStarts(p)
    PROVE  OwnInv'
  <1> USE DEF RestoreStarts, IInv, device, service
  <1>1. WorkReplaces(p)'
    BY DEF TypeOK, OwnInv, WorkReplaces, Replaces
  <1> QED
    BY <1>1, PageOwn DEF TypeOK, OwnInv, NothingUnmade, CapturesComplete

(* An import, of all of the file or of a part of it. *)
LEMMA ImportOwn ==
    ASSUME IInv, OwnInv, NEW p \in Pages, pc[p] = "importing", Return(p),
           UNCHANGED <<own, session, service>>,
           \/ local' = local
           \/ /\ answer[p] # 0
              /\ \E part \in SUBSET cloud[answer[p]] :
                    local' = [local EXCEPT ![DeviceOf(p)] = @ \cup part]
    PROVE  OwnInv'
  <1> USE DEF Return, IInv, service
  <1>1. WorkReplaces(p)'
    BY DEF TypeOK, OwnInv, WorkReplaces, Replaces
  <1>2. ASSUME NEW d \in Devices
        PROVE  local[d] \subseteq local'[d] /\ local'[d] \subseteq Made
    <2>1. local[d] \subseteq Made
      BY DEF OwnInv, NothingUnmade
    <2>2. CASE local' = local
      BY <2>1, <2>2
    <2>3. CASE local' # local
      <3>1. answer[p] \in 1..Len(cloud)
        BY <2>3, BoundAssumption DEF TypeOK, PagesSound, PageSound
      <3>2. cloud[answer[p]] \subseteq Made
        BY <3>1, StoredMade
      <3> QED
        BY <2>1, <2>3, <3>2 DEF TypeOK
    <2> QED
      BY <2>2, <2>3
  <1> QED
    BY <1>1, <1>2, PageOwn DEF TypeOK, OwnInv, NothingUnmade, CapturesComplete

LEMMA RestoresOwn ==
    ASSUME IInv, OwnInv, NEW p \in Pages, restoreVaultRecoveryFile(p) \/ RestorePartly(p)
    PROVE  OwnInv'
  <1>1. CASE restoreVaultRecoveryFile(p)
    <2>1. \/ local' = local
          \/ /\ answer[p] # 0
             /\ local' = [local EXCEPT ![DeviceOf(p)] = @ \cup cloud[answer[p]]]
      BY <1>1 DEF restoreVaultRecoveryFile
    <2> QED
      BY <1>1, <2>1, ImportOwn DEF restoreVaultRecoveryFile
  <1>2. CASE RestorePartly(p)
    BY <1>2, ImportOwn DEF RestorePartly
  <1> QED
    BY <1>1, <1>2

(* Saving. *)

LEMMA captureArchiveOwn ==
    ASSUME IInv, OwnInv, NEW p \in Pages, captureArchive(p)
    PROVE  OwnInv'
  <1> USE DEF captureArchive, IInv, device, service
  <1>1. WorkReplaces(p)'
    BY DEF TypeOK, OwnInv, WorkReplaces, Replaces
  <1> QED
    BY <1>1, PageOwn DEF TypeOK, OwnInv, NothingUnmade, CapturesComplete

LEMMA captureForOwn ==
    ASSUME IInv, OwnInv, NEW p \in Pages, captureFor(p)
    PROVE  OwnInv'
  <1> USE DEF captureFor, IInv, device, service
  <1>1. /\ file'[p] = IF file[p] # NoFile THEN file[p] ELSE local[DeviceOf(p)]
        /\ session' = session /\ pc[p] = "capture" /\ pc'[p] = "sync" /\ own' = own
    BY DEF TypeOK
  <1>2. own[DeviceOf(p)] \subseteq local[DeviceOf(p)] /\ local[DeviceOf(p)] \subseteq Made
    BY DeviceOfPage DEF OwnInv, CapturesComplete, NothingUnmade
  <1>3. WorkReplaces(p)'
    BY <1>1, <1>2 DEF OwnInv, WorkReplaces, Replaces
  <1> QED
    BY <1>1, <1>2, <1>3, PageOwn DEF TypeOK, OwnInv, NothingUnmade, CapturesComplete

LEMMA SyncedOwn ==
    ASSUME IInv, OwnInv, NEW p \in Pages, Synced(p) \/ SessionOver(p)
    PROVE  OwnInv'
  <1> USE DEF Synced, SessionOver, Return, IInv, device, service
  <1>1. WorkReplaces(p)'
    BY DEF TypeOK, OwnInv, WorkReplaces, Replaces
  <1> QED
    BY <1>1, PageOwn DEF TypeOK, OwnInv, NothingUnmade, CapturesComplete

LEMMA SendWriteOwn ==
    ASSUME IInv, OwnInv, NEW p \in Pages, SendWrite(p)
    PROVE  OwnInv'
  <1> USE DEF SendWrite, IInv, device
  <1>1. file[p] \in Files /\ session[p] # NoSession /\ session[p] \in RecoveryBackupSession
    BY DEF TypeOK, PagesSound, PageSound
  <1>2. /\ session'[p] = [session[p] EXCEPT !.pending = Pending(p)]
        /\ session'[p].pending = Pending(p) /\ session'[p].file = session[p].file
        /\ pc[p] = "sync" /\ pc'[p] = "write"
        /\ file' = file /\ own' = own /\ shot' = shot /\ local' = local /\ cloud' = cloud
    BY <1>1 DEF TypeOK, RecoveryBackupSession
  <1>3. Pending(p) \subseteq Made /\ Replaces(p, file[p], Pending(p))
    BY <1>1, NullAssumption DEF Pending, OwnInv, NothingUnmade, WorkReplaces, Replaces
  <1>4. Replaces(p, Pending(p), session[p].file)
    BY <1>1, <1>2 DEF Pending, OwnInv, WorkReplaces
  <1>5. WorkReplaces(p)'
    BY <1>1, <1>2, <1>3, <1>4 DEF OwnInv, WorkReplaces, Replaces
  <1>6. ASSUME NEW m \in net', m \notin net
        PROVE  /\ m.file \subseteq Made /\ m.revision <= Len(cloud)
               /\ Replaces(m.page, m.file, At(m.revision))
    <2>1. m.page = p /\ m.file = Pending(p) /\ m.revision = session[p].revision
      BY <1>6
    <2> QED
      BY <2>1, <1>1, <1>3, <1>4 DEF PagesSound, PageSound
  <1> QED
    BY <1>2, <1>3, <1>5, <1>6, PageOwn DEF TypeOK, OwnInv, NothingUnmade, CapturesComplete

LEMMA ReadBackOwn ==
    ASSUME IInv, OwnInv, NEW p \in Pages, ReadBack(p)
    PROVE  OwnInv'
  <1> USE DEF ReadBack, Return, IInv, device, service
  <1>1. WorkReplaces(p)'
    BY DEF TypeOK, OwnInv, WorkReplaces, Replaces
  <1> QED
    BY <1>1, PageOwn DEF TypeOK, OwnInv, NothingUnmade, CapturesComplete

LEMMA syncSnapshotOwn ==
    ASSUME IInv, OwnInv, NEW p \in Pages, syncSnapshot(p)
    PROVE  OwnInv'
  <1> USE DEF syncSnapshot, VerifiedFile, IInv
  <1>1. /\ session'[p] = [revision |-> session[p].revision + 1, file |-> session[p].pending,
                          pending |-> NoFile]
        /\ pc[p] = "verify" /\ pc'[p] = "sync"
        /\ file' = file /\ own' = own /\ shot' = shot /\ local' = local /\ cloud' = cloud
    BY DEF TypeOK, Forget
  <1>2. WorkReplaces(p)'
    BY <1>1 DEF OwnInv, WorkReplaces, Replaces
  <1> QED
    BY <1>1, <1>2, PageOwn, ForgetWrites
      DEF TypeOK, OwnInv, NothingUnmade, CapturesComplete

LEMMA FailsOwn ==
    ASSUME IInv, OwnInv, NEW p \in Pages, Fails(p)
    PROVE  OwnInv'
  <1> USE DEF Fails, Return, IInv, device, service
  <1>1. WorkReplaces(p)'
    BY DEF TypeOK, OwnInv, WorkReplaces, Replaces
  <1> QED
    BY <1>1, PageOwn DEF TypeOK, OwnInv, NothingUnmade, CapturesComplete

(* Captures for this device, and the end of a session. *)

LEMMA captureLocalWorkOwn ==
    ASSUME IInv, OwnInv, NEW p \in Pages, captureLocalWork(p) \/ CaptureEnds(p)
    PROVE  OwnInv'
  <1> USE DEF captureLocalWork, CaptureEnds, IInv, device, service
  <1>1. WorkReplaces(p)'
    BY DEF OwnInv, WorkReplaces, Replaces, At
  <1>2. shot'[p] \in {local[DeviceOf(p)], NoFile}
    BY DEF TypeOK
  <1> QED
    BY <1>1, <1>2, PageOwn, DeviceOfPage DEF TypeOK, OwnInv, NothingUnmade, CapturesComplete

LEMMA LockOwn ==
    ASSUME IInv, OwnInv, NEW p \in Pages, Lock(p)
    PROVE  OwnInv'
  <1> USE DEF Lock, IInv, device
  <1>1. session'[p] = NoSession /\ shot'[p] = NoFile /\ pc[p] = "idle"
    BY DEF TypeOK
  <1>2. WorkReplaces(p)'
    BY <1>1 DEF OwnInv, WorkReplaces, Replaces
  <1> QED
    BY <1>1, <1>2, PageOwn, ForgetWrites
      DEF TypeOK, OwnInv, NothingUnmade, CapturesComplete

LEMMA ExpireOwn ==
    ASSUME IInv, OwnInv, NEW p \in Pages, Expire(p)
    PROVE  OwnInv'
  <1> USE DEF Expire, IInv, device, service
  <1>1. WorkReplaces(p)'
    BY DEF OwnInv, WorkReplaces, Replaces, At
  <1> QED
    BY <1>1, PageOwn DEF OwnInv, NothingUnmade, CapturesComplete

LEMMA CrashOwn ==
    ASSUME IInv, OwnInv, NEW p \in Pages, Crash(p)
    PROVE  OwnInv'
  <1> USE DEF Crash, IInv, device
  <1>1. /\ session'[p] = NoSession /\ shot'[p] = NoFile /\ pc'[p] = "idle"
        /\ file'[p] = NoFile
    BY DEF TypeOK
  <1>2. WorkReplaces(p)'
    BY <1>1 DEF OwnInv, WorkReplaces, Replaces
  <1> QED
    BY <1>1, <1>2, PageOwn, ForgetWrites
      DEF TypeOK, OwnInv, NothingUnmade, CapturesComplete

(* Here one page matters: the epoch is a new one on the page of the        *)
(* payment only.                                                           *)
LEMMA ActivityOwn ==
    ASSUME IInv, OwnInv, OneTab, NEW p \in Pages, NEW r \in Records, Activity(p, r)
    PROVE  OwnInv'
  <1> USE DEF Activity, NewEpoch, IInv, service
  <1> DEFINE d == DeviceOf(p)
  <1>1. d \in Devices
    BY DeviceOfPage
  <1>2. r \notin Made /\ Made' = Made \cup {r}
    <2>1. r \notin Made
      BY DEF Made
    <2>2. ASSUME NEW e \in Devices
          PROVE  own'[e] = IF e = d THEN own[e] \cup {r} ELSE own[e]
      BY <1>1 DEF TypeOK
    <2>3. \A x : x \in Made' <=> x \in Made \/ x = r
      BY <1>1, <2>2 DEF Made
    <2> QED
      BY <2>1, <2>3
  <1>3. NothingUnmade'
    <2>1. ASSUME NEW e \in Devices PROVE local'[e] \subseteq Made'
      BY <1>1, <1>2 DEF TypeOK, OwnInv, NothingUnmade
    <2>2. ASSUME NEW q \in Pages
          PROVE  /\ shot'[q] # NoFile => shot'[q] \subseteq Made'
                 /\ file'[q] # NoFile => file'[q] \subseteq Made'
                 /\ session'[q] # NoSession /\ session'[q].pending # NoFile =>
                       session'[q].pending \subseteq Made'
      BY <1>2 DEF TypeOK, OwnInv, NothingUnmade
    <2>3. \A m \in net' : m.file \subseteq Made'
      BY <1>2 DEF OwnInv, NothingUnmade
    <2>4. \A n \in DOMAIN cloud' : cloud'[n] \subseteq Made'
      BY <1>2 DEF OwnInv, NothingUnmade
    <2> QED
      BY <2>1, <2>2, <2>3, <2>4 DEF NothingUnmade
  <1>4. CapturesComplete'
    <2>1. \A e \in Devices : own'[e] \subseteq local'[e]
      BY <1>1 DEF TypeOK, OwnInv, CapturesComplete
    <2>2. ASSUME NEW q \in Pages, shot'[q] # NoFile
          PROVE  own'[DeviceOf(q)] \subseteq shot'[q]
      <3>1. q # p
        BY <2>2 DEF TypeOK
      <3>2. DeviceOf(q) # d
        BY <3>1 DEF OneTab, Pages, DeviceOf
      <3> QED
        BY <2>2, <3>1, <3>2, <1>1, DeviceOfPage DEF TypeOK, OwnInv, CapturesComplete
    <2> QED
      BY <2>1, <2>2 DEF CapturesComplete
  <1>5. ASSUME NEW q \in Pages, NEW g, NEW f, Replaces(q, g, f),
               f # NoFile => f \subseteq Made
        PROVE  Replaces(q, g, f)'
    <2>1. own'[DeviceOf(q)] \subseteq own[DeviceOf(q)] \cup {r}
      BY <1>1, DeviceOfPage DEF TypeOK
    <2> QED
      BY <1>2, <1>5, <2>1 DEF Replaces
  <1>6. \A n \in 0..Len(cloud) : At(n) # NoFile => At(n) \subseteq Made
    BY StoredMade DEF TypeOK, At
  <1>7. WritesReplace'
    <2> SUFFICES ASSUME NEW m \in net
                 PROVE  m.revision <= Len(cloud) /\ Replaces(m.page, m.file, At(m.revision))'
      BY DEF WritesReplace, At
    <2>1. m.page \in Pages /\ m.revision \in 0..Len(cloud)
      BY DEF OwnInv, WritesReplace, TypeOK, Writes, Revisions
    <2>2. At(m.revision)' = At(m.revision)
      BY DEF At
    <2>3. Replaces(m.page, m.file, At(m.revision))
      BY DEF OwnInv, WritesReplace
    <2> QED
      BY <2>1, <2>2, <2>3, <1>5, <1>6
  <1>8. ASSUME NEW q \in Pages
        PROVE  WorkReplaces(q)'
    <2>1. /\ pc'[q] = pc[q] /\ file'[q] = file[q] /\ session'[q] = session[q]
          /\ answer'[q] = answer[q] /\ cloud' = cloud
      OBVIOUS
    <2>2. session[q] # NoSession =>
            /\ session[q].file # NoFile => session[q].file \subseteq Made
            /\ session[q].pending # NoFile => session[q].pending \subseteq Made
      <3> SUFFICES ASSUME session[q] # NoSession
                   PROVE  /\ session[q].file # NoFile => session[q].file \subseteq Made
                          /\ session[q].pending # NoFile => session[q].pending \subseteq Made
        OBVIOUS
      <3>1. session[q].revision \in 0..Len(cloud)
        BY DEF TypeOK, PagesSound, PageSound, RecoveryBackupSession, Revisions
      <3> QED
        BY <3>1, <1>6 DEF PagesSound, PageSound, OwnInv, NothingUnmade
    <2>3. pc[q] = "open" => (At(answer[q]) # NoFile => At(answer[q]) \subseteq Made)
      BY <1>6 DEF PagesSound, PageSound
    <2>4. pc[q] \in {"capture", "sync", "write", "read", "verify"} => session[q] # NoSession
      BY DEF PagesSound, PageSound
    <2>5. At(answer[q])' = At(answer[q])
      BY <2>1 DEF At
    <2>6. pc[q] = "open" /\ file[q] # NoFile => Replaces(q, file[q], At(answer[q]))'
      BY <2>1, <2>3, <2>5, <1>5 DEF OwnInv, WorkReplaces
    <2>7. pc[q] = "capture" /\ file[q] # NoFile =>
            session[q].pending = NoFile /\ Replaces(q, file[q], session[q].file)'
      BY <2>2, <2>4, <1>5 DEF OwnInv, WorkReplaces
    <2>8. pc[q] \in {"sync", "write", "read", "verify"} =>
            /\ Replaces(q, file[q], session[q].file)'
            /\ Replaces(q, file[q], session[q].pending)'
      BY <2>2, <2>4, <1>5 DEF OwnInv, WorkReplaces
    <2>9. session[q] # NoSession /\ session[q].pending # NoFile =>
            Replaces(q, session[q].pending, session[q].file)'
      BY <2>2, <1>5 DEF OwnInv, WorkReplaces
    <2> QED
      BY <2>1, <2>5, <2>6, <2>7, <2>8, <2>9 DEF OwnInv, WorkReplaces
  <1> QED
    BY <1>3, <1>4, <1>7, <1>8 DEF OwnInv

(* The service appends the copy it stores. *)
LEMMA ServiceOwn ==
    ASSUME IInv, OwnInv, ServeWrite \/ LoseWrite
    PROVE  /\ OwnInv'
           /\ cloud' # cloud => \E m \in net :
                 /\ net' = net \ {m} /\ m.revision = Len(cloud)
                 /\ cloud' = Append(cloud, m.file)
  <1> USE DEF IInv, device, page
  <1>1. PICK m \in net :
           /\ StoreWrite(m) \/ cloud' = cloud
           /\ net' = net \ {m}
           /\ \/ pc[m.page] = "write" /\ pc' = [pc EXCEPT ![m.page] = "read"]
              \/ UNCHANGED pc
           /\ UNCHANGED <<local, own, session, shot, file, answer>>
    BY DEF ServeWrite, LoseWrite, RepeatWrite
  <1>2. m \in Writes /\ Len(cloud) \in Nat
    BY DEF TypeOK
  <1>3. Made' = Made
    BY <1>1 DEF Made
  <1>4. /\ cloud' # cloud => cloud' = Append(cloud, m.file) /\ m.revision = Len(cloud)
        /\ Len(cloud') >= Len(cloud)
        /\ \A n \in 0..Len(cloud) : At(n)' = At(n)
        /\ \A n \in DOMAIN cloud' : (n \in DOMAIN cloud /\ cloud'[n] = cloud[n])
                                     \/ cloud'[n] = m.file
    <2>1. CASE cloud' = cloud
      BY <2>1, <1>2 DEF At
    <2>2. CASE cloud' # cloud
      <3>1. cloud' = Append(cloud, m.file) /\ m.revision = Len(cloud)
        BY <2>2, <1>1 DEF StoreWrite
      <3>2. /\ Len(cloud') = Len(cloud) + 1 /\ DOMAIN cloud = 1..Len(cloud)
            /\ DOMAIN cloud' = 1..(Len(cloud) + 1)
            /\ cloud'[Len(cloud) + 1] = m.file
            /\ \A n \in 1..Len(cloud) : cloud'[n] = cloud[n]
        BY <3>1, <1>2 DEF TypeOK, Writes
      <3>3. \A n \in 0..Len(cloud) : At(n)' = At(n)
        BY <3>2, <1>2 DEF At
      <3>4. \A n \in DOMAIN cloud' : (n \in DOMAIN cloud /\ cloud'[n] = cloud[n])
                                      \/ cloud'[n] = m.file
        BY <3>2, <1>2
      <3> QED
        BY <3>1, <3>2, <3>3, <3>4, <1>2
    <2> QED
      BY <2>1, <2>2
  <1>5. NothingUnmade'
    <2>1. \A n \in DOMAIN cloud' : cloud'[n] \subseteq Made'
      BY <1>3, <1>4 DEF OwnInv, NothingUnmade
    <2> QED
      BY <1>1, <1>3, <2>1 DEF OwnInv, NothingUnmade
  <1>6. CapturesComplete'
    BY <1>1 DEF OwnInv, CapturesComplete
  <1>7. WritesReplace'
    <2> SUFFICES ASSUME NEW n \in net
                 PROVE  n.revision <= Len(cloud') /\ Replaces(n.page, n.file, At(n.revision))'
      BY <1>1 DEF WritesReplace
    <2>1. n.revision \in 0..Len(cloud)
      BY DEF OwnInv, WritesReplace, TypeOK, Writes, Revisions
    <2>2. Len(cloud') \in Nat
      BY <1>1, <1>2 DEF StoreWrite, TypeOK, Writes
    <2> QED
      BY <1>1, <1>2, <1>4, <2>1, <2>2 DEF OwnInv, WritesReplace, Replaces
  <1>8. ASSUME NEW q \in Pages
        PROVE  WorkReplaces(q)'
    <2>1. pc'[q] = pc[q] \/ (pc[q] = "write" /\ pc'[q] = "read")
      BY <1>1 DEF TypeOK
    <2>2. pc[q] = "open" => At(answer[q])' = At(answer[q])
      BY <1>1, <1>4 DEF PagesSound, PageSound, At
    <2>3. \A g, f : Replaces(q, g, f)' = Replaces(q, g, f)
      BY <1>1 DEF Replaces
    <2> QED
      BY <1>1, <2>1, <2>2, <2>3 DEF OwnInv, WorkReplaces
  <1> QED
    BY <1>1, <1>4, <1>5, <1>6, <1>7, <1>8 DEF OwnInv

LEMMA StepOwn ==
    ASSUME IInv, OwnInv, OneTab, [Next]_vars
    PROVE  OwnInv'
  <1>1. ASSUME NEW p \in Pages, PageStep(p)
        PROVE  OwnInv'
    <2>1. CASE openRecoveryCloudBackup(p) \/ OpenRefused(p) \/ AdmitSession(p)
      BY <2>1, openRecoveryCloudBackupOwn, OpenRefusedOwn, AdmitSessionOwn
    <2>2. CASE \/ restoreRecoveryArchive(p) \/ RestoreStarts(p)
               \/ restoreVaultRecoveryFile(p) \/ RestorePartly(p)
      BY <2>2, restoreRecoveryArchiveOwn, RestoreStartsOwn, RestoresOwn
    <2>3. CASE captureArchive(p) \/ captureFor(p) \/ Synced(p) \/ SessionOver(p)
      BY <2>3, captureArchiveOwn, captureForOwn, SyncedOwn
    <2>4. CASE SendWrite(p) \/ ReadBack(p) \/ syncSnapshot(p) \/ Fails(p)
      BY <2>4, SendWriteOwn, ReadBackOwn, syncSnapshotOwn, FailsOwn
    <2>5. CASE captureLocalWork(p) \/ CaptureEnds(p) \/ \E r \in Records : Activity(p, r)
      BY <2>5, captureLocalWorkOwn, ActivityOwn
    <2>6. CASE Lock(p) \/ Expire(p) \/ Crash(p)
      BY <2>6, LockOwn, ExpireOwn, CrashOwn
    <2> QED
      BY <1>1, <2>1, <2>2, <2>3, <2>4, <2>5, <2>6 DEF PageStep
  <1>2. ASSUME UNCHANGED vars
        PROVE  OwnInv'
    BY <1>2 DEF vars, OwnInv, NothingUnmade, Made, CapturesComplete, WritesReplace,
      WorkReplaces, Replaces, At
  <1> QED
    BY <1>1, <1>2, ServiceOwn DEF Next

(* Only the service changes the stored copies. *)
LEMMA OnlyServiceStores ==
    ASSUME NEW p \in Pages, PageStep(p)
    PROVE  cloud' = cloud
  BY DEF PageStep, openRecoveryCloudBackup, OpenRefused, AdmitSession,
    restoreRecoveryArchive, RestoreStarts, restoreVaultRecoveryFile, RestorePartly,
    captureArchive, captureFor, Synced, SessionOver, SendWrite, ReadBack, syncSnapshot,
    Fails, captureLocalWork, CaptureEnds, Lock, Expire, Crash, Activity, Forget, Return,
    device, service

(* The upload that is stored replaces the copy it follows. *)
LEMMA StepKeepsRecords ==
    ASSUME IInv, OwnInv, [Next]_vars, NEW m \in net, m \notin net', cloud' # cloud
    PROVE  \A r \in own[DeviceOf(m.page)] : r \in Latest => r \in Latest'
  <1>1. ServeWrite \/ LoseWrite
    BY OnlyServiceStores DEF Next, vars
  <1>2. m.revision = Len(cloud) /\ cloud' = Append(cloud, m.file)
    BY <1>1, ServiceOwn
  <1>3. m.file \in Files /\ cloud \in Seq(Files) /\ Len(cloud) \in Nat
    BY DEF IInv, TypeOK, Writes
  <1>4. Latest' = m.file
    BY <1>2, <1>3 DEF Latest
  <1>5. CASE cloud = <<>>
    BY <1>5 DEF Latest
  <1>6. CASE cloud # <<>>
    <2>1. Len(cloud) \in 1..Len(cloud)
      BY <1>3, <1>6
    <2>2. At(m.revision) = Latest /\ At(m.revision) # NoFile
      BY <1>2, <1>6, <2>1, StoredMade DEF IInv, Latest
    <2> QED
      BY <1>4, <2>2 DEF OwnInv, WritesReplace, Replaces
  <1> QED
    BY <1>5, <1>6

-------------------------------------------------------------------------------
LEMMA InvariantHolds == Spec => []IInv
  <1> QED
    BY InitSafe, StepSafe, PTL DEF Spec

(* Every variable keeps its type. *)
THEOREM TypeCorrect == Spec => []TypeOK
  <1>1. IInv => TypeOK
    BY DEF IInv
  <1> QED
    BY <1>1, InvariantHolds, PTL

(* A session is never wrong about the copy that is stored at its revision. *)
THEOREM SessionsMatch == Spec => []SessionMatchesCloud
  <1>1. IInv => SessionMatchesCloud
    BY DEF IInv, PagesSound, PageSound, At, SessionMatchesCloud
  <1> QED
    BY <1>1, InvariantHolds, PTL

(* What the wallet calls verified was stored by the service. *)
THEOREM OnlyUploadsReported == Spec => []ReportedWasUploaded
  <1>1. IInv => ReportedWasUploaded
    BY DEF IInv
  <1> QED
    BY <1>1, InvariantHolds, PTL

(* When a device has one page, none of its uploads takes a record of its   *)
(* own out of the cloud, whatever was lost, repeated or answered late.     *)
THEOREM OwnRecordsStay ==
    ASSUME OneTab
    PROVE  Spec => OwnRecordsKept
  <1>1. Init => IInv /\ OwnInv
    BY InitSafe, InitOwn
  <1>2. ASSUME IInv, OwnInv, [Next]_vars
        PROVE  IInv' /\ OwnInv'
    BY <1>2, StepSafe, StepOwn
  <1>3. ASSUME IInv, OwnInv, [Next]_vars
        PROVE  [\A m \in net :
                  m \notin net' /\ cloud' # cloud =>
                     \A r \in own[DeviceOf(m.page)] : r \in Latest => r \in Latest']_vars
    BY <1>3, StepKeepsRecords
  <1> QED
    BY <1>1, <1>2, <1>3, PTL DEF Spec, OwnRecordsKept
===============================================================================
