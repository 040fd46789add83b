--------------------------- MODULE AccountSession ---------------------------
(***************************************************************************)
(* The session of one page of the wallet: which account is unlocked, the   *)
(* commands that sign in, enrol, restore and sign out, the wallet worker   *)
(* and the boarding key that the unlocked account needs, and the payment   *)
(* command that may be under way when the session ends.                    *)
(*                                                                         *)
(*   session.ts            the session owner: run, accept, teardown        *)
(*   signIn.ts, tenantEnrollment.ts, recovery/restore.ts, vtxo/board.ts    *)
(*                         what the commands leave on the device           *)
(*   accountRuntime.ts, vtxo/walletWorker.ts                               *)
(*                         the account runtime and its wallet connection   *)
(*   spendingPayments.ts   the payment owner: one command at a time        *)
(*                                                                         *)
(* A command (a flight of `run`) and the clean-up of a teardown are tasks. *)
(* A task starts when the tasks it awaits have ended; what it awaits was   *)
(* decided when it was created.  Every step of a command is the end of one *)
(* request: its effect happens even if the command was cancelled while the *)
(* request was under way, and only then is the signal looked at.           *)
(*                                                                         *)
(* Failed requests, closed pages and a worker that does not stop are       *)
(* modelled; several pages of one browser, and the contents of the status, *)
(* the plan and the map backup, are not.                                   *)
(***************************************************************************)
EXTENDS Naturals, Sequences, FiniteSets

CONSTANTS
    Vaults,       \* the vaults a device may hold
    Enrolled,     \* those the service knows before the first boot
    NoVault,      \* no vault
    NoCommand,    \* the payment owner is idle
    ReviewsWait,  \* whether a session may end while a Lightning review waits
                  \* for the lifecycle lock that another page holds
    MaxTasks,     \* bound: commands and teardowns of the first page
    MaxLater,     \* bound: those of a page that was opened again
    MaxReloads,   \* bound: how often the page is closed and opened again
    MaxFailures   \* bound: worker stops that fail

ASSUME VaultsAssumption ==
    /\ Enrolled \subseteq Vaults
    /\ NoVault \notin Vaults

\* A payment command under way, and a review on the screen.
PaymentCommand ==
    [step : {"lock", "wallet", "quote"}, vault : Vaults, session : Nat,
     aborted : BOOLEAN, runtime : Nat]
ShownReview == [vault : Vaults, session : Nat]

ASSUME NoCommandAssumption == NoCommand \notin PaymentCommand \cup ShownReview
ASSUME BoundsAssumption ==
    /\ {MaxTasks, MaxLater, MaxReloads, MaxFailures} \subseteq Nat
    /\ MaxLater <= MaxTasks
    /\ ReviewsWait \in BOOLEAN

VARIABLES
    \* session.ts, in memory
    locked,       \* snapshot.locked
    account,      \* snapshot.account, kept when the session is locked
    bound,        \* boundEnrollment
    targets,      \* vaults a teardown has to clean up
    admitted,     \* vaults whose key a plain teardown keeps
    tasks,        \* the commands and teardowns of this page, in order
    flight,       \* the current command, 0 when there is none
    draining,     \* the last teardown, 0 when there was none
    mounted,      \* a view holds the session
    \* accountRuntime.ts and spendingPayments.ts, in memory
    runtimes,     \* the account runtimes of this page, in order
    current,      \* the runtime in use, 0 when there is none
    command,      \* the payment command under way
    review,       \* the review on the screen, with the session it belongs to
    ended,        \* how many sessions of this page have ended
    \* the device
    key,          \* the boarding key of each vault
    worker,       \* vaults with a registered wallet worker
    stored,       \* vaults with a saved enrolment and address pin
    selected,     \* the selected vault
    staged,       \* the vault of the staged enrolment
    storedLocked, \* the saved session lock
    privacy,      \* the privacy lock setting
    \* the service
    enrolled,     \* vaults whose enrolment is finished
    reloads,      \* how often the page was closed
    failures      \* worker stops that failed

sessionVars == <<locked, account, bound, targets, admitted>>
taskVars == <<tasks, flight, draining>>
runtimeVars == <<runtimes, current>>
paymentVars == <<command, review>>
deviceVars == <<key, worker, stored, selected, staged, storedLocked, privacy>>
limits == <<reloads, failures>>

vars == <<sessionVars, taskVars, mounted, runtimeVars, paymentVars, ended,
          deviceVars, enrolled, limits>>

-----------------------------------------------------------------------------
(***************************************************************************)
(* The values of the variables.                                            *)
(***************************************************************************)
Commands == {"boot", "sign-in", "enroll", "register-ledger",
             "enable-passkey", "restore", "ledger-key"}
CommandSteps == {"queued", "status", "auth", "stage", "propose", "finish",
                 "key", "activate", "fetch", "after"}
TeardownSteps == {"queued", "clean", "stop", "drop", "failed"}
MaybeVault == Vaults \cup {NoVault}

Command(kind, vault, step, after) ==
    [kind |-> kind, vault |-> vault, step |-> step, after |-> after,
     aborted |-> FALSE, cleanup |-> {}, preserve |-> {}, stage |-> NoVault,
     stopping |-> 0]

Teardown(after, cleanup, preserve) ==
    [kind |-> "teardown", vault |-> NoVault, step |-> "queued",
     after |-> after, aborted |-> FALSE, cleanup |-> cleanup,
     preserve |-> preserve, stage |-> NoVault, stopping |-> 0]

\* A task that is over keeps the way it ended, and a teardown the keys it kept.
Over(how) ==
    [kind |-> "over", vault |-> NoVault, step |-> how, after |-> {},
     aborted |-> FALSE, cleanup |-> {}, preserve |-> {}, stage |-> NoVault,
     stopping |-> 0]

Task == [kind : Commands \cup {"teardown", "over"}, vault : MaybeVault,
         step : CommandSteps \cup TeardownSteps \cup {"ended"},
         after : SUBSET (1..MaxTasks), aborted : BOOLEAN,
         cleanup : SUBSET Vaults, preserve : SUBSET Vaults,
         stage : MaybeVault, stopping : Nat]

Runtime == [vault : Vaults, disposed : BOOLEAN, owner : BOOLEAN,
            closes : BOOLEAN,
            step : {"idle", "waiting", "creating", "open", "retired", "broken"}]

TaskIds == 1..Len(tasks)
RuntimeIds == 1..Len(runtimes)
IsOver(t) == tasks[t].step \in {"ended", "failed"}
Live(t) == ~IsOver(t)

\* Promises that are ready run before the next event of the page.
Ready(t) ==
    \/ tasks[t].step = "clean"
    \/ tasks[t].step = "queued" /\ \A a \in tasks[t].after : IsOver(a)
Settled == \A t \in TaskIds : ~Ready(t)

Bound == IF reloads = 0 THEN MaxTasks ELSE MaxLater

\* The view of the payment owner on the session: sessionIdentity.
Identity(lock, acct) == IF lock THEN NoVault ELSE acct
Open == Identity(locked, account) # NoVault

-----------------------------------------------------------------------------
(***************************************************************************)
(* accountRuntime.ts: one runtime is in use.  A runtime that is replaced   *)
(* is disposed; it has retired when everything that used its connection    *)
(* has ended and the connection is closed.  A runtime connects after every *)
(* earlier one has retired.                                                *)
(***************************************************************************)
NewRuntime(v) ==
    [vault |-> v, disposed |-> FALSE, owner |-> FALSE, closes |-> FALSE,
     step |-> "idle"]

Serves(v) == current # 0 /\ runtimes[current].vault = v

\* vaultAccountRuntime: the runtimes once that of v is the one in use.
WithRuntime(v) ==
    IF Serves(v) THEN runtimes
    ELSE Append([r \in RuntimeIds |->
                    IF r = current THEN [runtimes[r] EXCEPT !.disposed = TRUE]
                    ELSE runtimes[r]], NewRuntime(v))

RuntimeOf(v) == IF Serves(v) THEN current ELSE Len(runtimes) + 1

\* ensureVaultWalletWorker: connects the runtime unless it is connected or
\* connecting.
Connecting(rs, r) ==
    [rs EXCEPT ![r].step = IF @ = "idle" THEN "waiting" ELSE @,
               ![r].closes = TRUE]

-----------------------------------------------------------------------------
(***************************************************************************)
(* The effects of the session on its listeners.                            *)
(***************************************************************************)
\* spendingPayments.ts cancel: the command is cancelled, its review is gone.
CancelPayment ==
    /\ command' = IF command = NoCommand THEN NoCommand
                  ELSE [command EXCEPT !.aborted = TRUE]
    /\ review' = NoCommand

\* bind: the payment owner follows the session; the runtime of an unlocked
\* account is created and knows its payment owner.
Bind(lock, acct) ==
    LET v == Identity(lock, acct) IN
    /\ IF v # Identity(locked, account) THEN CancelPayment
       ELSE UNCHANGED paymentVars
    /\ IF v = NoVault THEN UNCHANGED runtimeVars
       ELSE /\ current' = RuntimeOf(v)
            /\ runtimes' = [WithRuntime(v) EXCEPT ![RuntimeOf(v)].owner = TRUE]

\* cancel: the current command is aborted; whatever it awaits goes on.
Aborted(ts) ==
    IF flight = 0 THEN ts ELSE [ts EXCEPT ![flight].aborted = TRUE]

-----------------------------------------------------------------------------
(***************************************************************************)
(* Teardown.                                                               *)
(***************************************************************************)
\* A command other than the boot is under way.
Interrupted == flight # 0 /\ tasks[flight].kind # "boot"

\* Mutant: the saved lock is left to the caller.
TearDownOpen(ts, signOut, replace) ==
    /\ Len(ts) < Bound
    /\ tasks' = Append(Aborted(ts),
                       Teardown({draining, flight} \ {0}, targets,
                                IF signOut \/ replace \/ Interrupted THEN {}
                                ELSE admitted))
    /\ draining' = Len(ts) + 1
    /\ storedLocked' = (signOut \/ replace \/ storedLocked)
    /\ locked' = TRUE
    /\ ended' = ended + 1
    /\ Bind(TRUE, account)

\* teardown, up to its first await.  The clean-up awaits the clean-up before
\* it and the current command.
TearDown(ts, signOut, replace) ==
    LET forget == signOut \/ replace \/ Interrupted
        awaits == {draining, flight} \ {0}
    IN  /\ Len(ts) < Bound
        /\ tasks' = Append(Aborted(ts),
                           Teardown(awaits, targets,
                                    IF forget THEN {} ELSE admitted))
        /\ draining' = Len(ts) + 1
        /\ storedLocked' = (forget \/ storedLocked)
        /\ locked' = TRUE
        /\ ended' = ended + 1
        /\ Bind(TRUE, account)

\* reset in the settings of an open account, or another design chosen there.
SignOut ==
    /\ mounted
    /\ Open
    /\ TearDown(tasks, TRUE, FALSE)
    /\ UNCHANGED <<account, bound, targets, admitted, flight, mounted, key,
                   worker, stored, selected, staged, privacy, enrolled, limits>>

\* The last view releases the session: a plain teardown.
Release ==
    /\ mounted
    /\ mounted' = FALSE
    /\ TearDown(tasks, FALSE, FALSE)
    /\ UNCHANGED <<account, bound, targets, admitted, flight, key, worker,
                   stored, selected, staged, privacy, enrolled, limits>>

\* changePlan: an edit of the plan ends the command under way.
ChangePlan ==
    /\ mounted
    /\ Interrupted
    /\ TearDown(tasks, FALSE, FALSE)
    /\ UNCHANGED <<account, bound, targets, admitted, flight, mounted, key,
                   worker, stored, selected, staged, privacy, enrolled, limits>>

\* cancelLedgerConnection and cancelLedgerRegistration: the signal only.
CancelLedger ==
    /\ mounted
    /\ flight # 0
    /\ tasks[flight].kind \in {"ledger-key", "register-ledger"}
    /\ tasks[flight].step \in {"queued", "auth"}
    /\ ~tasks[flight].aborted
    /\ tasks' = Aborted(tasks)
    /\ UNCHANGED <<sessionVars, flight, draining, mounted, runtimeVars,
                   paymentVars, ended, deviceVars, enrolled, limits>>

\* Mutant: the command under way is not awaited.
StartCleaningAtOnce(t) ==
    /\ tasks[t].kind = "teardown" /\ tasks[t].step = "queued"
    /\ tasks' = [tasks EXCEPT ![t].step = "clean", ![t].after = {},
                              ![t].cleanup = @ \cup targets,
                              ![t].stage = staged]
    /\ UNCHANGED <<sessionVars, flight, draining, mounted, runtimeVars,
                   paymentVars, ended, deviceVars, enrolled, limits>>

\* The clean-up starts; a target registered since the teardown is included.
StartCleaning(t) ==
    /\ tasks[t].kind = "teardown" /\ tasks[t].step = "queued"
    /\ \A a \in tasks[t].after : IsOver(a)
    /\ tasks' = [tasks EXCEPT ![t].step = "clean", ![t].after = {},
                              ![t].cleanup = @ \cup targets,
                              ![t].stage = staged]
    /\ UNCHANGED <<sessionVars, flight, draining, mounted, runtimeVars,
                   paymentVars, ended, deviceVars, enrolled, limits>>

\* shutdownVaultWalletWorker: the runtime in use is disposed, and the
\* clean-up awaits its retirement; without one the worker is stopped.
StopWorker(t, v) ==
    /\ tasks[t].step = "clean"
    /\ v \in tasks[t].cleanup
    /\ IF Serves(v)
       THEN /\ runtimes' = [runtimes EXCEPT ![current].disposed = TRUE,
                                            ![current].closes = TRUE]
            /\ current' = 0
            /\ IF runtimes[current].owner THEN CancelPayment
               ELSE UNCHANGED paymentVars
            /\ tasks' = [tasks EXCEPT ![t].step = "stop", ![t].vault = v,
                                      ![t].stopping = current]
            /\ UNCHANGED worker
       ELSE /\ worker' = worker \ {v}
            /\ tasks' = [tasks EXCEPT ![t].step = "drop", ![t].vault = v]
            /\ UNCHANGED <<runtimeVars, paymentVars>>
    /\ UNCHANGED <<sessionVars, flight, draining, mounted, ended, key, stored,
                   selected, staged, storedLocked, privacy, enrolled, limits>>

\* A worker that does not stop ends the clean-up: nothing after it is done,
\* and the commands that await it fail.
Fails(t) ==
    tasks' = [tasks EXCEPT ![t] =
                 [Over("failed") EXCEPT !.preserve = tasks[t].preserve]]

WorkerStopped(t) ==
    /\ tasks[t].step = "stop"
    /\ \/ /\ runtimes[tasks[t].stopping].step = "retired"
          /\ tasks' = [tasks EXCEPT ![t].step = "drop", ![t].stopping = 0]
       \/ runtimes[tasks[t].stopping].step = "broken" /\ Fails(t)
    /\ UNCHANGED <<sessionVars, flight, draining, mounted, runtimeVars,
                   paymentVars, ended, deviceVars, enrolled, limits>>

StopFails(t) ==
    /\ tasks[t].step = "clean"
    /\ failures < MaxFailures
    /\ failures' = failures + 1
    /\ \E v \in tasks[t].cleanup : v \in worker /\ ~Serves(v)
    /\ Fails(t)
    /\ UNCHANGED <<sessionVars, flight, draining, mounted, runtimeVars,
                   paymentVars, ended, deviceVars, enrolled, reloads>>

\* Mutant: the vault stays admitted.
DropKeyOnly(t) ==
    LET v == tasks[t].vault IN
    /\ tasks[t].step = "drop"
    /\ key' = [key EXCEPT ![v] =
                 IF v \in tasks[t].preserve THEN @
                 ELSE IF tasks[t].stage # v THEN "none"
                 ELSE IF @ = "active" THEN "staged" ELSE @]
    /\ targets' = targets \ {v}
    /\ tasks' = [tasks EXCEPT ![t].step = "clean", ![t].vault = NoVault,
                              ![t].cleanup = @ \ {v}]
    /\ UNCHANGED <<locked, account, bound, admitted, flight, draining, mounted,
                   runtimeVars, paymentVars, ended, worker, stored, selected,
                   staged, storedLocked, privacy, enrolled, limits>>

\* suspendBoardingKey for the staged enrolment, deleteBoardingKey otherwise.
DropKey(t) ==
    LET v == tasks[t].vault IN
    /\ tasks[t].step = "drop"
    /\ key' = [key EXCEPT ![v] =
                 IF v \in tasks[t].preserve THEN @
                 ELSE IF tasks[t].stage # v THEN "none"
                 ELSE IF @ = "active" THEN "staged" ELSE @]
    /\ targets' = targets \ {v}
    /\ admitted' = admitted \ {v}
    /\ tasks' = [tasks EXCEPT ![t].step = "clean", ![t].vault = NoVault,
                              ![t].cleanup = @ \ {v}]
    /\ UNCHANGED <<locked, account, bound, flight, draining, mounted,
                   runtimeVars, paymentVars, ended, worker, stored, selected,
                   staged, storedLocked, privacy, enrolled, limits>>

CleaningEnds(t) ==
    /\ tasks[t].step = "clean"
    /\ tasks[t].cleanup = {}
    /\ tasks' = [tasks EXCEPT ![t] =
                     [Over("ended") EXCEPT !.preserve = tasks[t].preserve]]
    /\ UNCHANGED <<sessionVars, flight, draining, mounted, runtimeVars,
                   paymentVars, ended, deviceVars, enrolled, limits>>

-----------------------------------------------------------------------------
(***************************************************************************)
(* run: a command is shared with one of its kind, refused beside another,  *)
(* and ends a boot.  It awaits the command before it and the clean-up of   *)
(* the teardown before it.                                                 *)
(***************************************************************************)
Free == flight # 0 => tasks[flight].aborted \/ tasks[flight].kind = "boot"

Run(kind, v, ts, dr) ==
    /\ Free
    /\ Len(ts) < Bound
    /\ tasks' = Append(Aborted(ts),
                       Command(kind, v, "queued", {dr, flight} \ {0}))
    /\ flight' = Len(ts) + 1

\* The first view: retain boots the session.
Retain ==
    /\ ~mounted
    /\ mounted' = TRUE
    /\ Run("boot", NoVault, tasks, draining)
    /\ UNCHANGED <<sessionVars, draining, runtimeVars, paymentVars, ended,
                   deviceVars, enrolled, limits>>

Calls(kind, v) ==
    /\ mounted
    /\ Run(kind, v, tasks, draining)
    /\ UNCHANGED <<sessionVars, draining, mounted, runtimeVars, paymentVars,
                   ended, deviceVars, enrolled, limits>>

SignIn == Calls("sign-in", NoVault)
ConnectLedger == Calls("ledger-key", NoVault)
Enroll == \E v \in Vaults \ enrolled : Calls("enroll", v)
RegisterLedger == Calls("register-ledger", NoVault)
EnablePasskey == Open /\ Calls("enable-passkey", account)

\* restoreRecoveryArchive: an unlocked account is torn down first.
Restore(v) ==
    /\ mounted
    /\ v \in enrolled
    /\ IF Open
       THEN LET ts == Append(Aborted(tasks),
                             Teardown({draining, flight} \ {0}, targets, {}))
            IN  /\ draining' = Len(tasks) + 1
                /\ storedLocked' = TRUE
                /\ locked' = TRUE
                /\ ended' = ended + 1
                /\ Bind(TRUE, account)
                /\ Len(ts) < Bound
                /\ tasks' = Append(ts, Command("restore", v, "queued",
                                               {Len(ts), flight} \ {0}))
                /\ flight' = Len(ts) + 1
       ELSE /\ Run("restore", v, tasks, draining)
            /\ UNCHANGED <<locked, draining, runtimeVars, paymentVars, ended,
                           storedLocked>>
    /\ UNCHANGED <<account, bound, targets, admitted, mounted, key, worker,
                   stored, selected, staged, privacy, enrolled, limits>>

-----------------------------------------------------------------------------
(***************************************************************************)
(* The steps of a command.                                                 *)
(***************************************************************************)
AtStep(t, step) == tasks[t].kind \in Commands /\ tasks[t].step = step

\* finally: the flight is over.
EndsWith(t, ts) ==
    /\ tasks' = [ts EXCEPT ![t] = Over("ended")]
    /\ flight' = IF flight = t THEN 0 ELSE flight

Goes(t, step) ==
    /\ tasks' = [tasks EXCEPT ![t].step = step]
    /\ UNCHANGED flight

\* accept: the verified account is admitted, saved and unlocked.
Accept(v) ==
    /\ bound' = v
    /\ account' = v
    /\ locked' = FALSE
    /\ targets' = targets \cup {v}
    /\ admitted' = admitted \cup {v}
    /\ stored' = stored \cup {v}
    /\ selected' = v
    /\ storedLocked' = FALSE
    /\ Bind(FALSE, v)

\* acceptStatus: a live status shows the account of the bound enrolment.
ShowAccount(v) ==
    /\ account' = IF bound = v THEN v ELSE account
    /\ targets' = targets \cup {v}
    /\ Bind(locked, account')

StoredVault ==
    IF selected \in stored THEN {selected}
    ELSE IF stored # {} THEN stored ELSE {NoVault}

BootVault ==
    IF selected = NoVault \/ selected \in stored THEN StoredVault
    ELSE {NoVault}

\* A command that was cancelled, or that awaited a clean-up that failed,
\* ends before its first step.
Starts(t) ==
    /\ AtStep(t, "queued")
    /\ \A a \in tasks[t].after : IsOver(a)

CommandDropped(t) ==
    /\ Starts(t)
    /\ \/ tasks[t].aborted
       \/ \E a \in tasks[t].after : tasks[a].step = "failed"
    /\ EndsWith(t, tasks)
    /\ UNCHANGED <<sessionVars, draining, mounted, runtimeVars, paymentVars,
                   ended, deviceVars, enrolled, limits>>

Runs(t, kind) ==
    /\ Starts(t)
    /\ tasks[t].kind = kind
    /\ ~tasks[t].aborted
    /\ \A a \in tasks[t].after : tasks[a].step = "ended"

Begins(t, v, step) ==
    /\ tasks' = [tasks EXCEPT ![t].step = step, ![t].vault = v,
                              ![t].after = {}]
    /\ UNCHANGED flight

\* boot: the saved enrolment opens without a passkey unless it was locked.
BootRuns(t) ==
    /\ Runs(t, "boot")
    /\ \E existing \in BootVault :
        LET chosen == IF existing = NoVault THEN selected ELSE existing
            shut == storedLocked \/ (existing # NoVault /\ privacy)
        IN  /\ selected' = chosen
            /\ bound' = existing
            /\ locked' = shut
            /\ targets' = targets \cup ({chosen, staged} \ {NoVault})
            /\ admitted' = IF shut THEN admitted
                           ELSE admitted \cup ({existing} \ {NoVault})
            /\ Bind(shut, account)
            /\ IF ~shut /\ staged # NoVault THEN Begins(t, chosen, "status")
               ELSE IF chosen # NoVault THEN Begins(t, chosen, "fetch")
               ELSE EndsWith(t, tasks)
    /\ UNCHANGED <<account, draining, mounted, ended, key, worker, stored,
                   staged, storedLocked, privacy, enrolled, limits>>

\* reconcileStagedEnrollment: has the service finished the staged enrolment?
BootLooksUp(t) ==
    /\ AtStep(t, "status")
    /\ IF tasks[t].aborted THEN EndsWith(t, tasks)
       ELSE IF staged \in enrolled THEN Goes(t, "activate")
       ELSE IF tasks[t].vault # NoVault THEN Goes(t, "fetch")
       ELSE EndsWith(t, tasks)
    /\ UNCHANGED <<sessionVars, draining, mounted, runtimeVars, paymentVars,
                   ended, deviceVars, enrolled, limits>>

\* The sign-in of the account this device knows, or of a discovered one.
SignInRuns(t) ==
    /\ Runs(t, "sign-in")
    /\ \E local \in IF bound # NoVault THEN {bound} ELSE StoredVault :
         \/ /\ local # NoVault
            /\ targets' = targets \cup {local}
            /\ Begins(t, local, "auth")
         \/ /\ local = NoVault
            /\ \E v \in IF selected # NoVault THEN {selected} ELSE enrolled :
                 Begins(t, v, "auth")
            /\ UNCHANGED targets
    /\ UNCHANGED <<locked, account, bound, admitted, draining, mounted,
                   runtimeVars, paymentVars, ended, deviceVars, enrolled,
                   limits>>

\* enroll: a staged enrolment is resumed, a new vault is proposed.
EnrollRuns(t) ==
    /\ Runs(t, "enroll")
    /\ IF staged # NoVault
       THEN targets' = targets \cup {staged} /\ Begins(t, staged, "finish")
       ELSE Begins(t, tasks[t].vault, "stage") /\ UNCHANGED targets
    /\ UNCHANGED <<locked, account, bound, admitted, draining, mounted,
                   runtimeVars, paymentVars, ended, deviceVars, enrolled,
                   limits>>

\* approveLedgerEnrollment needs a staged enrolment.
RegisterRuns(t) ==
    /\ Runs(t, "register-ledger")
    /\ IF staged = NoVault THEN EndsWith(t, tasks) /\ UNCHANGED targets
       ELSE targets' = targets \cup {staged} /\ Begins(t, staged, "auth")
    /\ UNCHANGED <<locked, account, bound, admitted, draining, mounted,
                   runtimeVars, paymentVars, ended, deviceVars, enrolled,
                   limits>>

\* enableOtherDevices, connectLedgerKey and restoreRecoveryArchive start with
\* a prompt; only the first knows its vault.
PromptRuns(t) ==
    /\ \E kind \in {"enable-passkey", "ledger-key", "restore"} : Runs(t, kind)
    /\ targets' = IF tasks[t].kind = "enable-passkey"
                  THEN targets \cup {tasks[t].vault} ELSE targets
    /\ Begins(t, tasks[t].vault, "auth")
    /\ UNCHANGED <<locked, account, bound, admitted, draining, mounted,
                   runtimeVars, paymentVars, ended, deviceVars, enrolled,
                   limits>>

\* The prompt ends: the vault is a target before anything is written for it.
Authorized(t) ==
    LET c == tasks[t] IN
    /\ AtStep(t, "auth")
    /\ IF \/ c.aborted
          \/ c.kind = "ledger-key"
          \/ c.kind = "sign-in" /\ c.vault \notin enrolled
       THEN EndsWith(t, tasks) /\ UNCHANGED targets
       ELSE /\ targets' = targets \cup {c.vault}
            /\ Goes(t, IF c.kind = "register-ledger" THEN "finish" ELSE "key")
    /\ UNCHANGED <<locked, account, bound, admitted, draining, mounted,
                   runtimeVars, paymentVars, ended, deviceVars, enrolled,
                   limits>>

\* provisionBoardingKey: the key is written even for a cancelled command.  A
\* restored file is then saved in any case; a sign-in admits the account.
KeyProvisioned(t) ==
    LET c == tasks[t] v == c.vault IN
    /\ AtStep(t, "key")
    /\ key' = [key EXCEPT ![v] = "active"]
    /\ IF c.kind = "sign-in" /\ ~c.aborted
       THEN Accept(v) /\ Goes(t, "after")
       ELSE /\ stored' = IF c.kind = "restore" THEN stored \cup {v} ELSE stored
            /\ selected' = IF c.kind = "restore" THEN v ELSE selected
            /\ UNCHANGED <<locked, bound, admitted, storedLocked>>
            /\ IF c.aborted \/ c.kind # "enable-passkey"
               THEN UNCHANGED <<account, targets, runtimeVars, paymentVars>>
               ELSE ShowAccount(v)
            /\ IF c.aborted \/ c.kind # "restore" THEN EndsWith(t, tasks)
               ELSE Goes(t, "fetch")
    /\ UNCHANGED <<draining, mounted, ended, worker, staged, privacy,
                   enrolled, limits>>

\* The status of the boot's or of the restored vault arrives.
StatusFetched(t) ==
    LET c == tasks[t] IN
    /\ AtStep(t, "fetch")
    /\ IF c.aborted
       THEN /\ EndsWith(t, tasks)
            /\ UNCHANGED <<sessionVars, stored, selected, storedLocked,
                           runtimeVars, paymentVars>>
       ELSE IF c.kind = "restore" THEN Accept(c.vault) /\ Goes(t, "after")
       ELSE /\ EndsWith(t, tasks)
            /\ IF account \in {NoVault, c.vault} THEN ShowAccount(c.vault)
               ELSE UNCHANGED <<account, targets, runtimeVars, paymentVars>>
            /\ UNCHANGED <<locked, bound, admitted, stored, selected,
                           storedLocked>>
    /\ UNCHANGED <<draining, mounted, ended, key, worker, staged, privacy,
                   enrolled, limits>>

\* beginTenantEnrollment: the key of the proposed vault is staged ...
KeyStaged(t) ==
    LET c == tasks[t] IN
    /\ AtStep(t, "stage")
    /\ key' = [key EXCEPT ![c.vault] = "staged"]
    /\ IF c.aborted THEN EndsWith(t, tasks) ELSE Goes(t, "propose")
    /\ UNCHANGED <<sessionVars, draining, mounted, runtimeVars, paymentVars,
                   ended, worker, stored, selected, staged, storedLocked,
                   privacy, enrolled, limits>>

\* ... and the accepted proposal is saved, and registered as a target when
\* the command goes on.  With a Ledger the enrolment ends here for now.
Proposed(t) ==
    LET c == tasks[t] IN
    /\ AtStep(t, "propose")
    /\ staged' = c.vault
    /\ selected' = c.vault
    /\ IF c.aborted THEN EndsWith(t, tasks) /\ UNCHANGED targets
       ELSE /\ targets' = targets \cup {c.vault}
            /\ Goes(t, "finish") \/ EndsWith(t, tasks)
    /\ UNCHANGED <<locked, account, bound, admitted, draining, mounted,
                   runtimeVars, paymentVars, ended, key, worker, stored,
                   storedLocked, privacy, enrolled, limits>>

\* finishTenantEnrollment: the service finishes the enrolment ...
Finished(t) ==
    LET c == tasks[t] IN
    /\ AtStep(t, "finish")
    /\ enrolled' = enrolled \cup {c.vault}
    /\ IF c.aborted THEN EndsWith(t, tasks) ELSE Goes(t, "activate")
    /\ UNCHANGED <<sessionVars, draining, mounted, runtimeVars, paymentVars,
                   ended, deviceVars, limits>>

\* ... its key is activated, and the staged enrolment becomes the saved one.
\* The boot admits it only if the session was not locked meanwhile.
Activated(t) ==
    LET c == tasks[t] v == staged IN
    /\ AtStep(t, "activate")
    /\ v # NoVault /\ key[v] # "none"
    /\ key' = [key EXCEPT ![v] = "active"]
    /\ IF c.aborted
       THEN /\ EndsWith(t, tasks)
            /\ UNCHANGED <<sessionVars, stored, selected, staged, storedLocked,
                           runtimeVars, paymentVars>>
       ELSE /\ staged' = NoVault
            /\ IF c.kind = "boot" /\ storedLocked
               THEN /\ stored' = stored \cup {v}
                    /\ selected' = v
                    /\ IF c.vault = NoVault THEN EndsWith(t, tasks)
                       ELSE Goes(t, "fetch")
                    /\ UNCHANGED <<sessionVars, storedLocked, runtimeVars,
                                   paymentVars>>
               ELSE /\ Accept(v)
                    /\ IF c.kind = "boot" THEN EndsWith(t, tasks)
                       ELSE Goes(t, "after")
    /\ UNCHANGED <<draining, mounted, ended, worker, privacy, enrolled,
                   limits>>

\* enablePasskeyLogin and setupSpendingRenewals: after an enrolment the key
\* may be provisioned again.
AfterAccept(t) ==
    LET c == tasks[t] IN
    /\ AtStep(t, "after")
    /\ \/ UNCHANGED key
       \/ /\ c.kind \in {"enroll", "register-ledger"}
          /\ key' = [key EXCEPT ![c.vault] = "active"]
    /\ EndsWith(t, tasks)
    /\ UNCHANGED <<sessionVars, draining, mounted, runtimeVars, paymentVars,
                   ended, worker, stored, selected, staged, storedLocked,
                   privacy, enrolled, limits>>

\* Any request fails, or the person dismisses the prompt.
CommandFails(t) ==
    /\ tasks[t].kind \in Commands
    /\ tasks[t].step # "queued"
    /\ EndsWith(t, tasks)
    /\ UNCHANGED <<sessionVars, draining, mounted, runtimeVars, paymentVars,
                   ended, deviceVars, enrolled, limits>>

-----------------------------------------------------------------------------
(***************************************************************************)
(* The wallet connection.                                                  *)
(***************************************************************************)
\* The views of an unlocked account connect its runtime.
ViewConnects ==
    /\ mounted
    /\ Open
    /\ Serves(account)
    /\ runtimes[current].step = "idle"
    /\ runtimes' = Connecting(runtimes, current)
    /\ UNCHANGED <<sessionVars, taskVars, mounted, current, paymentVars, ended,
                   deviceVars, enrolled, limits>>

\* connectAccountWallet, once every earlier runtime has retired: a disposed
\* runtime gives up, and so does one after a runtime that could not retire;
\* another one registers its worker.
RegistersWorker(r) ==
    LET earlier == {runtimes[q].step : q \in 1..(r - 1)} IN
    /\ runtimes[r].step = "waiting"
    /\ earlier \subseteq {"retired", "broken"}
    /\ IF runtimes[r].disposed \/ "broken" \in earlier
       THEN /\ runtimes' = [runtimes EXCEPT ![r].step = "idle"]
            /\ UNCHANGED worker
       ELSE /\ runtimes' = [runtimes EXCEPT ![r].step = "creating"]
            /\ worker' = worker \cup {runtimes[r].vault}
    /\ UNCHANGED <<sessionVars, taskVars, mounted, current, paymentVars, ended,
                   key, stored, selected, staged, storedLocked, privacy,
                   enrolled, limits>>

\* createConnection: the worker opens the wallet with the active key; without
\* it, or for a disposed runtime, the worker is unregistered.
ConnectionCreated(r) ==
    LET v == runtimes[r].vault IN
    /\ runtimes[r].step = "creating"
    /\ \/ /\ key[v] = "active"
          /\ ~runtimes[r].disposed
          /\ runtimes' = [runtimes EXCEPT ![r].step = "open"]
          /\ UNCHANGED worker
       \/ /\ runtimes' = [runtimes EXCEPT ![r].step = "idle"]
          /\ worker' = worker \ {v}
    /\ UNCHANGED <<sessionVars, taskVars, mounted, current, paymentVars, ended,
                   key, stored, selected, staged, storedLocked, privacy,
                   enrolled, limits>>

\* disposeVaultAccountRuntime: the payment command and the connection end
\* before the worker is stopped.
\* Mutant: a runtime that was connecting is left to its own end.
RetiresOpen(r) ==
    LET v == runtimes[r].vault IN
    /\ runtimes[r].disposed
    /\ runtimes[r].step = "open"
    /\ runtimes[r].owner => command = NoCommand
    /\ runtimes' = [runtimes EXCEPT ![r].step = "retired"]
    /\ worker' = worker \ {v}
    /\ UNCHANGED <<sessionVars, taskVars, mounted, current, paymentVars, ended,
                   key, stored, selected, staged, storedLocked, privacy,
                   enrolled, limits>>

Retires(r) ==
    LET v == runtimes[r].vault IN
    /\ runtimes[r].disposed
    /\ runtimes[r].step \in {"idle", "open"}
    /\ runtimes[r].owner => command = NoCommand
    /\ \/ /\ runtimes' = [runtimes EXCEPT ![r].step = "retired"]
          /\ worker' = IF runtimes[r].closes THEN worker \ {v} ELSE worker
          /\ UNCHANGED failures
       \/ /\ runtimes[r].closes /\ v \in worker
          /\ failures < MaxFailures
          /\ failures' = failures + 1
          /\ runtimes' = [runtimes EXCEPT ![r].step = "broken"]
          /\ UNCHANGED worker
    /\ UNCHANGED <<sessionVars, taskVars, mounted, current, paymentVars, ended,
                   key, stored, selected, staged, storedLocked, privacy,
                   enrolled, reloads>>

-----------------------------------------------------------------------------
(***************************************************************************)
(* spendingPayments.ts: one review at a time.                              *)
(***************************************************************************)
\* A Lightning review waits for the lifecycle lock; another one starts with
\* its requests.
Review ==
    /\ mounted
    /\ Open
    /\ command = NoCommand
    /\ \E step \in IF ReviewsWait THEN {"lock", "quote"} ELSE {"quote"} :
         command' = [step |-> step, vault |-> account, session |-> ended,
                     aborted |-> FALSE, runtime |-> 0]
    /\ UNCHANGED <<sessionVars, taskVars, mounted, runtimeVars, review, ended,
                   deviceVars, enrolled, limits>>

\* withVaultLightningPublicQuote: under the lock, the wallet is connected
\* first and the signal is looked at afterwards.
LockGranted ==
    /\ command # NoCommand
    /\ command.step = "lock"
    /\ LET v == command.vault r == RuntimeOf(v) IN
       /\ runtimes' = Connecting(WithRuntime(v), r)
       /\ current' = r
       /\ command' = [command EXCEPT !.step = "wallet", !.runtime = r]
    /\ UNCHANGED <<sessionVars, taskVars, mounted, review, ended, deviceVars,
                   enrolled, limits>>

WalletReady ==
    /\ command # NoCommand
    /\ command.step = "wallet"
    /\ LET step == runtimes[command.runtime].step IN
       /\ step \in {"open", "idle", "retired", "broken"}
       /\ command' = IF step = "open" /\ ~command.aborted
                     THEN [command EXCEPT !.step = "quote"] ELSE NoCommand
    /\ UNCHANGED <<sessionVars, taskVars, mounted, runtimeVars, review, ended,
                   deviceVars, enrolled, limits>>

\* Mutant: only the account is compared.
QuotedForAccount ==
    /\ command # NoCommand
    /\ command.step = "quote"
    /\ command' = NoCommand
    /\ review' = IF command.vault # account THEN review
                 ELSE [vault |-> command.vault, session |-> command.session]
    /\ UNCHANGED <<sessionVars, taskVars, mounted, runtimeVars, ended,
                   deviceVars, enrolled, limits>>

\* The quote arrives: check, then the review is published.
Quoted ==
    /\ command # NoCommand
    /\ command.step = "quote"
    /\ command' = NoCommand
    /\ review' = IF command.aborted \/ command.vault # Identity(locked, account)
                 THEN review
                 ELSE [vault |-> command.vault, session |-> command.session]
    /\ UNCHANGED <<sessionVars, taskVars, mounted, runtimeVars, ended,
                   deviceVars, enrolled, limits>>

QuoteFails ==
    /\ command # NoCommand
    /\ command.step = "quote"
    /\ command' = NoCommand
    /\ UNCHANGED <<sessionVars, taskVars, mounted, runtimeVars, review, ended,
                   deviceVars, enrolled, limits>>

\* cancelReview: the person leaves the review.
CancelReview ==
    /\ mounted
    /\ command # NoCommand \/ review # NoCommand
    /\ CancelPayment
    /\ UNCHANGED <<sessionVars, taskVars, mounted, runtimeVars, ended,
                   deviceVars, enrolled, limits>>

-----------------------------------------------------------------------------
(***************************************************************************)
(* The rest of the page.                                                   *)
(***************************************************************************)
\* acceptStatus, from the balances: the account a failed boot did not show.
StatusRefreshed ==
    /\ ~locked
    /\ bound # NoVault
    /\ account = NoVault
    /\ ShowAccount(bound)
    /\ UNCHANGED <<locked, bound, admitted, taskVars, mounted, ended,
                   deviceVars, enrolled, limits>>

SetPrivacyLock(on) ==
    /\ mounted
    /\ Open
    /\ privacy' = on
    /\ storedLocked' = on
    /\ UNCHANGED <<sessionVars, taskVars, mounted, runtimeVars, paymentVars,
                   ended, key, worker, stored, selected, staged, enrolled,
                   limits>>

\* persistPrivacyLock: the page is hidden.
Hide ==
    /\ mounted
    /\ privacy
    /\ account # NoVault
    /\ storedLocked' = TRUE
    /\ UNCHANGED <<sessionVars, taskVars, mounted, runtimeVars, paymentVars,
                   ended, key, worker, stored, selected, staged, privacy,
                   enrolled, limits>>

\* The page is closed at any moment; the device keeps what was written.
Reload ==
    /\ reloads < MaxReloads
    /\ reloads' = reloads + 1
    /\ locked' = TRUE
    /\ account' = NoVault
    /\ bound' = NoVault
    /\ targets' = {}
    /\ admitted' = {}
    /\ tasks' = <<>>
    /\ flight' = 0
    /\ draining' = 0
    /\ mounted' = FALSE
    /\ runtimes' = <<>>
    /\ current' = 0
    /\ command' = NoCommand
    /\ review' = NoCommand
    /\ ended' = 0
    /\ UNCHANGED <<deviceVars, enrolled, failures>>

-----------------------------------------------------------------------------
\* A device that never held a wallet, or one with the wallet of an enrolled
\* vault, open or locked.
Init ==
    /\ locked = TRUE
    /\ account = NoVault
    /\ bound = NoVault
    /\ targets = {}
    /\ admitted = {}
    /\ tasks = <<>>
    /\ flight = 0
    /\ draining = 0
    /\ mounted = FALSE
    /\ runtimes = <<>>
    /\ current = 0
    /\ command = NoCommand
    /\ review = NoCommand
    /\ ended = 0
    /\ selected \in Enrolled \cup {NoVault}
    /\ stored = {selected} \ {NoVault}
    /\ storedLocked \in IF selected = NoVault THEN {FALSE} ELSE BOOLEAN
    /\ key = [v \in Vaults |-> IF v \in stored /\ ~storedLocked THEN "active"
                               ELSE "none"]
    /\ worker = {}
    /\ staged = NoVault
    /\ privacy = FALSE
    /\ enrolled = Enrolled
    /\ reloads = 0
    /\ failures = 0

\* What the page does by itself, one promise after another.
Promise(t) ==
    \/ CommandDropped(t) \/ BootRuns(t) \/ SignInRuns(t) \/ EnrollRuns(t)
    \/ RegisterRuns(t) \/ PromptRuns(t)
    \/ StartCleaning(t) \/ CleaningEnds(t)
    \/ \E v \in Vaults : StopWorker(t, v)

\* A request of a task ends.
TaskStep(t) ==
    \/ BootLooksUp(t) \/ Authorized(t) \/ KeyProvisioned(t)
    \/ StatusFetched(t) \/ KeyStaged(t) \/ Proposed(t) \/ Finished(t)
    \/ Activated(t) \/ AfterAccept(t) \/ CommandFails(t)
    \/ WorkerStopped(t) \/ DropKey(t)

RuntimeStep(r) == RegistersWorker(r) \/ ConnectionCreated(r) \/ Retires(r)

PaymentStep == LockGranted \/ WalletReady \/ Quoted \/ QuoteFails

Person ==
    \/ Retain \/ Release \/ SignOut \/ ChangePlan \/ CancelLedger
    \/ SignIn \/ ConnectLedger \/ Enroll \/ RegisterLedger \/ EnablePasskey
    \/ \E v \in Vaults : Restore(v)
    \/ Review \/ CancelReview
    \/ \E on \in BOOLEAN : SetPrivacyLock(on)
    \/ Hide \/ Reload

Events ==
    \/ \E t \in TaskIds : TaskStep(t)
    \/ \E r \in RuntimeIds : RuntimeStep(r)
    \/ PaymentStep
    \/ ViewConnects
    \/ StatusRefreshed
    \/ Person

Next ==
    \/ \E t \in TaskIds : Promise(t) \/ StopFails(t)
    \/ Settled /\ Events

Spec == Init /\ [][Next]_vars

(***************************************************************************)
(* Requests are answered or fail, prompts end when their command is        *)
(* cancelled, and the page runs the promises that are ready.  Nobody has   *)
(* to press a button.                                                      *)
(***************************************************************************)
FairSpec ==
    /\ Spec
    /\ \A t \in 1..MaxTasks :
         /\ WF_vars(t \in TaskIds /\ Promise(t))
         /\ WF_vars(t \in TaskIds /\ Settled /\ TaskStep(t))
    /\ \A r \in 1..MaxTasks :
         WF_vars(r \in RuntimeIds /\ Settled /\ RuntimeStep(r))
    /\ WF_vars(Settled /\ PaymentStep)

-----------------------------------------------------------------------------
TypeOK ==
    /\ {locked, mounted, storedLocked, privacy} \subseteq BOOLEAN
    /\ {account, bound, selected, staged} \subseteq MaybeVault
    /\ targets \subseteq Vaults /\ admitted \subseteq targets
    /\ tasks \in Seq(Task) /\ Len(tasks) <= MaxTasks
    /\ flight \in 0..Len(tasks) /\ draining \in 0..Len(tasks)
    /\ runtimes \in Seq(Runtime) /\ current \in 0..Len(runtimes)
    /\ key \in [Vaults -> {"none", "staged", "active"}]
    /\ command \in PaymentCommand \cup {NoCommand}
    /\ review \in ShownReview \cup {NoCommand}
    /\ worker \subseteq Vaults /\ stored \subseteq enrolled
    /\ enrolled \subseteq Vaults
    /\ ended \in 0..MaxTasks /\ reloads \in 0..MaxReloads
    /\ failures \in 0..MaxFailures

\* Everything the page started has ended.
Quiet == \A t \in TaskIds : IsOver(t)

\* The last thing that happened is a teardown, and none was to keep a key.
Drained ==
    /\ draining # 0 /\ draining = Len(tasks)
    /\ tasks[draining].step = "ended"
    /\ \A t \in TaskIds : tasks[t].preserve = {}

(***************************************************************************)
(* A boarding key that is still needed is not deleted: not that of an open *)
(* account, by the clean-up of an earlier session; not that of an account  *)
(* this page admitted, unless the saved session was locked first, so that  *)
(* it cannot open again without its key; not that of a staged enrolment,   *)
(* which the service may have finished already.                            *)
(***************************************************************************)
Needed(v) ==
    \/ Open /\ account = v
    \/ v \in admitted /\ ~storedLocked
    \/ v = staged
NeededKeysKept ==
    [][\A v \in Vaults :
          Needed(v) => key[v] = "none" \/ key'[v] # "none"]_vars

(***************************************************************************)
(* A teardown that ends a session for good leaves nothing behind: once it  *)
(* and every command before it have ended, no vault has an active key or a *)
(* worker, not even the vault of a command that wrote its key after the    *)
(* teardown had begun.  A page that was closed may have left the key of a  *)
(* vault it had not saved yet: after that, only the saved one is cleaned.  *)
(***************************************************************************)
LockedLeavesNothing ==
    Quiet /\ Drained =>
      \A v \in Vaults : reloads = 0 \/ (v = selected /\ v \in stored) =>
        key[v] # "active" /\ v \notin worker

(***************************************************************************)
(* A review on the screen was asked for in the session that is open: no    *)
(* command of an earlier session publishes into a later one.               *)
(***************************************************************************)
ReviewOfThisSession ==
    review # NoCommand =>
      /\ review.vault = Identity(locked, account)
      /\ review.session = ended

\* Every teardown ends, unless the page is closed first.
TeardownEnds ==
    (draining # 0 /\ Live(draining)) ~> (draining = 0 \/ IsOver(draining))
=============================================================================
