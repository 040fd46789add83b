------------------------- MODULE AccountSessionProofs --------------------------
(***************************************************************************)
(* Proofs about AccountSession, for any vaults and any bounds: its types,  *)
(* that no command of an earlier session publishes a review into a later   *)
(* one, that no step deletes a boarding key that is still needed, and that *)
(* a teardown that ends a session for good leaves no key and no worker.    *)
(***************************************************************************)
EXTENDS AccountSession, TLAPS

-------------------------------------------------------------------------------
(* The inductive invariant *)

(* The tasks of a page come to their first step one after another: of two  *)
(* that are not over the later one is queued and awaits one in between.    *)
Ordered ==
    \A t, u \in TaskIds : t < u /\ Live(t) =>
        /\ tasks[u].step = "queued"
        /\ \E w \in tasks[u].after : t <= w /\ w < u /\ Live(w)

(* The flight is the last command, and draining the last teardown; every   *)
(* earlier command that is not over was cancelled.                         *)
Flights ==
    /\ flight # 0 => Live(flight) /\ tasks[flight].kind \in Commands
    /\ \A t \in TaskIds : tasks[t].kind \in Commands =>
          t <= flight /\ (t = flight \/ tasks[t].aborted)
    /\ \A t \in TaskIds : tasks[t].kind = "teardown" => t <= draining
    /\ draining # 0 => tasks[draining].kind \notin Commands

(* The kind of a task says at which steps it can be.                       *)
Shaped == \A t \in TaskIds :
    /\ tasks[t].kind = "over" <=> IsOver(t)
    /\ tasks[t].kind = "teardown" =>
          /\ tasks[t].step \in {"queued", "clean", "stop", "drop"}
          /\ tasks[t].step \in {"stop", "drop"} => tasks[t].vault \in Vaults
    /\ tasks[t].kind \in Commands => tasks[t].step \in CommandSteps

(* A command knows its vault from the first step that writes for it, and   *)
(* the service knows the vault of what is saved.                           *)
CommandOk(c) ==
    /\ c.step \in {"stage", "propose", "finish", "key", "fetch"} => c.vault \in Vaults
    /\ c.kind \in {"enroll", "enable-passkey", "restore"} => c.vault \in Vaults
    /\ c.kind \in {"sign-in", "register-ledger"} /\ c.step # "queued" => c.vault \in Vaults
    /\ c.kind = "restore" \/ (c.kind = "sign-in" /\ c.step = "key") => c.vault \in enrolled
    /\ c.kind = "ledger-key" => c.step \in {"queued", "auth"}
    /\ c.kind = "boot" => c.step \in {"queued", "status", "activate", "fetch"}
    /\ c.step = "fetch" => c.kind \in {"boot", "restore"}
    /\ c.step = "status" => c.kind = "boot"
    /\ (c.kind = "register-ledger" /\ c.step = "auth") \/ c.step = "finish" =>
          c.vault = staged
    /\ c.step = "activate" => staged \in enrolled
Vaulted == \A t \in TaskIds : tasks[t].kind \in Commands => CommandOk(tasks[t])

(* While a teardown is not over its session is locked, the commands before *)
(* it are cancelled, and a key it does not keep is of no admitted account  *)
(* unless the saved session is locked.                                     *)
Torn == \A t \in TaskIds : tasks[t].kind = "teardown" =>
    /\ locked
    /\ storedLocked \/ admitted \subseteq tasks[t].preserve
    /\ tasks[t].step # "queued" => tasks[t].stage = staged
    /\ \A u \in 1..(t - 1) : tasks[u].kind \in Commands => tasks[u].aborted

(* A payment command that is not cancelled is of the session that is open. *)
Paying ==
    /\ command # NoCommand /\ ~command.aborted =>
          command.vault = Identity(locked, account) /\ command.session = ended
    /\ ReviewOfThisSession

Counted == ended <= Len(tasks)
IInv == TypeOK /\ Counted /\ Ordered /\ Flights /\ Shaped /\ Vaulted /\ Torn /\ Paying

-------------------------------------------------------------------------------
(* Sequences and tasks *)

(* A sequence with one element replaced. *)
LEMMA Replaced ==
    ASSUME NEW S, NEW s \in Seq(S), NEW i \in 1..Len(s), NEW e \in S, NEW z,
           z = [s EXCEPT ![i] = e]
    PROVE  /\ z \in Seq(S) /\ Len(z) = Len(s) /\ z[i] = e
           /\ \A j \in 1..Len(s) : j # i => z[j] = s[j]
  <1>1. s \in [1..Len(s) -> S] /\ Len(s) \in Nat
    OBVIOUS
  <1>2. z \in [1..Len(s) -> S]
    BY <1>1
  <1>3. z \in Seq(S) /\ Len(z) = Len(s)
    BY <1>1, <1>2
  <1> QED
    BY <1>1, <1>3

(* A sequence with one element more. *)
LEMMA Grown ==
    ASSUME NEW S, NEW s \in Seq(S), NEW e \in S, NEW z, z = Append(s, e)
    PROVE  /\ z \in Seq(S) /\ Len(z) = Len(s) + 1 /\ z[Len(s) + 1] = e
           /\ \A j \in 1..Len(s) : z[j] = s[j]
  OBVIOUS

(* What a task is made of. *)
LEMMA TaskFields ==
    ASSUME NEW c \in Task
    PROVE  /\ c.kind \in Commands \cup {"teardown", "over"} /\ c.vault \in MaybeVault
           /\ c.step \in CommandSteps \cup TeardownSteps \cup {"ended"}
           /\ c.after \subseteq 1..MaxTasks /\ c.aborted \in BOOLEAN
           /\ c.cleanup \subseteq Vaults /\ c.preserve \subseteq Vaults
           /\ c.stage \in MaybeVault /\ c.stopping \in Nat
           /\ c = [kind |-> c.kind, vault |-> c.vault, step |-> c.step, after |-> c.after,
                   aborted |-> c.aborted, cleanup |-> c.cleanup, preserve |-> c.preserve,
                   stage |-> c.stage, stopping |-> c.stopping]
  BY DEF Task

(* The tasks where they are. *)
LEMMA TasksAre ==
    ASSUME IInv, NEW t \in TaskIds
    PROVE  /\ tasks \in Seq(Task) /\ Len(tasks) \in Nat /\ Len(tasks) <= MaxTasks
           /\ t \in Nat /\ t >= 1 /\ t <= Len(tasks)
           /\ tasks[t] \in Task
           /\ flight \in 0..Len(tasks) /\ draining \in 0..Len(tasks)
           /\ MaxTasks \in Nat
  <1>1. tasks \in Seq(Task) /\ Len(tasks) <= MaxTasks /\ MaxTasks \in Nat
    BY BoundsAssumption DEF IInv, TypeOK
  <1> QED
    BY <1>1 DEF IInv, TypeOK, TaskIds

(* How the one task that is not over moves on.                                 *)
Turns(t, c) ==
    /\ t \in TaskIds /\ c \in Task /\ tasks' \in Seq(Task) /\ Len(tasks') = Len(tasks)
    /\ tasks'[t] = c /\ \A u \in TaskIds : u # t => tasks'[u] = tasks[u]

(* An element replaced is a turn. *)
LEMMA TurnsBy ==
    ASSUME IInv, NEW t \in TaskIds, NEW c \in Task, tasks' = [tasks EXCEPT ![t] = c]
    PROVE  Turns(t, c)
  BY TasksAre, Replaced DEF Turns, TaskIds

(* The earlier tasks are over, the later ones have not begun.                  *)
Foremost(t) ==
    /\ t \in TaskIds /\ Live(t)
    /\ \A u \in TaskIds : (u < t => IsOver(u)) /\ (u > t => tasks[u].step = "queued")

(* A task that runs, or whose turn it is, is the foremost. *)
LEMMA TurnOf ==
    ASSUME IInv, NEW t \in TaskIds, Live(t),
           tasks[t].step # "queued" \/ \A a \in tasks[t].after : IsOver(a)
    PROVE  Foremost(t)
  <1>1. \A u \in TaskIds : u > t => tasks[u].step = "queued"
    BY DEF IInv, Ordered
  <1>2. ASSUME NEW u \in TaskIds, u < t, Live(u) PROVE FALSE
    <2>1. tasks[t].step = "queued" /\ \E w \in tasks[t].after : Live(w)
      BY <1>2 DEF IInv, Ordered
    <2> QED
      BY <2>1 DEF Live
  <1> QED
    BY <1>1, <1>2 DEF Foremost, Live

(* The states of a task over. *)
LEMMA OverIs ==
    ASSUME NEW p \in SUBSET Vaults, NEW how \in {"ended", "failed"}
    PROVE  /\ Over(how) \in Task /\ [Over(how) EXCEPT !.preserve = p] \in Task
           /\ Over(how).kind = "over" /\ Over(how).step = how
           /\ [Over(how) EXCEPT !.preserve = p].kind = "over"
           /\ [Over(how) EXCEPT !.preserve = p].step = how
           /\ [Over(how) EXCEPT !.preserve = p].preserve = p
  BY DEF Over, Task, MaybeVault, TeardownSteps

(* A turn keeps the order of the tasks. *)
LEMMA TurnsKeep ==
    ASSUME IInv, NEW t, NEW c, Turns(t, c), Foremost(t),
           c.step # "queued", c.kind = tasks[t].kind \/ c.kind = "over",
           c.kind = "over" <=> c.step \in {"ended", "failed"},
           c.kind \in Commands => c.step \in CommandSteps /\ c.aborted = tasks[t].aborted,
           c.kind = "teardown" =>
              /\ c.step \in {"clean", "stop", "drop"}
              /\ c.step \in {"stop", "drop"} => c.vault \in Vaults,
           flight' = IF c.kind = "over" /\ flight = t THEN 0 ELSE flight,
           draining' = draining
    PROVE  /\ Ordered' /\ Flights' /\ Shaped' /\ TaskIds' = TaskIds
           /\ flight' \in 0..Len(tasks') /\ draining' \in 0..Len(tasks')
           /\ tasks' \in Seq(Task) /\ Len(tasks') <= MaxTasks
  <1>a. /\ TaskIds' = TaskIds /\ t \in TaskIds /\ tasks'[t] = c
        /\ \A u \in TaskIds : u # t => tasks'[u] = tasks[u]
        /\ \A u \in TaskIds : u < t => IsOver(u) /\ ~Live(u)
        /\ \A u \in TaskIds : u > t => tasks[u].step = "queued" /\ Live(u)
        /\ \A u \in TaskIds : u \in Nat
    BY DEF Turns, TaskIds, Foremost, IsOver, Live
  <1>b. /\ \A u \in TaskIds : u # t => (Live(u)' <=> Live(u)) /\ (IsOver(u)' <=> IsOver(u))
        /\ Live(t)' <=> c.kind # "over"
    BY <1>a DEF Live, IsOver
  <1>1. Ordered'
    <2> SUFFICES ASSUME NEW x \in TaskIds, NEW y \in TaskIds, x < y, Live(x)'
                 PROVE  /\ tasks'[y].step = "queued"
                        /\ \E w \in tasks'[y].after : x <= w /\ w < y /\ Live(w)'
      BY <1>a DEF Ordered
    <2>1. x >= t /\ y > t /\ tasks'[y] = tasks[y] /\ Live(x)
      BY <1>a, <1>b DEF Foremost
    <2>2. PICK w \in tasks[y].after : x <= w /\ w < y /\ Live(w)
      BY <2>1 DEF IInv, Ordered
    <2>3. tasks[y].step = "queued"
      BY <2>1 DEF IInv, Ordered
    <2>4. w \in TaskIds
      BY <1>a, <2>2, TasksAre, TaskFields DEF TaskIds
    <2>5. Live(w)'
      <3>1. CASE w = t
        <4>1. x = t
          BY <1>a, <2>1, <2>2, <3>1
        <4> QED
          BY <3>1, <4>1
      <3>2. CASE w # t
        BY <1>b, <2>2, <2>4, <3>2
      <3> QED
        BY <3>1, <3>2
    <2> QED
      BY <2>1, <2>2, <2>3, <2>5
  <1>2. Shaped'
    <2> SUFFICES ASSUME NEW x \in TaskIds
                 PROVE  /\ tasks'[x].kind = "over" <=> IsOver(x)'
                        /\ tasks'[x].kind = "teardown" =>
                             /\ tasks'[x].step \in {"queued", "clean", "stop", "drop"}
                             /\ tasks'[x].step \in {"stop", "drop"} => tasks'[x].vault \in Vaults
                        /\ tasks'[x].kind \in Commands => tasks'[x].step \in CommandSteps
      BY <1>a DEF Shaped
    <2>1. CASE x = t
      BY <1>a, <2>1 DEF IsOver
    <2>2. CASE x # t
      BY <1>a, <1>b, <2>2 DEF IInv, Shaped
    <2> QED
      BY <2>1, <2>2
  <1>3. Flights'
    <2>1. \A x \in TaskIds : tasks'[x].kind \in Commands => tasks[x].kind \in Commands
      BY <1>a DEF Commands
    <2>2. \A x \in TaskIds : tasks'[x].kind = "teardown" => tasks[x].kind = "teardown"
      BY <1>a
    <2>3. \A x \in TaskIds : tasks'[x].kind = "teardown" => x <= draining'
      BY <1>a, <2>2 DEF IInv, Flights
    <2>4. ASSUME draining' # 0 PROVE tasks'[draining'].kind \notin Commands
      BY <1>a, <2>1, <2>4, TasksAre DEF IInv, Flights, TaskIds
    <2>5. ASSUME flight' # 0 PROVE Live(flight)' /\ tasks'[flight'].kind \in Commands
      <3>1. flight' = flight /\ flight \in TaskIds
        BY <1>a, <2>5, TasksAre DEF TaskIds
      <3>2. Live(flight) /\ tasks[flight].kind \in Commands
        BY <2>5, <3>1 DEF IInv, Flights
      <3>3. CASE flight = t
        BY <1>a, <1>b, <2>5, <3>1, <3>2, <3>3 DEF Commands
      <3>4. CASE flight # t
        BY <1>a, <1>b, <3>1, <3>2, <3>4 DEF Live, IsOver
      <3> QED
        BY <3>3, <3>4
    <2>6. ASSUME NEW x \in TaskIds, tasks'[x].kind \in Commands
          PROVE  x <= flight' /\ (x = flight' \/ tasks'[x].aborted)
      <3>1. x <= flight /\ (x = flight \/ tasks[x].aborted)
        BY <2>1, <2>6 DEF IInv, Flights
      <3>2. CASE c.kind = "over" /\ flight = t
        <4>1. x # t
          BY <1>a, <2>6, <3>2 DEF Commands
        <4>2. IsOver(x) /\ tasks[x].kind \in Commands
          BY <1>a, <2>1, <2>6, <3>1, <3>2, <4>1
        <4> QED
          BY <4>2 DEF IInv, Shaped, Commands
      <3>3. CASE ~(c.kind = "over" /\ flight = t)
        <4>1. flight' = flight /\ tasks'[x].aborted = tasks[x].aborted
          BY <1>a, <2>6, <3>3
        <4> QED
          BY <3>1, <4>1
      <3> QED
        BY <3>2, <3>3
    <2> QED
      BY <1>a, <2>3, <2>4, <2>5, <2>6 DEF Flights
  <1>4. flight' \in 0..Len(tasks') /\ draining' \in 0..Len(tasks')
    BY <1>a, TasksAre DEF Turns
  <1> QED
    BY <1>a, <1>1, <1>2, <1>3, <1>4, TasksAre DEF Turns

-------------------------------------------------------------------------------
(* The session, its runtimes and its payment *)

SessionTyped ==
    /\ {locked, mounted} \subseteq BOOLEAN /\ {account, bound} \subseteq MaybeVault
    /\ targets \subseteq Vaults /\ admitted \subseteq targets
RuntimeTyped == runtimes \in Seq(Runtime) /\ current \in 0..Len(runtimes)
PaymentTyped ==
    /\ command \in PaymentCommand \cup {NoCommand}
    /\ review \in ShownReview \cup {NoCommand}
DeviceTyped ==
    /\ {storedLocked, privacy} \subseteq BOOLEAN /\ {selected, staged} \subseteq MaybeVault
    /\ key \in [Vaults -> {"none", "staged", "active"}]
    /\ worker \subseteq Vaults /\ stored \subseteq enrolled /\ enrolled \subseteq Vaults
LimitsTyped == reloads \in 0..MaxReloads /\ failures \in 0..MaxFailures

(* What the invariant says of them. *)
LEMMA PartsTyped ==
    ASSUME IInv
    PROVE  /\ SessionTyped /\ RuntimeTyped /\ PaymentTyped /\ DeviceTyped /\ LimitsTyped
           /\ ended \in Nat /\ ended <= Len(tasks)
           /\ NoVault \notin Vaults /\ Enrolled \subseteq Vaults
           /\ NoCommand \notin PaymentCommand /\ NoCommand \notin ShownReview
           /\ MaxReloads \in Nat /\ MaxFailures \in Nat /\ MaxTasks \in Nat /\ MaxLater \in Nat
           /\ MaxLater <= MaxTasks
  BY VaultsAssumption, NoCommandAssumption, BoundsAssumption
     DEF IInv, TypeOK, Counted, SessionTyped, RuntimeTyped, PaymentTyped, DeviceTyped,
         LimitsTyped

(* A runtime that is replaced or connected stays one. *)
LEMMA RuntimesTyped ==
    ASSUME RuntimeTyped, NEW v \in Vaults
    PROVE  /\ WithRuntime(v) \in Seq(Runtime) /\ RuntimeOf(v) \in 1..Len(WithRuntime(v))
           /\ WithRuntime(v)[RuntimeOf(v)].vault = v
  <1>1. CASE Serves(v)
    BY <1>1 DEF RuntimeTyped, Serves, WithRuntime, RuntimeOf
  <1>2. CASE ~Serves(v)
    <2>1. PICK s : s = [r \in RuntimeIds |->
                    IF r = current THEN [runtimes[r] EXCEPT !.disposed = TRUE]
                    ELSE runtimes[r]]
      OBVIOUS
    <2>2. \A r \in RuntimeIds : runtimes[r] \in Runtime
      BY DEF RuntimeTyped, RuntimeIds
    <2>3. \A r \in RuntimeIds : [runtimes[r] EXCEPT !.disposed = TRUE] \in Runtime
      BY <2>2 DEF Runtime
    <2>4. s \in Seq(Runtime) /\ Len(s) = Len(runtimes) /\ Len(runtimes) \in Nat
      BY <2>1, <2>2, <2>3 DEF RuntimeTyped, RuntimeIds
    <2>5. NewRuntime(v) \in Runtime /\ NewRuntime(v).vault = v
      BY DEF NewRuntime, Runtime
    <2>6. WithRuntime(v) = Append(s, NewRuntime(v)) /\ RuntimeOf(v) = Len(s) + 1
      BY <1>2, <2>1, <2>4 DEF WithRuntime, RuntimeOf
    <2> QED
      BY <2>4, <2>5, <2>6
  <1> QED
    BY <1>1, <1>2

(* A runtime that connects. *)
LEMMA ConnectingTyped ==
    ASSUME NEW rs \in Seq(Runtime), NEW r \in 1..Len(rs)
    PROVE  Connecting(rs, r) \in Seq(Runtime) /\ Len(Connecting(rs, r)) = Len(rs)
  <1>1. PICK e : e = [rs[r] EXCEPT !.step = IF @ = "idle" THEN "waiting" ELSE @,
                                    !.closes = TRUE]
    OBVIOUS
  <1>2. rs[r] \in Runtime
    OBVIOUS
  <1>3. e \in Runtime
    BY <1>1, <1>2 DEF Runtime
  <1>4. PICK z : z = [rs EXCEPT ![r] = e]
    OBVIOUS
  <1>5. Connecting(rs, r) = z
    BY <1>1, <1>4 DEF Connecting
  <1> QED
    BY <1>3, <1>4, <1>5, Replaced

(* The payment owner follows the session. *)
LEMMA CancelTyped ==
    ASSUME IInv, CancelPayment
    PROVE  /\ PaymentTyped' /\ review' = NoCommand
           /\ command' # NoCommand => command'.aborted
  <1>1. CASE command = NoCommand
    BY <1>1, PartsTyped DEF CancelPayment, PaymentTyped
  <1>2. CASE command # NoCommand
    <2>1. command \in PaymentCommand
      BY <1>2, PartsTyped DEF PaymentTyped
    <2>2. command' = [command EXCEPT !.aborted = TRUE] /\ review' = NoCommand
      BY <1>2 DEF CancelPayment
    <2>3. command' \in PaymentCommand /\ command'.aborted
      BY <2>1, <2>2 DEF PaymentCommand
    <2> QED
      BY <2>2, <2>3 DEF PaymentTyped
  <1> QED
    BY <1>1, <1>2

(* The binding of a session that is locked or unlocked. *)
LEMMA BindTyped ==
    ASSUME IInv, NEW lock \in BOOLEAN, NEW acct \in MaybeVault, Bind(lock, acct)
    PROVE  /\ RuntimeTyped' /\ PaymentTyped'
           /\ IF Identity(lock, acct) # Identity(locked, account)
              THEN review' = NoCommand /\ (command' # NoCommand => command'.aborted)
              ELSE UNCHANGED <<command, review>>
  <1>1. PICK v : v = Identity(lock, acct) /\ v \in MaybeVault
    BY DEF Identity, MaybeVault
  <1>2. /\ IF v # Identity(locked, account) THEN CancelPayment ELSE UNCHANGED paymentVars
        /\ IF v = NoVault THEN UNCHANGED runtimeVars
           ELSE /\ current' = RuntimeOf(v)
                /\ runtimes' = [WithRuntime(v) EXCEPT ![RuntimeOf(v)].owner = TRUE]
    BY <1>1 DEF Bind
  <1>3. RuntimeTyped'
    <2>1. CASE v = NoVault
      BY <1>2, <2>1, PartsTyped DEF RuntimeTyped, runtimeVars
    <2>2. CASE v # NoVault
      <3>1. PICK rs, r : rs = WithRuntime(v) /\ r = RuntimeOf(v)
        OBVIOUS
      <3>2. rs \in Seq(Runtime) /\ r \in 1..Len(rs)
        BY <1>1, <2>2, <3>1, PartsTyped, RuntimesTyped DEF MaybeVault
      <3>3. rs[r] \in Runtime
        BY <3>2
      <3>4. PICK e : e = [rs[r] EXCEPT !.owner = TRUE]
        OBVIOUS
      <3>5. e \in Runtime
        BY <3>3, <3>4 DEF Runtime
      <3>6. runtimes' = [rs EXCEPT ![r] = e] /\ current' = r
        BY <1>2, <2>2, <3>1, <3>4
      <3> QED
        BY <3>2, <3>5, <3>6, Replaced DEF RuntimeTyped
    <2> QED
      BY <2>1, <2>2
  <1>4. CASE v # Identity(locked, account)
    BY <1>1, <1>2, <1>3, <1>4, CancelTyped
  <1>5. CASE v = Identity(locked, account)
    BY <1>1, <1>2, <1>3, <1>5, PartsTyped DEF paymentVars, PaymentTyped
  <1> QED
    BY <1>4, <1>5

(* A binding keeps what is known of the payment. *)
LEMMA BindPays ==
    ASSUME IInv, NEW lock \in BOOLEAN, NEW acct \in MaybeVault, Bind(lock, acct),
           locked' = lock, account' = acct,
           \/ ended' = ended
           \/ lock
    PROVE  RuntimeTyped' /\ PaymentTyped' /\ Paying'
  <1>1. Identity(locked, account)' = Identity(lock, acct)
    BY DEF Identity
  <1>2. RuntimeTyped' /\ PaymentTyped'
    BY BindTyped
  <1>3. CASE Identity(lock, acct) # Identity(locked, account)
    BY <1>1, <1>3, BindTyped DEF Paying, ReviewOfThisSession
  <1>4. CASE Identity(lock, acct) = Identity(locked, account) /\ ended' = ended
    BY <1>1, <1>4, BindTyped DEF Paying, ReviewOfThisSession, IInv
  <1>5. CASE Identity(lock, acct) = Identity(locked, account) /\ lock
    <2>1. Identity(locked, account) = NoVault /\ UNCHANGED <<command, review>>
      BY <1>5, BindTyped DEF Identity
    <2>2. review = NoCommand
      BY <2>1, PartsTyped DEF PaymentTyped, ShownReview, IInv, Paying, ReviewOfThisSession
    <2>3. command # NoCommand => command.aborted
      BY <2>1, PartsTyped DEF PaymentTyped, PaymentCommand, IInv, Paying
    <2>4. command' # NoCommand => command'.aborted
      BY <2>1, <2>3
    <2>5. review' = NoCommand
      BY <2>1, <2>2
    <2> QED
      BY <1>2, <2>4, <2>5 DEF Paying, ReviewOfThisSession
  <1> QED
    BY <1>2, <1>3, <1>4, <1>5

(* So does a step that leaves session and payment alone. *)
LEMMA PaysOn ==
    ASSUME IInv, UNCHANGED <<locked, account, ended, command, review>>
    PROVE  PaymentTyped' /\ Paying'
  <1>1. Identity(locked, account)' = Identity(locked, account)
    BY DEF Identity
  <1> QED
    BY <1>1, PartsTyped DEF PaymentTyped, Paying, ReviewOfThisSession, IInv

-------------------------------------------------------------------------------
(* The steps of a command *)

(* How a command moves on ...                                                  *)
Commanded(t, c) ==
    /\ Turns(t, c) /\ Foremost(t) /\ tasks[t].kind \in Commands
    /\ c.step # "queued" /\ c.kind \in {tasks[t].kind, "over"}
    /\ c.kind = "over" <=> c.step \in {"ended", "failed"}
    /\ c.kind \in Commands => c.step \in CommandSteps /\ c.aborted = tasks[t].aborted
    /\ flight' = IF c.kind = "over" /\ flight = t THEN 0 ELSE flight
    /\ draining' = draining

(* ... and what it may do to the page and to the device: one that is cancelled *)
(* unlocks nothing, and none deletes a key.                                    *)
Effects(t) ==
    /\ SessionTyped' /\ RuntimeTyped' /\ PaymentTyped' /\ DeviceTyped' /\ Paying'
    /\ enrolled \subseteq enrolled' /\ UNCHANGED <<mounted, ended, reloads, failures>>
    /\ tasks[t].aborted => UNCHANGED <<locked, storedLocked, admitted>>
    /\ \A v \in Vaults : key[v] = "none" \/ key'[v] # "none"

(* A command that ends ... *)
LEMMA EndsAs ==
    ASSUME IInv, NEW t, Foremost(t), tasks[t].kind \in Commands,
           EndsWith(t, tasks), draining' = draining
    PROVE  \E c : Commanded(t, c) /\ c.kind = "over"
  <1>1. t \in TaskIds /\ Over("ended") \in Task
    BY OverIs DEF Foremost
  <1>2. PICK c : c = Over("ended")
    OBVIOUS
  <1>3. c \in Task /\ c.kind = "over" /\ c.step = "ended" /\ c.kind \notin Commands
    BY <1>2, OverIs DEF Commands
  <1>4. Turns(t, c) /\ flight' = IF flight = t THEN 0 ELSE flight
    BY <1>1, <1>2, <1>3, TurnsBy DEF EndsWith
  <1> QED
    BY <1>3, <1>4 DEF Commanded

(* ... one that goes on ...                                                    *)
LEMMA GoesAs ==
    ASSUME IInv, NEW t, Foremost(t), tasks[t].kind \in Commands,
           NEW step \in CommandSteps \ {"queued"}, Goes(t, step), draining' = draining
    PROVE  \E c : /\ Commanded(t, c) /\ c.kind = tasks[t].kind
                  /\ c.vault = tasks[t].vault /\ c.step = step
  <1>a. t \in TaskIds /\ tasks[t] \in Task
    BY TasksAre DEF Foremost
  <1>1. PICK c : c = [tasks[t] EXCEPT !.step = step]
    OBVIOUS
  <1>2. /\ c \in Task /\ c.kind = tasks[t].kind
        /\ c.vault = tasks[t].vault /\ c.step = step /\ c.aborted = tasks[t].aborted
    BY <1>a, <1>1 DEF Task
  <1>3. tasks' = [tasks EXCEPT ![t] = c]
    BY <1>1 DEF Goes
  <1>4. Turns(t, c)
    BY <1>a, <1>2, <1>3, TurnsBy
  <1>5. c.kind # "over" /\ step \notin {"ended", "failed"}
    BY <1>2 DEF Commands, CommandSteps
  <1> QED
    BY <1>2, <1>4, <1>5 DEF Commanded, Goes

(* ... and one that begins.                                                    *)
LEMMA BeginsAs ==
    ASSUME IInv, NEW t, Foremost(t), tasks[t].kind \in Commands, NEW v \in MaybeVault,
           NEW step \in CommandSteps \ {"queued"}, Begins(t, v, step), draining' = draining
    PROVE  \E c : /\ Commanded(t, c) /\ c.kind = tasks[t].kind
                  /\ c.vault = v /\ c.step = step
  <1>a. t \in TaskIds /\ tasks[t] \in Task
    BY TasksAre DEF Foremost
  <1>1. PICK c : c = [tasks[t] EXCEPT !.step = step, !.vault = v, !.after = {}]
    OBVIOUS
  <1>2. /\ c \in Task /\ c.kind = tasks[t].kind
        /\ c.vault = v /\ c.step = step /\ c.aborted = tasks[t].aborted
    BY <1>a, <1>1 DEF Task
  <1>3. tasks' = [tasks EXCEPT ![t] = c]
    BY <1>1 DEF Begins
  <1>4. Turns(t, c)
    BY <1>a, <1>2, <1>3, TurnsBy
  <1>5. c.kind # "over" /\ step \notin {"ended", "failed"}
    BY <1>2 DEF Commands, CommandSteps
  <1> QED
    BY <1>2, <1>4, <1>5 DEF Commanded, Begins

(* No other command has begun, and a teardown that is not over has cancelled   *)

(* the one that runs.                                                          *)
LEMMA CommandKeeps ==
    ASSUME IInv, NEW t, NEW c, Commanded(t, c), Effects(t),
           c.kind \in Commands => CommandOk(c)'
    PROVE  IInv'
  <1>a. /\ t \in TaskIds /\ tasks'[t] = c /\ TaskIds' = TaskIds
        /\ \A u \in TaskIds : u # t => tasks'[u] = tasks[u]
        /\ \A u \in TaskIds : u \in Nat
    BY DEF Commanded, Turns, TaskIds
  <1>b. \A u \in TaskIds : u < t => IsOver(u)
    BY DEF Commanded, Foremost
  <1>c. \A u \in TaskIds : u > t => tasks[u].step = "queued"
    BY DEF Commanded, Foremost
  <1>1. /\ Ordered' /\ Flights' /\ Shaped'
        /\ flight' \in 0..Len(tasks') /\ draining' \in 0..Len(tasks')
        /\ tasks' \in Seq(Task) /\ Len(tasks') <= MaxTasks /\ Len(tasks') = Len(tasks)
    BY TurnsKeep DEF Commanded, Commands, Turns
  <1>2. TypeOK' /\ Counted'
    BY <1>1, PartsTyped DEF TypeOK, Counted, Effects, SessionTyped, RuntimeTyped,
       PaymentTyped, DeviceTyped, LimitsTyped
  <1>3. Vaulted'
    <2> SUFFICES ASSUME NEW x \in TaskIds, tasks'[x].kind \in Commands
                 PROVE  CommandOk(tasks[x])'
      BY <1>a DEF Vaulted
    <2>1. CASE x = t
      BY <1>a, <2>1 DEF CommandOk
    <2>2. CASE x # t
      <3>1. tasks'[x] = tasks[x] /\ tasks[x].kind \in Commands
        BY <1>a, <2>2
      <3>2. ~IsOver(x)
        BY <3>1 DEF IInv, Shaped, Commands
      <3>3. tasks[x].step = "queued"
        BY <1>a, <1>b, <1>c, <2>2, <3>2
      <3>4. CommandOk(tasks[x])
        BY <3>1 DEF IInv, Vaulted
      <3>5. enrolled \subseteq enrolled'
        BY DEF Effects
      <3> QED
        BY <3>1, <3>3, <3>4, <3>5 DEF CommandOk
    <2> QED
      BY <2>1, <2>2
  <1>4. Torn'
    <2> SUFFICES ASSUME NEW d \in TaskIds, tasks'[d].kind = "teardown"
                 PROVE  /\ locked'
                        /\ storedLocked' \/ admitted' \subseteq tasks'[d].preserve
                        /\ tasks'[d].step # "queued" => tasks'[d].stage = staged'
                        /\ \A u \in 1..(d - 1) :
                              tasks'[u].kind \in Commands => tasks'[u].aborted
      BY <1>a DEF Torn
    <2>1. d # t /\ tasks'[d] = tasks[d]
      BY <1>a DEF Commanded, Commands
    <2>2. ~IsOver(d)
      BY <2>1 DEF IInv, Shaped
    <2>3. d > t /\ tasks[d].step = "queued"
      BY <1>a, <1>b, <1>c, <2>1, <2>2
    <2>4. t \in 1..(d - 1)
      BY <1>a, <2>3 DEF TaskIds
    <2>5. /\ locked
          /\ storedLocked \/ admitted \subseteq tasks[d].preserve
          /\ \A u \in 1..(d - 1) : tasks[u].kind \in Commands => tasks[u].aborted
      BY <2>1 DEF IInv, Torn
    <2>6. tasks[t].aborted
      BY <2>4, <2>5 DEF Commanded
    <2>7. UNCHANGED <<locked, storedLocked, admitted>>
      BY <2>6 DEF Effects
    <2>8. ASSUME NEW u \in 1..(d - 1), tasks'[u].kind \in Commands PROVE tasks'[u].aborted
      <3>1. u \in TaskIds
        BY <1>a, TasksAre DEF TaskIds
      <3>2. CASE u # t
        BY <1>a, <2>5, <2>8, <3>1, <3>2
      <3>3. CASE u = t
        BY <1>a, <2>6, <2>8, <3>3 DEF Commanded
      <3> QED
        BY <3>2, <3>3
    <2> QED
      BY <2>1, <2>3, <2>5, <2>7, <2>8
  <1> QED
    BY <1>1, <1>2, <1>3, <1>4 DEF IInv, Effects

-------------------------------------------------------------------------------
(* Each step of a command *)

(* What a step does: the command moves on, and its vault stays right.          *)
Moves(t) ==
    /\ Effects(t)
    /\ \E c : Commanded(t, c) /\ (c.kind \in Commands => CommandOk(c)')

(* A command that runs is the only one that does. *)
LEMMA CommandAt ==
    ASSUME IInv, NEW t \in TaskIds, tasks[t].kind \in Commands,
           tasks[t].step # "queued" \/ Starts(t)
    PROVE  /\ Foremost(t) /\ CommandOk(tasks[t]) /\ tasks[t] \in Task
           /\ tasks[t].vault \in MaybeVault /\ tasks[t].aborted \in BOOLEAN
  <1>1. Live(t)
    BY DEF IInv, Shaped, Live, Commands
  <1>2. Foremost(t)
    BY <1>1, TurnOf DEF Starts
  <1> QED
    BY <1>2, TasksAre, TaskFields DEF IInv, Vaulted

(* Where a step leaves session, runtimes, payment and device alone. *)
LEMMA QuietEffects ==
    ASSUME IInv, NEW t, targets \subseteq targets', targets' \subseteq Vaults,
           UNCHANGED <<locked, account, bound, admitted, mounted, runtimes, current,
                       command, review, ended, key, worker, stored, selected, staged,
                       storedLocked, privacy, enrolled, reloads, failures>>
    PROVE  Effects(t)
  <1>1. SessionTyped' /\ RuntimeTyped' /\ DeviceTyped'
    BY PartsTyped DEF SessionTyped, RuntimeTyped, DeviceTyped
  <1> QED
    BY <1>1, PaysOn DEF Effects

(* Where it leaves the session alone, and the device is typed. *)
LEMMA DeviceEffects ==
    ASSUME IInv, NEW t, targets \subseteq targets', targets' \subseteq Vaults,
           UNCHANGED <<locked, account, bound, admitted, mounted, runtimes, current,
                       command, review, ended, worker, storedLocked, privacy,
                       reloads, failures>>,
           key' = key \/ (\E v, k : k \in {"staged", "active"} /\ key' = [key EXCEPT ![v] = k]),
           stored' \subseteq enrolled', enrolled \subseteq enrolled', enrolled' \subseteq Vaults,
           selected' \in MaybeVault, staged' \in MaybeVault
    PROVE  Effects(t)
  <1>1. SessionTyped' /\ RuntimeTyped'
    BY PartsTyped DEF SessionTyped, RuntimeTyped
  <1>2. /\ key' \in [Vaults -> {"none", "staged", "active"}]
        /\ \A v \in Vaults : key[v] = "none" \/ key'[v] # "none"
    BY PartsTyped DEF DeviceTyped
  <1>3. DeviceTyped'
    BY <1>2, PartsTyped DEF DeviceTyped
  <1> QED
    BY <1>1, <1>2, <1>3, PaysOn DEF Effects

(* A command that ends moves on. *)
LEMMA EndsMoves ==
    ASSUME IInv, NEW t \in TaskIds, tasks[t].kind \in Commands,
           tasks[t].step # "queued" \/ Starts(t),
           EndsWith(t, tasks), draining' = draining, Effects(t)
    PROVE  Moves(t)
  <1>1. \E c : Commanded(t, c) /\ c.kind = "over"
    BY CommandAt, EndsAs
  <1> QED
    BY <1>1 DEF Moves, Commands

(* A command that is dropped before its first step, or fails at a later one. *)
LEMMA DroppedMoves ==
    ASSUME IInv, NEW t \in TaskIds, CommandDropped(t) \/ CommandFails(t)
    PROVE  Moves(t)
  <1>1. /\ tasks[t].kind \in Commands /\ (tasks[t].step # "queued" \/ Starts(t))
        /\ EndsWith(t, tasks) /\ draining' = draining
        /\ UNCHANGED <<sessionVars, mounted, runtimeVars, paymentVars, ended, deviceVars,
                       enrolled, limits>>
    BY DEF CommandDropped, CommandFails, Starts, AtStep
  <1>2. Effects(t)
    BY <1>1, PartsTyped, QuietEffects
       DEF sessionVars, runtimeVars, paymentVars, deviceVars, limits, SessionTyped
  <1> QED
    BY <1>1, <1>2, EndsMoves

(* The boot that looks up the staged enrolment. *)
LEMMA LooksUpMoves ==
    ASSUME IInv, NEW t \in TaskIds, BootLooksUp(t)
    PROVE  Moves(t)
  <1>1. /\ tasks[t].kind \in Commands /\ tasks[t].step = "status" /\ draining' = draining
        /\ UNCHANGED <<sessionVars, mounted, runtimeVars, paymentVars, ended, deviceVars,
                       enrolled, limits>>
    BY DEF BootLooksUp, AtStep
  <1>2. Effects(t)
    BY <1>1, PartsTyped, QuietEffects
       DEF sessionVars, runtimeVars, paymentVars, deviceVars, limits, SessionTyped
  <1>3. /\ Foremost(t) /\ CommandOk(tasks[t])
        /\ tasks[t].kind = "boot" /\ tasks[t].vault \in MaybeVault
    BY <1>1, CommandAt DEF CommandOk
  <1>4. \/ EndsWith(t, tasks)
        \/ staged \in enrolled /\ Goes(t, "activate")
        \/ tasks[t].vault # NoVault /\ Goes(t, "fetch")
    BY DEF BootLooksUp
  <1>5. CASE EndsWith(t, tasks)
    BY <1>1, <1>2, <1>5, EndsMoves
  <1>6. CASE staged \in enrolled /\ Goes(t, "activate")
    <2>1. PICK c : /\ Commanded(t, c) /\ c.kind = "boot" /\ c.step = "activate"
      BY <1>1, <1>3, <1>6, GoesAs DEF CommandSteps
    <2>2. CommandOk(c)'
      BY <1>1, <1>6, <2>1 DEF CommandOk, deviceVars
    <2> QED
      BY <1>2, <2>1, <2>2 DEF Moves
  <1>7. CASE tasks[t].vault # NoVault /\ Goes(t, "fetch")
    <2>1. PICK c : /\ Commanded(t, c) /\ c.kind = "boot" /\ c.step = "fetch"
                   /\ c.vault = tasks[t].vault
      BY <1>1, <1>3, <1>7, GoesAs DEF CommandSteps
    <2>2. CommandOk(c)'
      BY <1>3, <1>7, <2>1 DEF CommandOk, MaybeVault
    <2> QED
      BY <1>2, <2>1, <2>2 DEF Moves
  <1> QED
    BY <1>4, <1>5, <1>6, <1>7

(* The first steps that ask and write nothing yet. *)
Asks(t) == SignInRuns(t) \/ EnrollRuns(t) \/ RegisterRuns(t) \/ PromptRuns(t) \/ Authorized(t)

(* What they register and where they go. *)
LEMMA AsksAt ==
    ASSUME IInv, NEW t \in TaskIds, Asks(t)
    PROVE  /\ tasks[t].kind \in Commands /\ draining' = draining
           /\ tasks[t].step # "queued" \/ Starts(t)
           /\ UNCHANGED <<locked, account, bound, admitted, mounted, runtimeVars,
                          paymentVars, ended, deviceVars, enrolled, limits>>
           /\ targets \subseteq targets' /\ targets' \subseteq Vaults
           /\ \/ EndsWith(t, tasks)
              \/ /\ tasks[t].kind = "sign-in"
                 /\ \E v \in Vaults : Begins(t, v, "auth")
              \/ /\ tasks[t].kind = "enroll" /\ staged # NoVault
                 /\ Begins(t, staged, "finish")
              \/ /\ tasks[t].kind = "enroll" /\ tasks[t].vault \in Vaults
                 /\ Begins(t, tasks[t].vault, "stage")
              \/ /\ tasks[t].kind = "register-ledger" /\ staged # NoVault
                 /\ Begins(t, staged, "auth")
              \/ /\ tasks[t].kind \in {"enable-passkey", "ledger-key", "restore"}
                 /\ Begins(t, tasks[t].vault, "auth")
              \/ /\ tasks[t].kind # "ledger-key" /\ tasks[t].step = "auth"
                 /\ tasks[t].vault \in Vaults
                 /\ tasks[t].kind = "sign-in" => tasks[t].vault \in enrolled
                 /\ IF tasks[t].kind = "register-ledger" THEN Goes(t, "finish")
                    ELSE Goes(t, "key")
  <1>a. /\ targets \subseteq Vaults /\ staged \in MaybeVault /\ bound \in MaybeVault
        /\ selected \in MaybeVault /\ stored \subseteq Vaults /\ enrolled \subseteq Vaults
    BY PartsTyped DEF SessionTyped, DeviceTyped
  <1>1. CASE SignInRuns(t)
    <2>1. tasks[t].kind = "sign-in" /\ Starts(t)
      BY <1>1 DEF SignInRuns, Runs
    <2>2. PICK local \in MaybeVault :
              \/ /\ local # NoVault
                 /\ targets' = targets \cup {local}
                 /\ Begins(t, local, "auth")
              \/ /\ local = NoVault
                 /\ \E v \in IF selected # NoVault THEN {selected} ELSE enrolled :
                      Begins(t, v, "auth")
                 /\ UNCHANGED targets
      BY <1>a, <1>1 DEF SignInRuns, StoredVault, MaybeVault
    <2> QED
      BY <1>a, <1>1, <2>1, <2>2 DEF SignInRuns, MaybeVault, Commands
  <1>2. CASE EnrollRuns(t)
    <2>1. tasks[t].kind = "enroll" /\ Starts(t)
      BY <1>2 DEF EnrollRuns, Runs
    <2>2. tasks[t].vault \in Vaults
      BY <2>1, CommandAt DEF CommandOk, Commands
    <2> QED
      BY <1>a, <1>2, <2>1, <2>2 DEF EnrollRuns, MaybeVault, Commands
  <1>3. CASE RegisterRuns(t)
    <2>1. tasks[t].kind = "register-ledger" /\ Starts(t)
      BY <1>3 DEF RegisterRuns, Runs
    <2> QED
      BY <1>a, <1>3, <2>1 DEF RegisterRuns, MaybeVault, Commands
  <1>4. CASE PromptRuns(t)
    <2>1. tasks[t].kind \in {"enable-passkey", "ledger-key", "restore"} /\ Starts(t)
      BY <1>4 DEF PromptRuns, Runs
    <2>2. tasks[t].kind = "enable-passkey" => tasks[t].vault \in Vaults
      BY <2>1, CommandAt DEF CommandOk, Commands
    <2> QED
      BY <1>a, <1>4, <2>1, <2>2 DEF PromptRuns, Commands
  <1>5. CASE Authorized(t)
    <2>1. tasks[t].kind \in Commands /\ tasks[t].step = "auth"
      BY <1>5 DEF Authorized, AtStep
    <2>2. CommandOk(tasks[t])
      BY <2>1, CommandAt
    <2>3. tasks[t].kind # "ledger-key" => tasks[t].vault \in Vaults
      BY <2>1, <2>2 DEF CommandOk, Commands
    <2> QED
      BY <1>a, <1>5, <2>1, <2>3 DEF Authorized
  <1> QED
    BY <1>1, <1>2, <1>3, <1>4, <1>5 DEF Asks

(* The steps that ask move on. *)
LEMMA AsksMoves ==
    ASSUME IInv, NEW t \in TaskIds, Asks(t)
    PROVE  Moves(t)
  <1>1. Effects(t)
    BY AsksAt, QuietEffects DEF runtimeVars, paymentVars, deviceVars, limits
  <1>2. /\ tasks[t].kind \in Commands /\ draining' = draining /\ Foremost(t)
        /\ CommandOk(tasks[t]) /\ tasks[t].vault \in MaybeVault
        /\ staged' = staged /\ enrolled' = enrolled /\ staged \in MaybeVault
    BY AsksAt, CommandAt, PartsTyped DEF deviceVars, DeviceTyped
  <1>3. CASE EndsWith(t, tasks)
    BY <1>1, <1>3, AsksAt, EndsMoves
  <1>4. ASSUME NEW v \in MaybeVault, NEW step \in {"auth", "finish", "stage"}, Begins(t, v, step),
               v \in Vaults \/ tasks[t].kind \in {"ledger-key", "restore", "enable-passkey"},
               tasks[t].kind \in {"ledger-key", "restore", "enable-passkey"} =>
                  v = tasks[t].vault /\ step = "auth",
               step = "finish" \/ tasks[t].kind = "register-ledger" => v = staged,
               tasks[t].kind # "boot"
        PROVE  Moves(t)
    <2>1. PICK c : /\ Commanded(t, c) /\ c.kind = tasks[t].kind /\ c.step = step
                   /\ c.vault = v
      BY <1>2, <1>4, BeginsAs DEF CommandSteps
    <2>2. CommandOk(c)'
      BY <1>2, <1>4, <2>1 DEF CommandOk
    <2> QED
      BY <1>1, <2>1, <2>2 DEF Moves
  <1>5. ASSUME tasks[t].kind # "ledger-key", tasks[t].step = "auth",
               tasks[t].vault \in Vaults, tasks[t].kind = "sign-in" => tasks[t].vault \in enrolled,
               NEW step \in {"finish", "key"}, Goes(t, step),
               step = "finish" <=> tasks[t].kind = "register-ledger"
        PROVE  Moves(t)
    <2>1. PICK c : /\ Commanded(t, c) /\ c.kind = tasks[t].kind /\ c.step = step
                   /\ c.vault = tasks[t].vault
      BY <1>2, <1>5, GoesAs DEF CommandSteps
    <2>2. CommandOk(c)'
      BY <1>2, <1>5, <2>1 DEF CommandOk
    <2> QED
      BY <1>1, <2>1, <2>2 DEF Moves
  <1>6. ASSUME tasks[t].kind = "sign-in", NEW v \in Vaults, Begins(t, v, "auth") PROVE Moves(t)
    BY <1>4, <1>6 DEF MaybeVault
  <1>7. ASSUME tasks[t].kind = "enroll", staged # NoVault, Begins(t, staged, "finish")
        PROVE  Moves(t)
    BY <1>2, <1>4, <1>7 DEF MaybeVault
  <1>8. ASSUME tasks[t].kind = "enroll", tasks[t].vault \in Vaults,
               Begins(t, tasks[t].vault, "stage")
        PROVE  Moves(t)
    BY <1>2, <1>4, <1>8
  <1>9. ASSUME tasks[t].kind = "register-ledger", staged # NoVault, Begins(t, staged, "auth")
        PROVE  Moves(t)
    BY <1>2, <1>4, <1>9 DEF MaybeVault
  <1>10. ASSUME tasks[t].kind \in {"enable-passkey", "ledger-key", "restore"},
                Begins(t, tasks[t].vault, "auth")
         PROVE  Moves(t)
    BY <1>2, <1>4, <1>10
  <1> QED
    BY <1>3, <1>5, <1>6, <1>7, <1>8, <1>9, <1>10, AsksAt

(* Where the account is admitted. *)
LEMMA AcceptEffects ==
    ASSUME IInv, NEW t, NEW v \in enrolled, Accept(v), tasks[t].aborted = FALSE,
           UNCHANGED <<mounted, ended, worker, privacy, enrolled, reloads, failures>>,
           staged' \in {staged, NoVault},
           key' = key \/ (\E x, k : k \in {"staged", "active"} /\ key' = [key EXCEPT ![x] = k])
    PROVE  Effects(t)
  <1>1. v \in Vaults /\ v \in MaybeVault /\ v # NoVault
    BY PartsTyped DEF DeviceTyped, MaybeVault
  <1>2. /\ bound' = v /\ account' = v /\ locked' = FALSE /\ targets' = targets \cup {v}
        /\ admitted' = admitted \cup {v} /\ stored' = stored \cup {v} /\ selected' = v
        /\ storedLocked' = FALSE /\ Bind(FALSE, v)
    BY DEF Accept
  <1>3. SessionTyped'
    BY <1>1, <1>2, PartsTyped DEF SessionTyped
  <1>4. RuntimeTyped' /\ PaymentTyped' /\ Paying'
    BY <1>1, <1>2, BindPays
  <1>5. /\ key' \in [Vaults -> {"none", "staged", "active"}]
        /\ \A x \in Vaults : key[x] = "none" \/ key'[x] # "none"
    BY PartsTyped DEF DeviceTyped
  <1>6. DeviceTyped'
    BY <1>1, <1>2, <1>5, PartsTyped DEF DeviceTyped, MaybeVault
  <1> QED
    BY <1>3, <1>4, <1>5, <1>6 DEF Effects

(* Where a status shows the account. *)
LEMMA ShowEffects ==
    ASSUME IInv, NEW v \in Vaults, ShowAccount(v),
           UNCHANGED <<locked, bound, admitted, mounted, ended>>
    PROVE  SessionTyped' /\ RuntimeTyped' /\ PaymentTyped' /\ Paying' /\ targets \subseteq targets'
  <1>1. PICK a \in MaybeVault : account' = a /\ Bind(locked, a) /\ targets' = targets \cup {v}
    BY PartsTyped DEF ShowAccount, SessionTyped, MaybeVault
  <1>2. SessionTyped' /\ locked \in BOOLEAN /\ targets \subseteq targets'
    BY <1>1, PartsTyped DEF SessionTyped
  <1> QED
    BY <1>1, <1>2, BindPays

(* The boot that opens the saved enrolment. *)
LEMMA BootMoves ==
    ASSUME IInv, NEW t \in TaskIds, BootRuns(t)
    PROVE  Moves(t)
  <1>1. /\ tasks[t].kind = "boot" /\ Starts(t) /\ tasks[t].aborted = FALSE
        /\ UNCHANGED <<account, draining, mounted, ended, key, worker, stored,
                       staged, storedLocked, privacy, enrolled, reloads, failures>>
    BY CommandAt DEF BootRuns, Runs, limits, Starts, AtStep
  <1>a. Foremost(t) /\ tasks[t].kind \in Commands
    BY <1>1, CommandAt DEF Commands
  <1>2. PICK existing \in MaybeVault, chosen \in MaybeVault, shut \in BOOLEAN :
           /\ existing = NoVault \/ chosen = existing
           /\ selected' = chosen /\ bound' = existing /\ locked' = shut
           /\ targets' = targets \cup ({chosen, staged} \ {NoVault})
           /\ admitted' = IF shut THEN admitted ELSE admitted \cup ({existing} \ {NoVault})
           /\ Bind(shut, account)
           /\ \/ staged # NoVault /\ Begins(t, chosen, "status")
              \/ chosen # NoVault /\ Begins(t, chosen, "fetch")
              \/ EndsWith(t, tasks)
    <2>1. PICK existing \in BootVault :
        LET chosen == IF existing = NoVault THEN selected ELSE existing
            shut == storedLocked \/ (existing # NoVault /\ privacy)
        IN  /\ selected' = chosen
            /\ bound' = existing
            /\ locked' = shut
            /\ targets' = targets \cup ({chosen, staged} \ {NoVault})
            /\ admitted' = IF shut THEN admitted
                           ELSE admitted \cup ({existing} \ {NoVault})
            /\ Bind(shut, account)
            /\ IF ~shut /\ staged # NoVault THEN Begins(t, chosen, "status")
               ELSE IF chosen # NoVault THEN Begins(t, chosen, "fetch")
               ELSE EndsWith(t, tasks)
      BY DEF BootRuns
    <2>2. existing \in MaybeVault /\ selected \in MaybeVault
      BY PartsTyped DEF BootVault, StoredVault, MaybeVault, DeviceTyped
    <2>3. PICK chosen : chosen = IF existing = NoVault THEN selected ELSE existing
      OBVIOUS
    <2>4. PICK shut \in BOOLEAN : shut = (storedLocked \/ (existing # NoVault /\ privacy))
      OBVIOUS
    <2>5. chosen \in MaybeVault /\ (existing = NoVault \/ chosen = existing)
      BY <2>2, <2>3
    <2> QED
      BY <2>1, <2>2, <2>3, <2>4, <2>5
  <1>3. SessionTyped'
    BY <1>1, <1>2, PartsTyped DEF SessionTyped, DeviceTyped, MaybeVault
  <1>4. RuntimeTyped' /\ PaymentTyped' /\ Paying'
    BY <1>1, <1>2, PartsTyped, BindPays DEF SessionTyped
  <1>5. DeviceTyped'
    BY <1>1, <1>2, PartsTyped DEF DeviceTyped
  <1>6. Effects(t)
    BY <1>1, <1>3, <1>4, <1>5 DEF Effects
  <1>7. CASE EndsWith(t, tasks)
    BY <1>1, <1>a, <1>6, <1>7, EndsMoves
  <1>8. ASSUME NEW step \in {"status", "fetch"}, Begins(t, chosen, step),
               step = "fetch" => chosen # NoVault
        PROVE  Moves(t)
    <2>1. PICK c : /\ Commanded(t, c) /\ c.kind = "boot" /\ c.step = step /\ c.vault = chosen
      BY <1>1, <1>a, <1>8, BeginsAs DEF CommandSteps
    <2>2. CommandOk(c)'
      BY <1>8, <2>1 DEF CommandOk, MaybeVault
    <2> QED
      BY <1>6, <2>1, <2>2 DEF Moves
  <1> QED
    BY <1>2, <1>7, <1>8

(* The key is written, and a sign-in admits its account. *)
LEMMA ProvisionMoves ==
    ASSUME IInv, NEW t \in TaskIds, KeyProvisioned(t)
    PROVE  Moves(t)
  <1>1. /\ tasks[t].kind \in Commands /\ tasks[t].step = "key"
        /\ key' = [key EXCEPT ![tasks[t].vault] = "active"]
        /\ UNCHANGED <<draining, mounted, ended, worker, staged, privacy, enrolled,
                       reloads, failures>>
    BY DEF KeyProvisioned, AtStep, limits
  <1>2. /\ Foremost(t) /\ CommandOk(tasks[t]) /\ tasks[t].aborted \in BOOLEAN
        /\ tasks[t].vault \in Vaults
        /\ tasks[t].kind \in {"sign-in", "restore"} => tasks[t].vault \in enrolled
    BY <1>1, CommandAt DEF CommandOk
  <1>3. CASE tasks[t].kind = "sign-in" /\ ~tasks[t].aborted
    <2>1. Accept(tasks[t].vault) /\ Goes(t, "after")
      BY <1>3 DEF KeyProvisioned
    <2>2. Effects(t)
      BY <1>1, <1>2, <1>3, <2>1, AcceptEffects
    <2>3. PICK c : /\ Commanded(t, c) /\ c.kind = "sign-in"
                   /\ c.vault = tasks[t].vault /\ c.step = "after"
      BY <1>1, <1>2, <1>3, <2>1, GoesAs DEF CommandSteps
    <2>4. CommandOk(c)'
      BY <1>2, <2>3 DEF CommandOk
    <2> QED
      BY <2>2, <2>3, <2>4 DEF Moves
  <1>4. CASE ~(tasks[t].kind = "sign-in" /\ ~tasks[t].aborted)
    <2>1. /\ stored' = IF tasks[t].kind = "restore" THEN stored \cup {tasks[t].vault} ELSE stored
          /\ selected' = IF tasks[t].kind = "restore" THEN tasks[t].vault ELSE selected
          /\ UNCHANGED <<locked, bound, admitted, storedLocked>>
          /\ IF tasks[t].aborted \/ tasks[t].kind # "enable-passkey"
             THEN UNCHANGED <<account, targets, runtimeVars, paymentVars>>
             ELSE ShowAccount(tasks[t].vault)
          /\ IF tasks[t].aborted \/ tasks[t].kind # "restore" THEN EndsWith(t, tasks)
             ELSE Goes(t, "fetch")
      BY <1>4 DEF KeyProvisioned
    <2>2. DeviceTyped' /\ \A v \in Vaults : key[v] = "none" \/ key'[v] # "none"
      BY <1>1, <1>2, <2>1, PartsTyped DEF DeviceTyped, MaybeVault
    <2>3. SessionTyped' /\ RuntimeTyped' /\ PaymentTyped' /\ Paying'
      <3>1. CASE tasks[t].aborted \/ tasks[t].kind # "enable-passkey"
        BY <1>1, <2>1, <3>1, PartsTyped, PaysOn
           DEF SessionTyped, RuntimeTyped, runtimeVars, paymentVars
      <3>2. CASE ~(tasks[t].aborted \/ tasks[t].kind # "enable-passkey")
        BY <1>1, <1>2, <2>1, <3>2, ShowEffects
      <3> QED
        BY <3>1, <3>2
    <2>4. Effects(t)
      BY <1>1, <2>1, <2>2, <2>3 DEF Effects
    <2>5. CASE EndsWith(t, tasks)
      BY <1>1, <2>4, <2>5, EndsMoves
    <2>6. CASE tasks[t].kind = "restore" /\ Goes(t, "fetch")
      <3>1. PICK c : /\ Commanded(t, c) /\ c.kind = "restore"
                     /\ c.vault = tasks[t].vault /\ c.step = "fetch"
        BY <1>1, <1>2, <2>6, GoesAs DEF CommandSteps
      <3>2. CommandOk(c)'
        BY <1>1, <1>2, <2>6, <3>1 DEF CommandOk
      <3> QED
        BY <2>4, <3>1, <3>2 DEF Moves
    <2> QED
      BY <2>1, <2>5, <2>6
  <1> QED
    BY <1>3, <1>4

(* The status of a boot or of a restore arrives. *)
LEMMA FetchedMoves ==
    ASSUME IInv, NEW t \in TaskIds, StatusFetched(t)
    PROVE  Moves(t)
  <1>1. /\ tasks[t].kind \in Commands /\ tasks[t].step = "fetch"
        /\ UNCHANGED <<draining, mounted, ended, key, worker, staged, privacy, enrolled,
                       reloads, failures>>
    BY DEF StatusFetched, AtStep, limits
  <1>2. /\ Foremost(t) /\ CommandOk(tasks[t]) /\ tasks[t].aborted \in BOOLEAN
        /\ tasks[t].vault \in Vaults
        /\ tasks[t].kind = "restore" => tasks[t].vault \in enrolled
    BY <1>1, CommandAt DEF CommandOk
  <1>3. CASE tasks[t].aborted
    <2>1. /\ EndsWith(t, tasks)
          /\ UNCHANGED <<sessionVars, stored, selected, storedLocked, runtimeVars, paymentVars>>
      BY <1>3 DEF StatusFetched
    <2>2. Effects(t)
      BY <1>1, <2>1, PartsTyped, QuietEffects
         DEF sessionVars, runtimeVars, paymentVars, SessionTyped
    <2> QED
      BY <1>1, <2>1, <2>2, EndsMoves
  <1>4. CASE ~tasks[t].aborted /\ tasks[t].kind = "restore"
    <2>1. Accept(tasks[t].vault) /\ Goes(t, "after")
      BY <1>4 DEF StatusFetched
    <2>2. Effects(t)
      BY <1>1, <1>2, <1>4, <2>1, AcceptEffects
    <2>3. PICK c : /\ Commanded(t, c) /\ c.kind = "restore"
                   /\ c.vault = tasks[t].vault /\ c.step = "after"
      BY <1>1, <1>2, <1>4, <2>1, GoesAs DEF CommandSteps
    <2>4. CommandOk(c)'
      BY <1>1, <1>2, <1>4, <2>3 DEF CommandOk
    <2> QED
      BY <2>2, <2>3, <2>4 DEF Moves
  <1>5. CASE ~tasks[t].aborted /\ tasks[t].kind # "restore"
    <2>1. /\ EndsWith(t, tasks)
          /\ IF account \in {NoVault, tasks[t].vault} THEN ShowAccount(tasks[t].vault)
             ELSE UNCHANGED <<account, targets, runtimeVars, paymentVars>>
          /\ UNCHANGED <<locked, bound, admitted, stored, selected, storedLocked>>
      BY <1>5 DEF StatusFetched
    <2>2. SessionTyped' /\ RuntimeTyped' /\ PaymentTyped' /\ Paying'
      <3>1. CASE account \in {NoVault, tasks[t].vault}
        BY <1>1, <1>2, <2>1, <3>1, ShowEffects
      <3>2. CASE account \notin {NoVault, tasks[t].vault}
        BY <1>1, <2>1, <3>2, PartsTyped, PaysOn
           DEF SessionTyped, RuntimeTyped, runtimeVars, paymentVars
      <3> QED
        BY <3>1, <3>2
    <2>3. Effects(t)
      BY <1>1, <2>1, <2>2, PartsTyped DEF Effects, DeviceTyped
    <2> QED
      BY <1>1, <2>1, <2>3, EndsMoves
  <1> QED
    BY <1>3, <1>4, <1>5

(* The key of a proposed vault is staged. *)
LEMMA StagedMoves ==
    ASSUME IInv, NEW t \in TaskIds, KeyStaged(t)
    PROVE  Moves(t)
  <1>1. /\ tasks[t].kind \in Commands /\ tasks[t].step = "stage"
        /\ key' = [key EXCEPT ![tasks[t].vault] = "staged"]
        /\ UNCHANGED <<sessionVars, draining, mounted, runtimeVars, paymentVars, ended, worker,
                       stored, selected, staged, storedLocked, privacy, enrolled, limits>>
        /\ EndsWith(t, tasks) \/ Goes(t, "propose")
    BY DEF KeyStaged, AtStep
  <1>2. Foremost(t) /\ CommandOk(tasks[t]) /\ tasks[t].vault \in Vaults
    BY <1>1, CommandAt DEF CommandOk
  <1>3. Effects(t)
    <2>1. targets' = targets /\ targets \subseteq Vaults /\ stored \subseteq enrolled
          /\ enrolled \subseteq Vaults /\ selected \in MaybeVault /\ staged \in MaybeVault
      BY <1>1, PartsTyped DEF sessionVars, SessionTyped, DeviceTyped
    <2> QED
      BY <1>1, <2>1, DeviceEffects DEF sessionVars, runtimeVars, paymentVars, limits
  <1>4. CASE EndsWith(t, tasks)
    BY <1>1, <1>3, <1>4, EndsMoves
  <1>5. CASE Goes(t, "propose")
    <2>1. PICK c : /\ Commanded(t, c) /\ c.kind = tasks[t].kind /\ c.vault = tasks[t].vault
                   /\ c.step = "propose"
      BY <1>1, <1>2, <1>5, GoesAs DEF CommandSteps
    <2>2. CommandOk(c)'
      BY <1>1, <1>2, <2>1 DEF CommandOk
    <2> QED
      BY <1>3, <2>1, <2>2 DEF Moves
  <1> QED
    BY <1>1, <1>4, <1>5

(* The proposal is accepted. *)
LEMMA ProposedMoves ==
    ASSUME IInv, NEW t \in TaskIds, Proposed(t)
    PROVE  Moves(t)
  <1>1. /\ tasks[t].kind \in Commands /\ tasks[t].step = "propose"
        /\ staged' = tasks[t].vault /\ selected' = tasks[t].vault
        /\ UNCHANGED <<locked, account, bound, admitted, draining, mounted, runtimeVars,
                       paymentVars, ended, key, worker, stored, storedLocked, privacy,
                       enrolled, limits>>
        /\ EndsWith(t, tasks) \/ Goes(t, "finish")
    BY DEF Proposed, AtStep
  <1>2. Foremost(t) /\ CommandOk(tasks[t]) /\ tasks[t].vault \in Vaults
    BY <1>1, CommandAt DEF CommandOk
  <1>3. Effects(t)
    <2>1. /\ targets \subseteq targets' /\ targets' \subseteq Vaults /\ stored \subseteq enrolled
          /\ enrolled \subseteq Vaults
      BY <1>2, PartsTyped DEF Proposed, SessionTyped, DeviceTyped
    <2> QED
      BY <1>1, <1>2, <2>1, DeviceEffects DEF runtimeVars, paymentVars, limits, MaybeVault
  <1>4. CASE EndsWith(t, tasks)
    BY <1>1, <1>3, <1>4, EndsMoves
  <1>5. CASE Goes(t, "finish")
    <2>1. PICK c : /\ Commanded(t, c) /\ c.kind = tasks[t].kind /\ c.vault = tasks[t].vault
                   /\ c.step = "finish"
      BY <1>1, <1>2, <1>5, GoesAs DEF CommandSteps
    <2>2. CommandOk(c)'
      BY <1>1, <1>2, <2>1 DEF CommandOk
    <2> QED
      BY <1>3, <2>1, <2>2 DEF Moves
  <1> QED
    BY <1>1, <1>4, <1>5

(* The service finishes the enrolment. *)
LEMMA FinishedMoves ==
    ASSUME IInv, NEW t \in TaskIds, Finished(t)
    PROVE  Moves(t)
  <1>1. /\ tasks[t].kind \in Commands /\ tasks[t].step = "finish"
        /\ enrolled' = enrolled \cup {tasks[t].vault}
        /\ UNCHANGED <<sessionVars, draining, mounted, runtimeVars, paymentVars, ended,
                       deviceVars, limits>>
        /\ EndsWith(t, tasks) \/ Goes(t, "activate")
    BY DEF Finished, AtStep
  <1>2. /\ Foremost(t) /\ CommandOk(tasks[t]) /\ tasks[t].vault \in Vaults
        /\ tasks[t].vault = staged
    BY <1>1, CommandAt DEF CommandOk
  <1>3. Effects(t)
    <2>1. /\ targets' = targets /\ targets \subseteq Vaults /\ stored \subseteq enrolled
          /\ enrolled \subseteq Vaults /\ selected \in MaybeVault /\ staged \in MaybeVault
      BY <1>1, PartsTyped DEF sessionVars, SessionTyped, DeviceTyped
    <2>2. /\ stored' \subseteq enrolled' /\ enrolled \subseteq enrolled'
          /\ enrolled' \subseteq Vaults
          /\ selected' \in MaybeVault /\ staged' \in MaybeVault
      BY <1>1, <1>2, <2>1 DEF deviceVars
    <2> QED
      BY <1>1, <2>1, <2>2, DeviceEffects
         DEF sessionVars, runtimeVars, paymentVars, limits, deviceVars
  <1>4. CASE EndsWith(t, tasks)
    BY <1>1, <1>3, <1>4, EndsMoves
  <1>5. CASE Goes(t, "activate")
    <2>1. PICK c : /\ Commanded(t, c) /\ c.kind = tasks[t].kind /\ c.vault = tasks[t].vault
                   /\ c.step = "activate"
      BY <1>1, <1>2, <1>5, GoesAs DEF CommandSteps
    <2>2. staged' \in enrolled'
      BY <1>1, <1>2 DEF deviceVars
    <2>3. CommandOk(c)'
      BY <1>1, <1>2, <2>1, <2>2 DEF CommandOk
    <2> QED
      BY <1>3, <2>1, <2>3 DEF Moves
  <1> QED
    BY <1>1, <1>4, <1>5

(* The staged enrolment becomes the saved one. *)
LEMMA ActivatedMoves ==
    ASSUME IInv, NEW t \in TaskIds, Activated(t)
    PROVE  Moves(t)
  <1>1. /\ tasks[t].kind \in Commands /\ tasks[t].step = "activate"
        /\ key' = [key EXCEPT ![staged] = "active"]
        /\ UNCHANGED <<draining, mounted, ended, worker, privacy, enrolled, reloads, failures>>
    BY DEF Activated, AtStep, limits
  <1>2. /\ Foremost(t) /\ CommandOk(tasks[t]) /\ tasks[t].aborted \in BOOLEAN
        /\ staged \in enrolled /\ tasks[t].vault \in MaybeVault
    BY <1>1, CommandAt DEF CommandOk
  <1>3. CASE tasks[t].aborted
    <2>1. /\ EndsWith(t, tasks)
          /\ UNCHANGED <<sessionVars, stored, selected, staged, storedLocked,
                         runtimeVars, paymentVars>>
      BY <1>3 DEF Activated
    <2>2. Effects(t)
      <3>1. targets' = targets /\ targets \subseteq Vaults /\ stored \subseteq enrolled
            /\ enrolled \subseteq Vaults /\ selected \in MaybeVault /\ staged \in MaybeVault
        BY <2>1, PartsTyped DEF sessionVars, SessionTyped, DeviceTyped
      <3> QED
        BY <1>1, <2>1, <3>1, DeviceEffects DEF sessionVars, runtimeVars, paymentVars
    <2> QED
      BY <1>1, <2>1, <2>2, EndsMoves
  <1>4. CASE ~tasks[t].aborted /\ tasks[t].kind = "boot" /\ storedLocked
    <2>1. /\ staged' = NoVault /\ stored' = stored \cup {staged} /\ selected' = staged
          /\ EndsWith(t, tasks) \/ (tasks[t].vault # NoVault /\ Goes(t, "fetch"))
          /\ UNCHANGED <<sessionVars, storedLocked, runtimeVars, paymentVars>>
      BY <1>4 DEF Activated
    <2>2. Effects(t)
      <3>1. targets' = targets /\ targets \subseteq Vaults /\ stored \subseteq enrolled
            /\ enrolled \subseteq Vaults /\ selected \in MaybeVault /\ staged \in MaybeVault
        BY <2>1, PartsTyped DEF sessionVars, SessionTyped, DeviceTyped
      <3>2. /\ stored' \subseteq enrolled' /\ enrolled \subseteq enrolled'
            /\ enrolled' \subseteq Vaults
            /\ selected' \in MaybeVault /\ staged' \in MaybeVault
        BY <1>1, <1>2, <2>1, <3>1 DEF MaybeVault
      <3> QED
        BY <1>1, <2>1, <3>1, <3>2, DeviceEffects DEF sessionVars, runtimeVars, paymentVars
    <2>3. CASE EndsWith(t, tasks)
      BY <1>1, <2>2, <2>3, EndsMoves
    <2>4. CASE tasks[t].vault # NoVault /\ Goes(t, "fetch")
      <3>1. PICK c : /\ Commanded(t, c) /\ c.kind = "boot"
                     /\ c.vault = tasks[t].vault /\ c.step = "fetch"
        BY <1>1, <1>2, <1>4, <2>4, GoesAs DEF CommandSteps
      <3>2. CommandOk(c)'
        BY <1>2, <2>4, <3>1 DEF CommandOk, MaybeVault
      <3> QED
        BY <2>2, <3>1, <3>2 DEF Moves
    <2> QED
      BY <2>1, <2>3, <2>4
  <1>5. CASE ~tasks[t].aborted /\ ~(tasks[t].kind = "boot" /\ storedLocked)
    <2>1. /\ staged' = NoVault /\ Accept(staged)
          /\ EndsWith(t, tasks) \/ (tasks[t].kind # "boot" /\ Goes(t, "after"))
      BY <1>5 DEF Activated
    <2>2. Effects(t)
      BY <1>1, <1>2, <1>5, <2>1, AcceptEffects
    <2>3. CASE EndsWith(t, tasks)
      BY <1>1, <2>2, <2>3, EndsMoves
    <2>4. CASE tasks[t].kind # "boot" /\ Goes(t, "after")
      <3>1. PICK c : /\ Commanded(t, c) /\ c.kind = tasks[t].kind
                     /\ c.vault = tasks[t].vault /\ c.step = "after"
        BY <1>1, <1>2, <2>4, GoesAs DEF CommandSteps
      <3>2. CommandOk(c)'
        BY <1>1, <1>2, <2>4, <3>1 DEF CommandOk
      <3> QED
        BY <2>2, <3>1, <3>2 DEF Moves
    <2> QED
      BY <2>1, <2>3, <2>4
  <1> QED
    BY <1>3, <1>4, <1>5

(* What follows an enrolment. *)
LEMMA AfterMoves ==
    ASSUME IInv, NEW t \in TaskIds, AfterAccept(t)
    PROVE  Moves(t)
  <1>1. /\ tasks[t].kind \in Commands /\ tasks[t].step = "after"
        /\ key' = key \/ key' = [key EXCEPT ![tasks[t].vault] = "active"]
        /\ EndsWith(t, tasks)
        /\ UNCHANGED <<sessionVars, draining, mounted, runtimeVars, paymentVars, ended, worker,
                       stored, selected, staged, storedLocked, privacy, enrolled, limits>>
    BY DEF AfterAccept, AtStep
  <1>2. targets' = targets /\ targets \subseteq Vaults /\ stored \subseteq enrolled
        /\ enrolled \subseteq Vaults /\ selected \in MaybeVault /\ staged \in MaybeVault
    BY <1>1, PartsTyped DEF sessionVars, SessionTyped, DeviceTyped
  <1>3. Effects(t)
    BY <1>1, <1>2, DeviceEffects DEF sessionVars, runtimeVars, paymentVars, limits
  <1> QED
    BY <1>1, <1>3, EndsMoves

(* All the steps of a command. *)
CommandStep(t) ==
    \/ CommandDropped(t) \/ BootRuns(t) \/ SignInRuns(t) \/ EnrollRuns(t)
    \/ RegisterRuns(t) \/ PromptRuns(t) \/ BootLooksUp(t) \/ Authorized(t)
    \/ KeyProvisioned(t) \/ StatusFetched(t) \/ KeyStaged(t) \/ Proposed(t)
    \/ Finished(t) \/ Activated(t) \/ AfterAccept(t) \/ CommandFails(t)

(* Every step of a command moves it on ... *)
LEMMA CommandStepMoves ==
    ASSUME IInv, NEW t \in TaskIds, CommandStep(t)
    PROVE  Moves(t)
  BY DroppedMoves, BootMoves, AsksMoves, LooksUpMoves, ProvisionMoves, FetchedMoves,
     StagedMoves, ProposedMoves, FinishedMoves, ActivatedMoves, AfterMoves
     DEF CommandStep, Asks

(* ... and keeps the invariant; it deletes no key. *)
LEMMA CommandStepKeeps ==
    ASSUME IInv, NEW t \in TaskIds, CommandStep(t)
    PROVE  IInv' /\ \A v \in Vaults : key[v] = "none" \/ key'[v] # "none"
  BY CommandStepMoves, CommandKeeps DEF Moves, Effects

-------------------------------------------------------------------------------
(* The steps of a teardown *)

(* How the clean-up of a teardown moves on ...                                 *)
Cleaned(t, c) ==
    /\ Turns(t, c) /\ Foremost(t) /\ tasks[t].kind = "teardown"
    /\ c.kind \in {"teardown", "over"}
    /\ c.kind = "over" <=> c.step \in {"ended", "failed"}
    /\ c.kind = "teardown" =>
          /\ c.step \in {"clean", "stop", "drop"} /\ c.stage = staged
          /\ c.step \in {"stop", "drop"} => c.vault \in Vaults
          /\ c.preserve = tasks[t].preserve
    /\ UNCHANGED <<flight, draining>>

(* ... and what it may do: it opens nothing, and it deletes no key that is     *)
(* needed.                                                                     *)
Cleans(t) ==
    /\ \E c : Cleaned(t, c)
    /\ SessionTyped' /\ RuntimeTyped' /\ PaymentTyped' /\ DeviceTyped' /\ LimitsTyped'
    /\ Paying' /\ admitted' \subseteq admitted
    /\ UNCHANGED <<locked, staged, storedLocked, enrolled, ended>>
    /\ \A v \in Vaults : Needed(v) => key[v] = "none" \/ key'[v] # "none"

(* The invariant is kept. *)
LEMMA CleanKeeps ==
    ASSUME IInv, NEW t, Cleans(t)
    PROVE  IInv'
  <1> PICK c : Cleaned(t, c)
    BY DEF Cleans
  <1>a. /\ t \in TaskIds /\ tasks'[t] = c /\ TaskIds' = TaskIds
        /\ \A u \in TaskIds : u # t => tasks'[u] = tasks[u]
        /\ \A u \in TaskIds : u \in Nat
        /\ c.kind \notin Commands /\ c.step # "queued"
    BY DEF Cleaned, Turns, TaskIds, Commands
  <1>1. /\ Ordered' /\ Flights' /\ Shaped'
        /\ flight' \in 0..Len(tasks') /\ draining' \in 0..Len(tasks')
        /\ tasks' \in Seq(Task) /\ Len(tasks') <= MaxTasks /\ Len(tasks') = Len(tasks)
    <2>1. /\ Turns(t, c) /\ Foremost(t)
          /\ c.kind = tasks[t].kind \/ c.kind = "over"
          /\ c.kind = "over" <=> c.step \in {"ended", "failed"}
          /\ c.kind = "teardown" =>
              /\ c.step \in {"clean", "stop", "drop"}
              /\ c.step \in {"stop", "drop"} => c.vault \in Vaults
          /\ draining' = draining /\ flight' = flight
      BY DEF Cleaned
    <2>2. ~(c.kind = "over" /\ flight = t)
      BY <1>a, TasksAre DEF Cleaned, IInv, Flights, Commands
    <2> QED
      BY <1>a, <2>1, <2>2, TurnsKeep DEF Turns
  <1>2. TypeOK' /\ Counted'
    BY <1>1, PartsTyped DEF TypeOK, Counted, Cleans, SessionTyped, RuntimeTyped,
       PaymentTyped, DeviceTyped, LimitsTyped
  <1>3. Vaulted'
    <2> SUFFICES ASSUME NEW x \in TaskIds, tasks'[x].kind \in Commands
                 PROVE  CommandOk(tasks[x])'
      BY <1>a DEF Vaulted
    <2>1. x # t /\ tasks'[x] = tasks[x] /\ tasks[x].kind \in Commands
      BY <1>a
    <2>2. CommandOk(tasks[x])
      BY <2>1 DEF IInv, Vaulted
    <2> QED
      BY <2>1, <2>2 DEF CommandOk, Cleans
  <1>4. Torn'
    <2> SUFFICES ASSUME NEW d \in TaskIds, tasks'[d].kind = "teardown"
                 PROVE  /\ locked'
                        /\ storedLocked' \/ admitted' \subseteq tasks'[d].preserve
                        /\ tasks'[d].step # "queued" => tasks'[d].stage = staged'
                        /\ \A u \in 1..(d - 1) :
                              tasks'[u].kind \in Commands => tasks'[u].aborted
      BY <1>a DEF Torn
    <2>1. tasks[d].kind = "teardown" /\ tasks'[d].preserve = tasks[d].preserve
      BY <1>a DEF Cleaned
    <2>2. /\ locked
          /\ storedLocked \/ admitted \subseteq tasks[d].preserve
          /\ tasks[d].step # "queued" => tasks[d].stage = staged
          /\ \A u \in 1..(d - 1) : tasks[u].kind \in Commands => tasks[u].aborted
      BY <2>1 DEF IInv, Torn
    <2>3. tasks'[d].step # "queued" => tasks'[d].stage = staged'
      <3>1. CASE d = t
        BY <1>a, <3>1 DEF Cleaned, Cleans
      <3>2. CASE d # t
        BY <1>a, <2>2, <3>2 DEF Cleans
      <3> QED
        BY <3>1, <3>2
    <2>4. ASSUME NEW u \in 1..(d - 1), tasks'[u].kind \in Commands PROVE tasks'[u].aborted
      <3>1. u \in TaskIds /\ u # t
        BY <1>a, <2>4, TasksAre DEF TaskIds
      <3> QED
        BY <1>a, <2>2, <2>4, <3>1
    <2> QED
      BY <2>1, <2>2, <2>3, <2>4 DEF Cleans
  <1> QED
    BY <1>1, <1>2, <1>3, <1>4 DEF IInv, Cleans

(* A teardown that cleans is the task that runs. *)
LEMMA CleanerAt ==
    ASSUME IInv, NEW t \in TaskIds,
           \/ tasks[t].step \in {"clean", "stop", "drop"}
           \/ tasks[t].kind = "teardown" /\ \A a \in tasks[t].after : IsOver(a)
    PROVE  /\ tasks[t].kind = "teardown" /\ Foremost(t) /\ tasks[t] \in Task /\ locked
           /\ storedLocked \/ admitted \subseteq tasks[t].preserve
           /\ tasks[t].step # "queued" => tasks[t].stage = staged
           /\ tasks[t].step \in {"stop", "drop"} => tasks[t].vault \in Vaults
  <1>1. tasks[t] \in Task /\ tasks[t].kind \in Commands \cup {"teardown", "over"}
    BY TasksAre, TaskFields
  <1>2. tasks[t].kind = "teardown"
    BY <1>1 DEF IInv, Shaped, IsOver, CommandSteps
  <1>3. Live(t)
    BY <1>2 DEF IInv, Shaped, Live
  <1>4. Foremost(t)
    BY <1>3, TurnOf
  <1> QED
    BY <1>1, <1>2, <1>4 DEF IInv, Torn, Shaped

(* Where the clean-up only moves on. *)
LEMMA CleansQuietly ==
    ASSUME IInv, NEW t, NEW c, Cleaned(t, c), failures' \in 0..MaxFailures,
           RuntimeTyped', PaymentTyped', Paying', worker' \subseteq Vaults,
           UNCHANGED <<sessionVars, mounted, ended, key, stored, selected, staged, storedLocked,
                       privacy, enrolled, reloads>>
    PROVE  Cleans(t)
  <1>1. SessionTyped' /\ DeviceTyped' /\ LimitsTyped'
    BY PartsTyped DEF SessionTyped, DeviceTyped, LimitsTyped, sessionVars
  <1> QED
    BY <1>1 DEF Cleans, sessionVars

(* The clean-up starts. *)
LEMMA StartCleans ==
    ASSUME IInv, NEW t \in TaskIds, StartCleaning(t)
    PROVE  Cleans(t)
  <1>1. /\ tasks[t].kind = "teardown" /\ Foremost(t) /\ tasks[t] \in Task
    BY CleanerAt DEF StartCleaning
  <1>2. PICK c : c = [tasks[t] EXCEPT !.step = "clean", !.after = {},
                              !.cleanup = @ \cup targets, !.stage = staged]
    OBVIOUS
  <1>3. c \in Task /\ c.kind = "teardown" /\ c.step = "clean" /\ c.stage = staged
        /\ c.preserve = tasks[t].preserve
    <2>1. targets \subseteq Vaults /\ staged \in MaybeVault
      BY PartsTyped DEF SessionTyped, DeviceTyped
    <2> QED
      BY <1>1, <1>2, <2>1 DEF Task, TeardownSteps
  <1>4. tasks' = [tasks EXCEPT ![t] = c]
    BY <1>2 DEF StartCleaning
  <1>5. Cleaned(t, c)
    BY <1>1, <1>3, <1>4, TurnsBy DEF Cleaned, StartCleaning
  <1>6. RuntimeTyped' /\ PaymentTyped' /\ Paying' /\ worker' \subseteq Vaults
        /\ failures' \in 0..MaxFailures
    BY PartsTyped, PaysOn DEF StartCleaning, runtimeVars, paymentVars, deviceVars, sessionVars,
       limits, RuntimeTyped, DeviceTyped, LimitsTyped
  <1> QED
    BY <1>5, <1>6, CleansQuietly DEF StartCleaning, deviceVars, limits

(* A worker is stopped, or its runtime is disposed. *)
LEMMA StopCleans ==
    ASSUME IInv, NEW t \in TaskIds, NEW v, StopWorker(t, v)
    PROVE  Cleans(t)
  <1>1. /\ tasks[t].kind = "teardown" /\ Foremost(t) /\ tasks[t] \in Task
        /\ tasks[t].stage = staged /\ v \in Vaults /\ tasks[t].step = "clean"
    BY CleanerAt, TaskFields DEF StopWorker
  <1>a. RuntimeTyped /\ worker \subseteq Vaults /\ failures \in 0..MaxFailures
    BY PartsTyped DEF DeviceTyped, LimitsTyped
  <1>2. ASSUME NEW c \in Task, tasks' = [tasks EXCEPT ![t] = c], c.kind = "teardown",
               c.step \in {"stop", "drop"}, c.stage = staged, c.vault = v,
               c.preserve = tasks[t].preserve,
               RuntimeTyped', PaymentTyped', Paying', worker' \subseteq Vaults
        PROVE  Cleans(t)
    <2>1. Cleaned(t, c)
      BY <1>1, <1>2, TurnsBy DEF Cleaned, StopWorker
    <2> QED
      BY <1>2, <1>a, <2>1, CleansQuietly DEF StopWorker, limits
  <1>3. CASE Serves(v)
    <2>1. current \in 1..Len(runtimes)
      BY <1>a, <1>3 DEF Serves, RuntimeTyped
    <2>2. PICK e : e = [runtimes[current] EXCEPT !.disposed = TRUE, !.closes = TRUE]
      OBVIOUS
    <2>a. runtimes[current] \in Runtime /\ current \in Nat
      BY <1>a, <2>1 DEF RuntimeTyped
    <2>3. e \in Runtime
      BY <2>2, <2>a DEF Runtime
    <2>4. runtimes' = [runtimes EXCEPT ![current] = e] /\ current' = 0
      BY <1>3, <2>2 DEF StopWorker
    <2>5. RuntimeTyped'
      BY <1>a, <2>1, <2>3, <2>4, Replaced DEF RuntimeTyped
    <2>6. PaymentTyped' /\ Paying'
      <3>1. CASE CancelPayment
        BY <3>1, CancelTyped DEF Paying, ReviewOfThisSession
      <3>2. CASE UNCHANGED paymentVars
        BY <3>2, PaysOn DEF StopWorker, sessionVars, paymentVars
      <3> QED
        BY <1>3, <3>1, <3>2 DEF StopWorker
    <2>7. PICK c : c = [tasks[t] EXCEPT !.step = "stop", !.vault = v, !.stopping = current]
      OBVIOUS
    <2>8. /\ c \in Task /\ c.kind = "teardown" /\ c.step = "stop" /\ c.stage = staged /\ c.vault = v
          /\ c.preserve = tasks[t].preserve
      BY <1>1, <2>a, <2>7 DEF Task, TeardownSteps, MaybeVault
    <2>9. tasks' = [tasks EXCEPT ![t] = c] /\ worker' = worker
      BY <1>3, <2>7 DEF StopWorker
    <2> QED
      BY <1>2, <1>a, <2>5, <2>6, <2>8, <2>9
  <1>4. CASE ~Serves(v)
    <2>1. worker' = worker \ {v} /\ UNCHANGED <<runtimeVars, paymentVars>>
      BY <1>4 DEF StopWorker
    <2>2. RuntimeTyped' /\ PaymentTyped' /\ Paying' /\ worker' \subseteq Vaults
      BY <1>a, <2>1, PaysOn DEF StopWorker, sessionVars, paymentVars, runtimeVars, RuntimeTyped
    <2>3. PICK c : c = [tasks[t] EXCEPT !.step = "drop", !.vault = v]
      OBVIOUS
    <2>4. /\ c \in Task /\ c.kind = "teardown" /\ c.step = "drop" /\ c.stage = staged /\ c.vault = v
          /\ c.preserve = tasks[t].preserve
      BY <1>1, <2>3 DEF Task, TeardownSteps, MaybeVault
    <2>5. tasks' = [tasks EXCEPT ![t] = c]
      BY <1>4, <2>3 DEF StopWorker
    <2> QED
      BY <1>2, <2>2, <2>4, <2>5
  <1> QED
    BY <1>3, <1>4

(* A clean-up that ends. *)
LEMMA EndsCleans ==
    ASSUME IInv, NEW t \in TaskIds, NEW how \in {"ended", "failed"},
           tasks[t].step \in {"clean", "stop"},
           tasks' = [tasks EXCEPT ![t] = [Over(how) EXCEPT !.preserve = tasks[t].preserve]],
           UNCHANGED <<sessionVars, flight, draining, mounted, runtimeVars,
                       paymentVars, ended, deviceVars, enrolled, reloads>>,
           failures' \in 0..MaxFailures
    PROVE  Cleans(t)
  <1>1. /\ tasks[t].kind = "teardown" /\ Foremost(t) /\ tasks[t].preserve \in SUBSET Vaults
    BY CleanerAt, TaskFields
  <1>2. PICK c : c = [Over(how) EXCEPT !.preserve = tasks[t].preserve]
    OBVIOUS
  <1>3. c \in Task /\ c.kind = "over" /\ c.step = how
    BY <1>1, <1>2, OverIs
  <1>4. Cleaned(t, c)
    BY <1>1, <1>2, <1>3, TurnsBy DEF Cleaned
  <1>5. RuntimeTyped' /\ PaymentTyped' /\ Paying' /\ worker' \subseteq Vaults
    BY PartsTyped, PaysOn DEF runtimeVars, paymentVars, deviceVars, sessionVars,
       RuntimeTyped, DeviceTyped
  <1> QED
    BY <1>4, <1>5, CleansQuietly DEF deviceVars

(* The runtime has retired, a worker does not stop, or everything is clean. *)
LEMMA StoppedCleans ==
    ASSUME IInv, NEW t \in TaskIds, WorkerStopped(t) \/ StopFails(t) \/ CleaningEnds(t)
    PROVE  Cleans(t)
  <1>a. failures \in 0..MaxFailures /\ MaxFailures \in Nat
    BY PartsTyped DEF LimitsTyped
  <1>1. CASE CleaningEnds(t)
    BY <1>a, <1>1, EndsCleans DEF CleaningEnds, limits
  <1>2. CASE StopFails(t)
    <2>1. /\ failures' \in 0..MaxFailures /\ tasks[t].step = "clean" /\ Fails(t)
          /\ UNCHANGED <<sessionVars, flight, draining, mounted, runtimeVars,
                         paymentVars, ended, deviceVars, enrolled, reloads>>
      BY <1>a, <1>2 DEF StopFails
    <2> QED
      BY <2>1, EndsCleans DEF Fails
  <1>3. CASE WorkerStopped(t)
    <2>1. CASE Fails(t)
      BY <1>a, <1>3, <2>1, EndsCleans DEF WorkerStopped, Fails, limits
    <2>2. CASE tasks' = [tasks EXCEPT ![t].step = "drop", ![t].stopping = 0]
      <3>1. /\ tasks[t].kind = "teardown" /\ Foremost(t) /\ tasks[t] \in Task
            /\ tasks[t].stage = staged /\ tasks[t].vault \in Vaults
        BY <1>3, CleanerAt DEF WorkerStopped
      <3>2. PICK c : c = [tasks[t] EXCEPT !.step = "drop", !.stopping = 0]
        OBVIOUS
      <3>3. /\ c \in Task /\ c.kind = "teardown" /\ c.step = "drop" /\ c.stage = staged
            /\ c.vault \in Vaults /\ c.preserve = tasks[t].preserve
        BY <3>1, <3>2 DEF Task, TeardownSteps
      <3>4. tasks' = [tasks EXCEPT ![t] = c]
        BY <2>2, <3>2
      <3>5. Cleaned(t, c)
        BY <1>3, <3>1, <3>3, <3>4, TurnsBy DEF Cleaned, WorkerStopped
      <3>6. RuntimeTyped' /\ PaymentTyped' /\ Paying' /\ worker' \subseteq Vaults
        BY <1>3, PartsTyped, PaysOn DEF WorkerStopped, runtimeVars, paymentVars, deviceVars,
           sessionVars, RuntimeTyped, DeviceTyped
      <3> QED
        BY <1>a, <1>3, <3>5, <3>6, CleansQuietly DEF WorkerStopped, deviceVars, limits
    <2> QED
      BY <1>3, <2>1, <2>2 DEF WorkerStopped
  <1> QED
    BY <1>1, <1>2, <1>3

(* The one step that deletes a key. *)
LEMMA DropCleans ==
    ASSUME IInv, NEW t \in TaskIds, DropKey(t)
    PROVE  Cleans(t)
  <1>1. /\ tasks[t].kind = "teardown" /\ Foremost(t) /\ tasks[t] \in Task /\ locked
        /\ tasks[t].stage = staged /\ tasks[t].vault \in Vaults
        /\ storedLocked \/ admitted \subseteq tasks[t].preserve
    BY CleanerAt DEF DropKey
  <1>2. PICK v \in Vaults : v = tasks[t].vault
    BY <1>1
  <1>3. /\ key' = [key EXCEPT ![v] = IF v \in tasks[t].preserve THEN key[v]
                                     ELSE IF staged # v THEN "none"
                                     ELSE IF key[v] = "active" THEN "staged" ELSE key[v]]
        /\ targets' = targets \ {v} /\ admitted' = admitted \ {v}
    BY <1>1, <1>2 DEF DropKey
  <1>4. PICK c : c = [tasks[t] EXCEPT !.step = "clean", !.vault = NoVault, !.cleanup = @ \ {v}]
    OBVIOUS
  <1>5. /\ c \in Task /\ c.kind = "teardown" /\ c.step = "clean" /\ c.stage = staged
        /\ c.preserve = tasks[t].preserve
    BY <1>1, <1>4 DEF Task, TeardownSteps, MaybeVault
  <1>6. tasks' = [tasks EXCEPT ![t] = c]
    BY <1>2, <1>4 DEF DropKey
  <1>7. Cleaned(t, c)
    BY <1>1, <1>5, <1>6, TurnsBy DEF Cleaned, DropKey
  <1>8. key \in [Vaults -> {"none", "staged", "active"}]
    BY PartsTyped DEF DeviceTyped
  <1>9. SessionTyped' /\ DeviceTyped' /\ LimitsTyped' /\ RuntimeTyped'
    <2>1. key' \in [Vaults -> {"none", "staged", "active"}]
      BY <1>3, <1>8
    <2> QED
      BY <1>3, <2>1, PartsTyped DEF DropKey, SessionTyped, DeviceTyped, LimitsTyped,
         RuntimeTyped, limits, runtimeVars
  <1>10. PaymentTyped' /\ Paying'
    BY PaysOn DEF DropKey, paymentVars
  <1>11. ASSUME NEW x \in Vaults, Needed(x) PROVE key[x] = "none" \/ key'[x] # "none"
    <2>1. CASE x # v
      BY <1>3, <1>8, <2>1
    <2>2. CASE x = v
      <3>1. x = staged \/ x \in tasks[t].preserve
        BY <1>1, <1>11, VaultsAssumption DEF Needed, Open, Identity
      <3> QED
        BY <1>3, <1>8, <2>2, <3>1
    <2> QED
      BY <2>1, <2>2
  <1> QED
    BY <1>3, <1>7, <1>9, <1>10, <1>11 DEF Cleans, DropKey

(* All the steps of a teardown. *)
TeardownStep(t) ==
    \/ StartCleaning(t) \/ CleaningEnds(t) \/ WorkerStopped(t) \/ StopFails(t) \/ DropKey(t)
    \/ \E v \in Vaults : StopWorker(t, v)

(* Every step of a teardown keeps the invariant and the keys that are needed. *)
LEMMA TeardownStepKeeps ==
    ASSUME IInv, NEW t \in TaskIds, TeardownStep(t)
    PROVE  IInv' /\ \A v \in Vaults : Needed(v) => key[v] = "none" \/ key'[v] # "none"
  <1>1. Cleans(t)
    BY StartCleans, StopCleans, StoppedCleans, DropCleans DEF TeardownStep
  <1> QED
    BY <1>1, CleanKeeps DEF Cleans

-------------------------------------------------------------------------------
(* Tasks that are added *)

(* What the invariant says of a sequence of tasks, its flight and its drain.   *)
Alive(ts, t) == ts[t].step \notin {"ended", "failed"}
InLine(ts, fl, dr) ==
    /\ ts \in Seq(Task) /\ fl \in 0..Len(ts) /\ dr \in 0..Len(ts)
    /\ \A t, u \in 1..Len(ts) : t < u /\ Alive(ts, t) =>
          /\ ts[u].step = "queued"
          /\ \E w \in ts[u].after : t <= w /\ w < u /\ Alive(ts, w)
    /\ fl # 0 => Alive(ts, fl) /\ ts[fl].kind \in Commands
    /\ \A t \in 1..Len(ts) : ts[t].kind \in Commands =>
          t <= fl /\ (t = fl \/ ts[t].aborted)
    /\ \A t \in 1..Len(ts) : ts[t].kind = "teardown" => t <= dr
    /\ dr # 0 => ts[dr].kind \notin Commands
    /\ \A t \in 1..Len(ts) :
          /\ ts[t].kind = "over" <=> ~Alive(ts, t)
          /\ ts[t].kind = "teardown" =>
                /\ ts[t].step \in {"queued", "clean", "stop", "drop"}
                /\ ts[t].step \in {"stop", "drop"} => ts[t].vault \in Vaults
          /\ ts[t].kind \in Commands => ts[t].step \in CommandSteps

(* It says so of the tasks of the page. *)
LEMMA LineIs ==
    ASSUME IInv
    PROVE  InLine(tasks, flight, draining)
  <1>1. /\ tasks \in Seq(Task) /\ flight \in 0..Len(tasks) /\ draining \in 0..Len(tasks)
        /\ Ordered /\ Flights /\ Shaped
    BY DEF IInv, TypeOK
  <1> QED
    BY <1>1 DEF InLine, Alive, Ordered, Flights, Shaped, TaskIds, Live, IsOver

(* And the other way round. *)
LEMMA LineKeeps ==
    ASSUME NEW ts, NEW fl, NEW dr, InLine(ts, fl, dr),
           tasks' = ts, flight' = fl, draining' = dr
    PROVE  /\ tasks' \in Seq(Task) /\ flight' \in 0..Len(tasks')
           /\ draining' \in 0..Len(tasks') /\ Ordered' /\ Flights' /\ Shaped'
  BY DEF InLine, Alive, Ordered, Flights, Shaped, TaskIds, Live, IsOver

(* The tasks with the flight cancelled. *)
LEMMA AbortedIs ==
    ASSUME IInv, NEW ts, ts = Aborted(tasks)
    PROVE  /\ ts \in Seq(Task) /\ Len(ts) = Len(tasks)
           /\ \A u \in TaskIds :
                /\ ts[u].kind = tasks[u].kind /\ ts[u].step = tasks[u].step
                /\ ts[u].vault = tasks[u].vault /\ ts[u].after = tasks[u].after
                /\ ts[u].preserve = tasks[u].preserve /\ ts[u].stage = tasks[u].stage
                /\ ts[u].cleanup = tasks[u].cleanup /\ ts[u].stopping = tasks[u].stopping
                /\ tasks[u].aborted => ts[u].aborted
                /\ u = flight => ts[u].aborted
  <1>1. tasks \in Seq(Task) /\ flight \in 0..Len(tasks)
    BY DEF IInv, TypeOK
  <1>2. CASE flight = 0
    BY <1>1, <1>2 DEF Aborted, TaskIds
  <1>3. CASE flight # 0
    <2>1. flight \in 1..Len(tasks) /\ tasks[flight] \in Task
      BY <1>1, <1>3
    <2>2. PICK c : c = [tasks[flight] EXCEPT !.aborted = TRUE]
      OBVIOUS
    <2>3. /\ c \in Task /\ c.kind = tasks[flight].kind /\ c.step = tasks[flight].step
          /\ c.vault = tasks[flight].vault /\ c.after = tasks[flight].after
          /\ c.preserve = tasks[flight].preserve /\ c.stage = tasks[flight].stage /\ c.aborted
          /\ c.cleanup = tasks[flight].cleanup /\ c.stopping = tasks[flight].stopping
      BY <2>1, <2>2 DEF Task
    <2>4. ts = [tasks EXCEPT ![flight] = c]
      BY <1>3, <2>2 DEF Aborted
    <2>5. /\ ts \in Seq(Task) /\ Len(ts) = Len(tasks) /\ ts[flight] = c
          /\ \A u \in 1..Len(tasks) : u # flight => ts[u] = tasks[u]
      BY <1>1, <2>1, <2>3, <2>4, Replaced
    <2> QED
      BY <2>3, <2>5 DEF TaskIds
  <1> QED
    BY <1>2, <1>3

(* They are in line. *)
LEMMA AbortedLine ==
    ASSUME IInv, NEW ts, ts = Aborted(tasks)
    PROVE  InLine(ts, flight, draining)
  <1>1. InLine(tasks, flight, draining)
    BY LineIs
  <1>2. /\ ts \in Seq(Task) /\ Len(ts) = Len(tasks)
        /\ \A u \in 1..Len(tasks) :
                /\ ts[u].kind = tasks[u].kind /\ ts[u].step = tasks[u].step
                /\ ts[u].vault = tasks[u].vault /\ ts[u].after = tasks[u].after
                /\ tasks[u].aborted => ts[u].aborted
    BY AbortedIs DEF TaskIds
  <1>3. ASSUME NEW u \in 1..Len(tasks), NEW t \in 1..Len(tasks), t < u, Alive(ts, t)
        PROVE  /\ ts[u].step = "queued"
               /\ \E w \in ts[u].after : t <= w /\ w < u /\ Alive(ts, w)
    <2>1. Alive(tasks, t)
      BY <1>2, <1>3 DEF Alive
    <2>2. PICK w \in tasks[u].after : t <= w /\ w < u /\ Alive(tasks, w)
      BY <1>1, <1>3, <2>1 DEF InLine
    <2>3. w \in 1..Len(tasks)
      <3>1. tasks[u] \in Task
        BY <1>1, <1>3 DEF InLine
      <3>2. w \in Nat
        BY <2>2, <3>1 DEF Task
      <3> QED
        BY <1>1, <1>3, <2>2, <3>2 DEF InLine
    <2>4. Alive(ts, w) /\ w \in ts[u].after
      BY <1>2, <2>2, <2>3 DEF Alive
    <2>5. ts[u].step = "queued"
      BY <1>1, <1>2, <1>3, <2>1 DEF InLine
    <2> QED
      BY <2>2, <2>4, <2>5
  <1>4. /\ flight \in 0..Len(ts) /\ draining \in 0..Len(ts)
        /\ flight # 0 => Alive(ts, flight) /\ ts[flight].kind \in Commands
        /\ draining # 0 => ts[draining].kind \notin Commands
    BY <1>1, <1>2 DEF InLine, Alive
  <1>5. \A t \in 1..Len(ts) :
          /\ ts[t].kind \in Commands => t <= flight /\ (t = flight \/ ts[t].aborted)
          /\ ts[t].kind = "teardown" => t <= draining
    BY <1>1, <1>2 DEF InLine
  <1>6. \A t \in 1..Len(ts) :
          /\ ts[t].kind = "over" <=> ~Alive(ts, t)
          /\ ts[t].kind = "teardown" =>
                /\ ts[t].step \in {"queued", "clean", "stop", "drop"}
                /\ ts[t].step \in {"stop", "drop"} => ts[t].vault \in Vaults
          /\ ts[t].kind \in Commands => ts[t].step \in CommandSteps
    BY <1>1, <1>2 DEF InLine, Alive
  <1> QED
    BY <1>2, <1>3, <1>4, <1>5, <1>6 DEF InLine

(* A task that is added awaits the flight and the drain, and so everything     *)

(* that is not over.                                                           *)
LEMMA AddedLine ==
    ASSUME NEW ts, NEW fl, NEW dr, InLine(ts, fl, dr), NEW x \in Task,
           x.step = "queued", x.kind \in Commands \cup {"teardown"},
           x.after = {dr, fl} \ {0},
           x.kind \in Commands => \A t \in 1..Len(ts) : ts[t].kind \in Commands => ts[t].aborted,
           NEW fl2, fl2 = (IF x.kind \in Commands THEN Len(ts) + 1 ELSE fl),
           NEW dr2, dr2 = (IF x.kind \in Commands THEN dr ELSE Len(ts) + 1)
    PROVE  InLine(Append(ts, x), fl2, dr2)
  <1>1. PICK z, n : z = Append(ts, x) /\ n = Len(ts)
    OBVIOUS
  <1>a. ts \in Seq(Task) /\ n \in Nat /\ fl \in 0..n /\ dr \in 0..n
    BY <1>1 DEF InLine
  <1>2. /\ z \in Seq(Task) /\ Len(z) = n + 1 /\ z[n + 1] = x
        /\ \A j \in 1..n : z[j] = ts[j]
    BY <1>1, <1>a, Grown
  <1>3. x.kind # "over" /\ Alive(z, n + 1)
    BY <1>2 DEF Alive, Commands
  <1>4. \A j \in 1..n : Alive(z, j) <=> Alive(ts, j)
    BY <1>2 DEF Alive
  <1>5. ASSUME NEW t \in 1..n, Alive(ts, t)
        PROVE  \E w \in x.after : t <= w /\ w < n + 1 /\ Alive(z, w)
    <2>1. tasks = tasks /\ ts[t] \in Task
      BY <1>a, <1>1
    <2>2. ts[t].kind # "over" /\ ts[t].kind \in Commands \cup {"teardown", "over"}
      BY <1>1, <1>5, <2>1, TaskFields DEF InLine
    <2>3. CASE ts[t].kind \in Commands
      <3>1. t <= fl /\ fl # 0 /\ fl \in 1..n /\ Alive(ts, fl) /\ fl \in x.after
        BY <1>1, <1>a, <1>5, <2>3 DEF InLine
      <3> QED
        BY <1>4, <1>a, <3>1
    <2>4. CASE ts[t].kind = "teardown"
      <3>1. t <= dr /\ dr # 0 /\ dr \in 1..n /\ dr \in x.after
        BY <1>1, <1>a, <1>5, <2>4 DEF InLine
      <3>2. Alive(ts, dr)
        <4>1. CASE t = dr
          BY <1>5, <4>1
        <4>2. CASE t < dr
          <5>1. ts[dr].step = "queued"
            BY <1>1, <1>5, <3>1, <4>2 DEF InLine
          <5> QED
            BY <5>1 DEF Alive
        <4> QED
          BY <1>a, <3>1, <4>1, <4>2
      <3> QED
        BY <1>4, <1>a, <3>1, <3>2
    <2> QED
      BY <2>2, <2>3, <2>4
  <1>6. ASSUME NEW t \in 1..(n + 1), NEW u \in 1..(n + 1), t < u, Alive(z, t)
        PROVE  /\ z[u].step = "queued"
               /\ \E w \in z[u].after : t <= w /\ w < u /\ Alive(z, w)
    <2>1. t \in 1..n /\ Alive(ts, t)
      BY <1>4, <1>6, <1>a
    <2>2. CASE u = n + 1
      BY <1>2, <1>5, <2>1, <2>2
    <2>3. CASE u # n + 1
      <3>1. u \in 1..n /\ z[u] = ts[u]
        BY <1>2, <1>a, <2>3
      <3>2. PICK w \in ts[u].after : t <= w /\ w < u /\ Alive(ts, w)
        BY <1>1, <1>6, <2>1, <3>1 DEF InLine
      <3>3. w \in 1..n
        <4>1. ts[u] \in Task
          BY <1>a, <1>1, <3>1
        <4>2. w \in Nat
          BY <3>2, <4>1 DEF Task
        <4> QED
          BY <1>a, <2>1, <3>1, <3>2, <4>2
      <3>4. ts[u].step = "queued"
        BY <1>1, <1>6, <2>1, <3>1 DEF InLine
      <3> QED
        BY <1>4, <3>1, <3>2, <3>3, <3>4
    <2> QED
      BY <2>2, <2>3
  <1>7. fl2 \in 0..(n + 1) /\ dr2 \in 0..(n + 1)
    BY <1>1, <1>a
  <1>8. fl2 # 0 => Alive(z, fl2) /\ z[fl2].kind \in Commands
    <2>1. CASE x.kind \in Commands
      BY <1>1, <1>2, <1>3, <2>1
    <2>2. CASE x.kind \notin Commands
      BY <1>1, <1>2, <1>4, <1>a, <2>2 DEF InLine
    <2> QED
      BY <2>1, <2>2
  <1>9. dr2 # 0 => z[dr2].kind \notin Commands
    <2>1. CASE x.kind \in Commands
      BY <1>1, <1>2, <1>a, <2>1 DEF InLine
    <2>2. CASE x.kind \notin Commands
      BY <1>1, <1>2, <2>2
    <2> QED
      BY <2>1, <2>2
  <1>10. ASSUME NEW t \in 1..(n + 1)
         PROVE  /\ z[t].kind \in Commands => t <= fl2 /\ (t = fl2 \/ z[t].aborted)
                /\ z[t].kind = "teardown" => t <= dr2
                /\ z[t].kind = "over" <=> ~Alive(z, t)
                /\ z[t].kind = "teardown" =>
                      /\ z[t].step \in {"queued", "clean", "stop", "drop"}
                      /\ z[t].step \in {"stop", "drop"} => z[t].vault \in Vaults
                /\ z[t].kind \in Commands => z[t].step \in CommandSteps
    <2>1. CASE t = n + 1
      <3>1. z[t] = x /\ x.step = "queued" /\ Alive(z, t) /\ x.kind # "over" /\ t \in Nat
        BY <1>2, <1>3, <1>a, <2>1
      <3>2. x.kind \in Commands => t = fl2 /\ t <= fl2
        BY <1>1, <2>1, <3>1
      <3>3. x.kind = "teardown" => t <= dr2
        BY <1>1, <2>1, <3>1 DEF Commands
      <3> QED
        BY <3>1, <3>2, <3>3 DEF CommandSteps
    <2>2. CASE t # n + 1
      <3>1. t \in 1..n /\ z[t] = ts[t] /\ (Alive(z, t) <=> Alive(ts, t))
        BY <1>2, <1>4, <1>a, <2>2
      <3>2. ts[t].kind \in Commands => t <= fl2 /\ (t = fl2 \/ z[t].aborted)
        BY <1>1, <1>a, <3>1 DEF InLine
      <3>3. ts[t].kind = "teardown" => t <= dr2
        BY <1>1, <1>a, <3>1 DEF InLine
      <3> QED
        BY <1>1, <3>1, <3>2, <3>3 DEF InLine
    <2> QED
      BY <2>1, <2>2
  <1>11. InLine(z, fl2, dr2)
    BY <1>2, <1>6, <1>7, <1>8, <1>9, <1>10 DEF InLine
  <1> QED
    BY <1>1, <1>11

(* Once the flight is cancelled, every command is. *)
LEMMA AllAborted ==
    ASSUME IInv, NEW ts, ts = Aborted(tasks)
    PROVE  \A t \in 1..Len(ts) : ts[t].kind \in Commands => ts[t].aborted
  <1> SUFFICES ASSUME NEW t \in TaskIds, tasks[t].kind \in Commands
               PROVE  tasks[t].aborted \/ t = flight
    BY AbortedIs DEF TaskIds
  <1> QED
    BY DEF IInv, Flights

(* What is added to the tasks keeps the invariant. *)
LEMMA AddKeeps ==
    ASSUME IInv, InLine(tasks, flight, draining)', Len(tasks') <= MaxTasks, ended' <= Len(tasks'),
           ended' \in Nat, Len(tasks) <= Len(tasks'),
           SessionTyped', RuntimeTyped', PaymentTyped', DeviceTyped', LimitsTyped', Paying',
           UNCHANGED <<admitted, staged, enrolled>>,
           locked => locked', storedLocked => storedLocked',
           \A u \in TaskIds :
              /\ tasks'[u].kind = tasks[u].kind /\ tasks'[u].step = tasks[u].step
              /\ tasks'[u].vault = tasks[u].vault /\ tasks'[u].preserve = tasks[u].preserve
              /\ tasks'[u].stage = tasks[u].stage
              /\ tasks[u].aborted => tasks'[u].aborted,
           \A u \in (Len(tasks) + 1)..Len(tasks') :
              /\ tasks'[u].step = "queued"
              /\ tasks'[u].kind \in Commands =>
                   /\ tasks'[u].kind \in {"enroll", "enable-passkey", "restore"} =>
                         tasks'[u].vault \in Vaults
                   /\ tasks'[u].kind = "restore" => tasks'[u].vault \in enrolled
              /\ tasks'[u].kind = "teardown" =>
                   /\ locked'
                   /\ storedLocked' \/ admitted' \subseteq tasks'[u].preserve
                   /\ \A w \in 1..(u - 1) : tasks'[w].kind \in Commands => tasks'[w].aborted
    PROVE  IInv'
  <1>a. /\ Len(tasks) \in Nat /\ Len(tasks') \in Nat /\ tasks' \in Seq(Task)
        /\ TaskIds = 1..Len(tasks) /\ TaskIds' = 1..Len(tasks')
    BY DEF InLine, IInv, TypeOK, TaskIds
  <1>1. /\ Ordered' /\ Flights' /\ Shaped'
        /\ flight' \in 0..Len(tasks') /\ draining' \in 0..Len(tasks')
    <2>1. PICK ts, fl, dr : ts = tasks' /\ fl = flight' /\ dr = draining'
      OBVIOUS
    <2>2. InLine(ts, fl, dr)
      BY <2>1 DEF InLine, Alive
    <2> QED
      BY <2>1, <2>2, LineKeeps
  <1>2. TypeOK' /\ Counted'
    <2>1. ended' \in 0..MaxTasks
      BY <1>a, PartsTyped
    <2> QED
      BY <1>a, <1>1, <2>1 DEF TypeOK, Counted, SessionTyped, RuntimeTyped, PaymentTyped,
         DeviceTyped, LimitsTyped
  <1>3. Vaulted'
    <2> SUFFICES ASSUME NEW x \in 1..Len(tasks'), tasks'[x].kind \in Commands
                 PROVE  CommandOk(tasks[x])'
      BY <1>a DEF Vaulted
    <2>1. CASE x \in TaskIds
      <3>1. CommandOk(tasks[x])
        BY <2>1 DEF IInv, Vaulted
      <3> QED
        BY <2>1, <3>1 DEF CommandOk
    <2>2. CASE x \notin TaskIds
      <3>1. x \in (Len(tasks) + 1)..Len(tasks')
        BY <1>a, <2>2
      <3> QED
        BY <3>1 DEF CommandOk
    <2> QED
      BY <2>1, <2>2
  <1>4. Torn'
    <2> SUFFICES ASSUME NEW x \in 1..Len(tasks'), tasks'[x].kind = "teardown"
                 PROVE  /\ locked'
                        /\ storedLocked' \/ admitted' \subseteq tasks'[x].preserve
                        /\ tasks'[x].step # "queued" => tasks'[x].stage = staged'
                        /\ \A u \in 1..(x - 1) :
                              tasks'[u].kind \in Commands => tasks'[u].aborted
      BY <1>a DEF Torn
    <2>1. CASE x \in TaskIds
      <3>1. /\ locked
            /\ storedLocked \/ admitted \subseteq tasks[x].preserve
            /\ tasks[x].step # "queued" => tasks[x].stage = staged
            /\ \A u \in 1..(x - 1) : tasks[u].kind \in Commands => tasks[u].aborted
        BY <2>1 DEF IInv, Torn
      <3>2. \A u \in 1..(x - 1) : u \in TaskIds
        BY <1>a, <2>1
      <3>3. \A u \in 1..(x - 1) : tasks'[u].kind \in Commands => tasks'[u].aborted
        BY <3>1, <3>2
      <3> QED
        BY <2>1, <3>1, <3>3
    <2>2. CASE x \notin TaskIds
      <3>1. x \in (Len(tasks) + 1)..Len(tasks')
        BY <1>a, <2>2
      <3> QED
        BY <3>1
    <2> QED
      BY <2>1, <2>2
  <1> QED
    BY <1>1, <1>2, <1>3, <1>4 DEF IInv

(* A command before its turn. *)
LEMMA CommandIs ==
    ASSUME NEW kind \in Commands, NEW v \in MaybeVault, NEW after \in SUBSET (1..MaxTasks)
    PROVE  /\ Command(kind, v, "queued", after) \in Task
           /\ Command(kind, v, "queued", after).kind = kind
           /\ Command(kind, v, "queued", after).vault = v
           /\ Command(kind, v, "queued", after).step = "queued"
           /\ Command(kind, v, "queued", after).after = after
  BY DEF Command, Task, CommandSteps, MaybeVault

(* A teardown before its turn. *)
LEMMA TeardownIs ==
    ASSUME NEW after \in SUBSET (1..MaxTasks), NEW cleanup \in SUBSET Vaults,
           NEW preserve \in SUBSET Vaults
    PROVE  /\ Teardown(after, cleanup, preserve) \in Task
           /\ Teardown(after, cleanup, preserve).kind = "teardown"
           /\ Teardown(after, cleanup, preserve).step = "queued"
           /\ Teardown(after, cleanup, preserve).after = after
           /\ Teardown(after, cleanup, preserve).preserve = preserve
  BY DEF Teardown, Task, TeardownSteps, MaybeVault

(* The bound of either page. *)
LEMMA BoundIs ==
    Bound \in Nat /\ Bound <= MaxTasks /\ MaxTasks \in Nat
  BY BoundsAssumption DEF Bound

(* The session and the device where a teardown leaves them. *)
LEMMA LocksTyped ==
    ASSUME IInv, Bind(TRUE, account), locked' = TRUE, storedLocked' \in BOOLEAN,
           mounted' \in BOOLEAN, ended' = ended + 1,
           UNCHANGED <<account, bound, targets, admitted, key, worker, stored, selected, staged,
                       privacy, enrolled, limits>>
    PROVE  /\ SessionTyped' /\ RuntimeTyped' /\ PaymentTyped' /\ DeviceTyped' /\ LimitsTyped'
           /\ Paying' /\ ended' \in Nat
  <1>1. account \in MaybeVault
    BY PartsTyped DEF SessionTyped
  <1>2. RuntimeTyped' /\ PaymentTyped' /\ Paying'
    BY <1>1, BindPays
  <1> QED
    BY <1>2, PartsTyped DEF SessionTyped, DeviceTyped, LimitsTyped, limits

(* The session is torn down. *)
LEMMA TearKeeps ==
    ASSUME IInv, NEW signOut \in BOOLEAN, NEW replace \in BOOLEAN,
           TearDown(tasks, signOut, replace), mounted' \in BOOLEAN,
           UNCHANGED <<account, bound, targets, admitted, flight, key,
                       worker, stored, selected, staged, privacy, enrolled, limits>>
    PROVE  IInv'
  <1>1. PICK forget \in BOOLEAN : forget = (signOut \/ replace \/ Interrupted)
    OBVIOUS
  <1>2. PICK ts, n, x : /\ ts = Aborted(tasks) /\ n = Len(tasks)
                        /\ x = Teardown({draining, flight} \ {0}, targets,
                                        IF forget THEN {} ELSE admitted)
    OBVIOUS
  <1>3. /\ n < Bound /\ tasks' = Append(ts, x) /\ draining' = n + 1 /\ flight' = flight
        /\ storedLocked' = (forget \/ storedLocked) /\ locked' = TRUE /\ ended' = ended + 1
        /\ Bind(TRUE, account)
    BY <1>1, <1>2 DEF TearDown
  <1>a. /\ n \in Nat /\ flight \in 0..n /\ draining \in 0..n /\ ended \in Nat /\ ended <= n
        /\ targets \in SUBSET Vaults /\ admitted \in SUBSET Vaults /\ storedLocked \in BOOLEAN
        /\ n <= MaxTasks /\ MaxTasks \in Nat
    BY <1>2, PartsTyped DEF IInv, TypeOK, SessionTyped, DeviceTyped
  <1>4. {draining, flight} \ {0} \in SUBSET (1..MaxTasks)
    BY <1>a
  <1>5. /\ x \in Task /\ x.kind = "teardown" /\ x.step = "queued"
        /\ x.after = {draining, flight} \ {0}
        /\ x.preserve = IF forget THEN {} ELSE admitted
    BY <1>2, <1>4, <1>a, TeardownIs
  <1>6. /\ ts \in Seq(Task) /\ Len(ts) = n
        /\ \A u \in TaskIds :
                /\ ts[u].kind = tasks[u].kind /\ ts[u].step = tasks[u].step
                /\ ts[u].vault = tasks[u].vault
                /\ ts[u].preserve = tasks[u].preserve /\ ts[u].stage = tasks[u].stage
                /\ tasks[u].aborted => ts[u].aborted
    BY <1>2, AbortedIs
  <1>7. InLine(ts, flight, draining) /\ \A t \in 1..n : ts[t].kind \in Commands => ts[t].aborted
    BY <1>2, <1>6, AbortedLine, AllAborted
  <1>8. InLine(Append(ts, x), flight, n + 1)
    BY <1>5, <1>6, <1>7, AddedLine DEF Commands
  <1>9. InLine(tasks, flight, draining)'
    BY <1>3, <1>8 DEF InLine, Alive
  <1>10. /\ tasks' \in Seq(Task) /\ Len(tasks') = n + 1 /\ tasks'[n + 1] = x
         /\ \A u \in 1..n : tasks'[u] = ts[u]
    BY <1>3, <1>5, <1>6, Grown
  <1>11. /\ SessionTyped' /\ RuntimeTyped' /\ PaymentTyped' /\ DeviceTyped' /\ LimitsTyped'
         /\ Paying' /\ ended' \in Nat
    BY <1>1, <1>3, <1>a, LocksTyped
  <1>12. Len(tasks') <= MaxTasks /\ ended' <= Len(tasks') /\ Len(tasks) <= Len(tasks')
    BY <1>2, <1>3, <1>10, <1>a, BoundIs
  <1>13. storedLocked' \/ admitted' \subseteq x.preserve
    BY <1>3, <1>5
  <1>14. \A w \in 1..n : tasks'[w].kind \in Commands => tasks'[w].aborted
    BY <1>7, <1>10
  <1>15. \A u \in (Len(tasks) + 1)..Len(tasks') : u = n + 1 /\ u - 1 = n /\ tasks'[u] = x
    BY <1>2, <1>10, <1>a
  <1>16. \A u \in TaskIds : tasks'[u] = ts[u]
    BY <1>2, <1>10 DEF TaskIds
  <1>17. \A u \in (Len(tasks) + 1)..Len(tasks') :
              /\ tasks'[u].step = "queued"
              /\ tasks'[u].kind \in Commands =>
                   /\ tasks'[u].kind \in {"enroll", "enable-passkey", "restore"} =>
                         tasks'[u].vault \in Vaults
                   /\ tasks'[u].kind = "restore" => tasks'[u].vault \in enrolled
              /\ tasks'[u].kind = "teardown" =>
                   /\ locked'
                   /\ storedLocked' \/ admitted' \subseteq tasks'[u].preserve
                   /\ \A w \in 1..(u - 1) : tasks'[w].kind \in Commands => tasks'[w].aborted
    BY <1>3, <1>5, <1>13, <1>14, <1>15 DEF Commands
  <1>18. /\ storedLocked => storedLocked'
         /\ locked => locked'
         /\ UNCHANGED <<admitted, staged, enrolled>>
    BY <1>3
  <1>19. \A u \in TaskIds :
              /\ tasks'[u].kind = tasks[u].kind /\ tasks'[u].step = tasks[u].step
              /\ tasks'[u].vault = tasks[u].vault /\ tasks'[u].preserve = tasks[u].preserve
              /\ tasks'[u].stage = tasks[u].stage
              /\ tasks[u].aborted => tasks'[u].aborted
    BY <1>6, <1>16
  <1> QED
    BY <1>9, <1>11, <1>12, <1>17, <1>18, <1>19, AddKeeps

(* A command is added. *)
LEMMA RunKeeps ==
    ASSUME IInv, NEW kind \in Commands, NEW v \in MaybeVault, Run(kind, v, tasks, draining),
           mounted' \in BOOLEAN, kind \in {"enroll", "enable-passkey", "restore"} => v \in Vaults,
           kind = "restore" => v \in enrolled,
           UNCHANGED <<sessionVars, draining, runtimeVars, paymentVars, ended, deviceVars,
                       enrolled, limits>>
    PROVE  IInv'
  <1>2. PICK ts, n, x : /\ ts = Aborted(tasks) /\ n = Len(tasks)
                        /\ x = Command(kind, v, "queued", {draining, flight} \ {0})
    OBVIOUS
  <1>3. n < Bound /\ tasks' = Append(ts, x) /\ draining' = draining /\ flight' = n + 1
    BY <1>2 DEF Run
  <1>a. /\ n \in Nat /\ flight \in 0..n /\ draining \in 0..n /\ ended \in Nat /\ ended <= n
        /\ n <= MaxTasks /\ MaxTasks \in Nat
    BY <1>2, PartsTyped DEF IInv, TypeOK
  <1>4. {draining, flight} \ {0} \in SUBSET (1..MaxTasks)
    BY <1>a
  <1>5. /\ x \in Task /\ x.kind = kind /\ x.step = "queued" /\ x.vault = v
        /\ x.after = {draining, flight} \ {0} /\ kind # "teardown"
    <2>1. kind # "teardown"
      BY DEF Commands
    <2>2. PICK after \in SUBSET (1..MaxTasks) : after = {draining, flight} \ {0}
      BY <1>4
    <2>3. x = Command(kind, v, "queued", after)
      BY <1>2, <2>2
    <2>4. /\ x \in Task /\ x.kind = kind /\ x.step = "queued" /\ x.vault = v
          /\ x.after = after
      BY <2>3, CommandIs
    <2> QED
      BY <2>1, <2>2, <2>4
  <1>6. /\ ts \in Seq(Task) /\ Len(ts) = n
        /\ \A u \in TaskIds :
                /\ ts[u].kind = tasks[u].kind /\ ts[u].step = tasks[u].step
                /\ ts[u].vault = tasks[u].vault
                /\ ts[u].preserve = tasks[u].preserve /\ ts[u].stage = tasks[u].stage
                /\ tasks[u].aborted => ts[u].aborted
    BY <1>2, AbortedIs
  <1>7. InLine(ts, flight, draining) /\ \A t \in 1..n : ts[t].kind \in Commands => ts[t].aborted
    BY <1>2, <1>6, AbortedLine, AllAborted
  <1>8. InLine(Append(ts, x), n + 1, draining)
    BY <1>5, <1>6, <1>7, AddedLine
  <1>9. InLine(tasks, flight, draining)'
    BY <1>3, <1>8 DEF InLine, Alive
  <1>10. /\ tasks' \in Seq(Task) /\ Len(tasks') = n + 1 /\ tasks'[n + 1] = x
         /\ \A u \in 1..n : tasks'[u] = ts[u]
    BY <1>3, <1>5, <1>6, Grown
  <1>11. /\ SessionTyped' /\ RuntimeTyped' /\ DeviceTyped' /\ LimitsTyped' /\ ended' \in Nat
    BY PartsTyped DEF SessionTyped, RuntimeTyped, DeviceTyped, LimitsTyped, sessionVars,
       runtimeVars, deviceVars, limits
  <1>12. PaymentTyped' /\ Paying'
    BY PaysOn DEF sessionVars, paymentVars
  <1>13. /\ Len(tasks') <= MaxTasks /\ ended' <= Len(tasks') /\ Len(tasks) <= Len(tasks')
         /\ locked => locked'
         /\ storedLocked => storedLocked'
         /\ UNCHANGED <<admitted, staged, enrolled>>
    BY <1>2, <1>3, <1>10, <1>a, BoundIs DEF sessionVars, deviceVars
  <1>15. \A u \in (Len(tasks) + 1)..Len(tasks') : tasks'[u] = x
    BY <1>2, <1>10, <1>a
  <1>16. \A u \in TaskIds : tasks'[u] = ts[u]
    BY <1>2, <1>10 DEF TaskIds
  <1>19. \A u \in TaskIds :
              /\ tasks'[u].kind = tasks[u].kind /\ tasks'[u].step = tasks[u].step
              /\ tasks'[u].vault = tasks[u].vault /\ tasks'[u].preserve = tasks[u].preserve
              /\ tasks'[u].stage = tasks[u].stage
              /\ tasks[u].aborted => tasks'[u].aborted
    BY <1>6, <1>16
  <1> QED
    BY <1>5, <1>9, <1>11, <1>12, <1>13, <1>15, <1>19, AddKeeps

(* The restoring of an open account adds both. *)
LEMMA RestoreOpenKeeps ==
    ASSUME IInv, NEW v \in enrolled, Restore(v), Open
    PROVE  IInv'
  <1>2. PICK ts, n, x, y :
           /\ ts = Aborted(tasks) /\ n = Len(tasks)
           /\ x = Teardown({draining, flight} \ {0}, targets, {})
           /\ y = Command("restore", v, "queued", {n + 1, flight} \ {0})
    OBVIOUS
  <1>a. /\ n \in Nat /\ flight \in 0..n /\ draining \in 0..n /\ ended \in Nat /\ ended <= n
        /\ n <= MaxTasks /\ MaxTasks \in Nat /\ targets \in SUBSET Vaults
        /\ v \in Vaults /\ mounted \in BOOLEAN
    BY <1>2, PartsTyped DEF IInv, TypeOK, SessionTyped, DeviceTyped
  <1>6. /\ ts \in Seq(Task) /\ Len(ts) = n
        /\ \A u \in TaskIds :
                /\ ts[u].kind = tasks[u].kind /\ ts[u].step = tasks[u].step
                /\ ts[u].vault = tasks[u].vault
                /\ ts[u].preserve = tasks[u].preserve /\ ts[u].stage = tasks[u].stage
                /\ tasks[u].aborted => ts[u].aborted
    BY <1>2, AbortedIs
  <1>b. {draining, flight} \ {0} \in SUBSET (1..MaxTasks)
    BY <1>a
  <1>4. /\ x \in Task /\ x.kind = "teardown" /\ x.step = "queued"
        /\ x.after = {draining, flight} \ {0}
    BY <1>2, <1>a, <1>b, TeardownIs
  <1>c. PICK ts2 : ts2 = Append(ts, x)
    OBVIOUS
  <1>d. /\ ts2 \in Seq(Task) /\ Len(ts2) = n + 1 /\ ts2[n + 1] = x
        /\ \A u \in 1..n : ts2[u] = ts[u]
    BY <1>4, <1>6, <1>c, Grown
  <1>3. /\ n + 1 < Bound /\ tasks' = Append(ts2, y) /\ draining' = n + 1 /\ flight' = n + 2
        /\ storedLocked' = TRUE /\ locked' = TRUE /\ ended' = ended + 1
        /\ Bind(TRUE, account)
        /\ UNCHANGED <<account, bound, targets, admitted, mounted, key, worker,
                       stored, selected, staged, privacy, enrolled, limits>>
    <2>1. n + 1 + 1 = n + 2
      BY <1>a
    <2> QED
      BY <1>2, <1>c, <1>d, <2>1 DEF Restore
  <1>e. n + 1 <= MaxTasks /\ n + 2 <= MaxTasks
    BY <1>3, <1>a, BoundIs
  <1>f. {n + 1, flight} \ {0} \in SUBSET (1..MaxTasks)
    BY <1>a, <1>e
  <1>5. /\ y \in Task /\ y.kind = "restore" /\ y.step = "queued" /\ y.vault = v
        /\ y.after = {n + 1, flight} \ {0}
    <2>1. "restore" \in Commands /\ v \in MaybeVault
      BY <1>a DEF Commands, MaybeVault
    <2>2. PICK after \in SUBSET (1..MaxTasks) : after = {n + 1, flight} \ {0}
      BY <1>f
    <2>3. y = Command("restore", v, "queued", after)
      BY <1>2, <2>2
    <2>4. /\ y \in Task /\ y.kind = "restore" /\ y.step = "queued" /\ y.vault = v
          /\ y.after = after
      BY <2>1, <2>3, CommandIs
    <2> QED
      BY <2>2, <2>4
  <1>7. InLine(ts, flight, draining) /\ \A t \in 1..n : ts[t].kind \in Commands => ts[t].aborted
    BY <1>2, <1>6, AbortedLine, AllAborted
  <1>8. InLine(ts2, flight, n + 1)
    BY <1>4, <1>6, <1>7, <1>c, AddedLine DEF Commands
  <1>g. \A t \in 1..Len(ts2) : ts2[t].kind \in Commands => ts2[t].aborted
    BY <1>4, <1>7, <1>d, <1>a DEF Commands
  <1>h. InLine(Append(ts2, y), n + 2, n + 1)
    <2>1. Len(ts2) + 1 = n + 2
      BY <1>a, <1>d
    <2> QED
      BY <1>5, <1>8, <1>g, <2>1, AddedLine DEF Commands
  <1>9. InLine(tasks, flight, draining)'
    BY <1>3, <1>h DEF InLine, Alive
  <1>10. /\ tasks' \in Seq(Task) /\ Len(tasks') = n + 2 /\ tasks'[n + 2] = y
         /\ \A u \in 1..(n + 1) : tasks'[u] = ts2[u]
    <2>1. Len(ts2) + 1 = n + 2
      BY <1>a, <1>d
    <2> QED
      BY <1>3, <1>5, <1>d, <2>1, Grown
  <1>11. /\ SessionTyped' /\ RuntimeTyped' /\ PaymentTyped' /\ DeviceTyped' /\ LimitsTyped'
         /\ Paying' /\ ended' \in Nat
    BY <1>3, <1>a, LocksTyped
  <1>13. /\ Len(tasks') <= MaxTasks /\ ended' <= Len(tasks') /\ Len(tasks) <= Len(tasks')
         /\ locked => locked'
         /\ storedLocked => storedLocked'
         /\ UNCHANGED <<admitted, staged, enrolled>>
    BY <1>2, <1>3, <1>10, <1>a, <1>e
  <1>15. \A u \in (Len(tasks) + 1)..Len(tasks') :
            \/ u = n + 2 /\ tasks'[u] = y
            \/ u = n + 1 /\ u - 1 = n /\ tasks'[u] = x
    BY <1>2, <1>10, <1>a, <1>d
  <1>14. \A w \in 1..n : tasks'[w].kind \in Commands => tasks'[w].aborted
    BY <1>7, <1>10, <1>d, <1>a
  <1>17. \A u \in (Len(tasks) + 1)..Len(tasks') :
              /\ tasks'[u].step = "queued"
              /\ tasks'[u].kind \in Commands =>
                   /\ tasks'[u].kind \in {"enroll", "enable-passkey", "restore"} =>
                         tasks'[u].vault \in Vaults
                   /\ tasks'[u].kind = "restore" => tasks'[u].vault \in enrolled
              /\ tasks'[u].kind = "teardown" =>
                   /\ locked'
                   /\ storedLocked' \/ admitted' \subseteq tasks'[u].preserve
                   /\ \A w \in 1..(u - 1) : tasks'[w].kind \in Commands => tasks'[w].aborted
    BY <1>3, <1>4, <1>5, <1>a, <1>14, <1>15 DEF Commands
  <1>16. \A u \in TaskIds : tasks'[u] = ts[u]
    BY <1>2, <1>10, <1>d, <1>a DEF TaskIds
  <1>19. \A u \in TaskIds :
              /\ tasks'[u].kind = tasks[u].kind /\ tasks'[u].step = tasks[u].step
              /\ tasks'[u].vault = tasks[u].vault /\ tasks'[u].preserve = tasks[u].preserve
              /\ tasks'[u].stage = tasks[u].stage
              /\ tasks[u].aborted => tasks'[u].aborted
    BY <1>6, <1>16
  <1> QED
    BY <1>9, <1>11, <1>13, <1>17, <1>19, AddKeeps

(* The people and views of the page add tasks. *)
Adds ==
    \/ Retain \/ Release \/ SignOut \/ ChangePlan
    \/ SignIn \/ ConnectLedger \/ Enroll \/ RegisterLedger \/ EnablePasskey
    \/ \E v \in Vaults : Restore(v)

(* They keep the invariant. *)
LEMMA AddsKeep ==
    ASSUME IInv, Adds
    PROVE  IInv' /\ key' = key
  <1>a. /\ mounted \in BOOLEAN /\ NoVault \in MaybeVault /\ account \in MaybeVault
        /\ Vaults \subseteq MaybeVault /\ enrolled \subseteq Vaults
    BY PartsTyped DEF SessionTyped, DeviceTyped, MaybeVault
  <1>1. CASE Release
    BY <1>1, TearKeeps DEF Release
  <1>2. CASE SignOut
    BY <1>2, <1>a, TearKeeps DEF SignOut
  <1>3. CASE ChangePlan
    BY <1>3, <1>a, TearKeeps DEF ChangePlan
  <1>4. ASSUME NEW kind \in Commands, NEW v \in MaybeVault, Calls(kind, v),
               kind \in {"enroll", "enable-passkey"} => v \in Vaults, kind # "restore"
        PROVE  IInv' /\ key' = key
    BY <1>4, <1>a, RunKeeps DEF Calls, deviceVars
  <1>5. CASE Retain
    <2>1. /\ Run("boot", NoVault, tasks, draining) /\ mounted' = TRUE
          /\ UNCHANGED <<sessionVars, draining, runtimeVars, paymentVars, ended,
                         deviceVars, enrolled, limits>>
      BY <1>5 DEF Retain
    <2>2. "boot" \in Commands
      BY DEF Commands
    <2> QED
      BY <1>a, <2>1, <2>2, RunKeeps DEF deviceVars
  <1>6. CASE SignIn
    BY <1>4, <1>6, <1>a DEF SignIn, Commands
  <1>7. CASE ConnectLedger
    BY <1>4, <1>7, <1>a DEF ConnectLedger, Commands
  <1>8. CASE RegisterLedger
    BY <1>4, <1>8, <1>a DEF RegisterLedger, Commands
  <1>9. CASE Enroll
    BY <1>4, <1>9, <1>a DEF Enroll, Commands
  <1>10. CASE EnablePasskey
    <2>1. account \in Vaults
      BY <1>10, <1>a DEF EnablePasskey, Open, Identity, MaybeVault
    <2> QED
      BY <1>4, <1>10, <1>a, <2>1 DEF EnablePasskey, Commands
  <1>11. ASSUME NEW v \in Vaults, Restore(v) PROVE IInv' /\ key' = key
    <2>1. v \in enrolled /\ key' = key /\ mounted' = mounted
      BY <1>11 DEF Restore
    <2>2. CASE Open
      BY <1>11, <2>1, <2>2, RestoreOpenKeeps
    <2>3. CASE ~Open
      <3>1. /\ Run("restore", v, tasks, draining)
            /\ UNCHANGED <<sessionVars, draining, runtimeVars, paymentVars, ended, deviceVars,
                           enrolled, limits>>
        BY <1>11, <2>3 DEF Restore, sessionVars, deviceVars
      <3>2. "restore" \in Commands
        BY DEF Commands
      <3> QED
        BY <1>a, <2>1, <3>1, <3>2, RunKeeps
    <2> QED
      BY <2>2, <2>3
  <1> QED
    BY <1>1, <1>2, <1>3, <1>5, <1>6, <1>7, <1>8, <1>9, <1>10, <1>11
       DEF Adds, Release, SignOut, ChangePlan

(* The signal of a Ledger command. *)
LEMMA CancelLedgerKeeps ==
    ASSUME IInv, CancelLedger
    PROVE  IInv' /\ key' = key
  <1>1. /\ tasks' = Aborted(tasks)
        /\ UNCHANGED <<sessionVars, flight, draining, mounted, runtimeVars, paymentVars, ended,
                       deviceVars, enrolled, limits>>
    BY DEF CancelLedger
  <1>2. InLine(Aborted(tasks), flight, draining)
    BY AbortedLine
  <1>3. InLine(tasks, flight, draining)'
    BY <1>1, <1>2 DEF InLine, Alive
  <1>4. /\ Len(tasks') = Len(tasks) /\ Len(tasks) \in Nat /\ Len(tasks) <= MaxTasks
        /\ \A u \in TaskIds :
                /\ tasks'[u].kind = tasks[u].kind /\ tasks'[u].step = tasks[u].step
                /\ tasks'[u].vault = tasks[u].vault
                /\ tasks'[u].preserve = tasks[u].preserve /\ tasks'[u].stage = tasks[u].stage
                /\ tasks[u].aborted => tasks'[u].aborted
    BY <1>1, AbortedIs DEF IInv, TypeOK
  <1>5. /\ SessionTyped' /\ RuntimeTyped' /\ DeviceTyped' /\ LimitsTyped'
        /\ ended' \in Nat /\ ended' <= Len(tasks')
    BY <1>1, <1>4, PartsTyped DEF SessionTyped, RuntimeTyped, DeviceTyped, LimitsTyped,
       sessionVars, runtimeVars, deviceVars, limits
  <1>6. PaymentTyped' /\ Paying'
    BY <1>1, PaysOn DEF sessionVars, paymentVars
  <1>7. /\ locked => locked'
        /\ storedLocked => storedLocked'
        /\ UNCHANGED <<admitted, staged, enrolled, key>>
    BY <1>1 DEF sessionVars, deviceVars
  <1>8. (Len(tasks) + 1)..Len(tasks') = {}
    BY <1>4
  <1> QED
    BY <1>3, <1>4, <1>5, <1>6, <1>7, <1>8, AddKeeps

-------------------------------------------------------------------------------
(* The steps that leave the tasks alone *)

(* Nothing is torn down in an open session, so a lock that is not saved, or    *)

(* saved, tells of no teardown.                                                *)
LEMMA QuietKeeps ==
    ASSUME IInv, UNCHANGED <<tasks, flight, draining, locked, admitted, staged, enrolled, ended>>,
           storedLocked' \/ storedLocked' = storedLocked \/ ~locked,
           SessionTyped', RuntimeTyped', PaymentTyped', DeviceTyped', LimitsTyped', Paying'
    PROVE  IInv'
  <1>1. Ordered' /\ Flights' /\ Shaped' /\ Counted'
    BY DEF IInv, Ordered, Flights, Shaped, Counted, TaskIds, Live, IsOver
  <1>2. TypeOK'
    BY DEF IInv, TypeOK, SessionTyped, RuntimeTyped, PaymentTyped, DeviceTyped, LimitsTyped
  <1>3. Vaulted'
    BY DEF IInv, Vaulted, CommandOk, TaskIds
  <1>4. Torn'
    BY DEF IInv, Torn, TaskIds
  <1> QED
    BY <1>1, <1>2, <1>3, <1>4 DEF IInv

(* A step of a runtime, and of the worker it registers. *)
LEMMA RuntimeKeeps ==
    ASSUME IInv, RuntimeTyped', worker' \subseteq Vaults, failures' \in 0..MaxFailures,
           UNCHANGED <<sessionVars, taskVars, mounted, paymentVars, ended, key, stored, selected,
                       staged, storedLocked, privacy, enrolled, reloads>>
    PROVE  IInv' /\ key' = key
  <1>1. PaymentTyped' /\ Paying'
    BY PaysOn DEF sessionVars, paymentVars
  <1>2. SessionTyped' /\ DeviceTyped' /\ LimitsTyped'
    BY PartsTyped DEF SessionTyped, DeviceTyped, LimitsTyped, sessionVars
  <1> QED
    BY <1>1, <1>2, QuietKeeps DEF sessionVars, taskVars

(* A runtime at another step. *)
LEMMA RuntimeAt ==
    ASSUME RuntimeTyped, NEW r \in RuntimeIds,
           NEW step \in {"idle", "waiting", "creating", "open", "retired", "broken"},
           runtimes' = [runtimes EXCEPT ![r].step = step], current' = current
    PROVE  RuntimeTyped' /\ runtimes[r].vault \in Vaults
  <1>1. runtimes[r] \in Runtime
    BY DEF RuntimeTyped, RuntimeIds
  <1>2. PICK e : e = [runtimes[r] EXCEPT !.step = step]
    OBVIOUS
  <1>3. e \in Runtime /\ runtimes[r].vault \in Vaults
    BY <1>1, <1>2 DEF Runtime
  <1>4. runtimes' = [runtimes EXCEPT ![r] = e]
    BY <1>2
  <1> QED
    BY <1>3, <1>4, Replaced DEF RuntimeTyped, RuntimeIds

(* The steps of a runtime. *)
LEMMA RuntimeStepKeeps ==
    ASSUME IInv, NEW r \in RuntimeIds, RuntimeStep(r)
    PROVE  IInv' /\ key' = key
  <1>a. /\ RuntimeTyped /\ worker \subseteq Vaults /\ failures \in 0..MaxFailures
        /\ MaxFailures \in Nat
    BY PartsTyped DEF DeviceTyped, LimitsTyped
  <1>b. runtimes[r].vault \in Vaults
    <2>1. runtimes[r] \in Runtime
      BY <1>a DEF RuntimeTyped, RuntimeIds
    <2> QED
      BY <2>1 DEF Runtime
  <1>1. /\ \E step \in {"idle", "creating", "open", "retired", "broken"} :
              runtimes' = [runtimes EXCEPT ![r].step = step]
        /\ worker' \subseteq worker \cup {runtimes[r].vault}
        /\ failures' \in 0..MaxFailures
        /\ UNCHANGED <<sessionVars, taskVars, mounted, current, paymentVars, ended, key, stored,
                       selected, staged, storedLocked, privacy, enrolled, reloads>>
    <2>1. CASE RegistersWorker(r)
      BY <1>a, <2>1 DEF RegistersWorker, limits
    <2>2. CASE ConnectionCreated(r)
      BY <1>a, <2>2 DEF ConnectionCreated, limits
    <2>3. CASE Retires(r)
      BY <1>a, <2>3 DEF Retires
    <2> QED
      BY <2>1, <2>2, <2>3 DEF RuntimeStep
  <1>2. RuntimeTyped' /\ worker' \subseteq Vaults
    BY <1>1, <1>a, <1>b, RuntimeAt
  <1> QED
    BY <1>1, <1>2, RuntimeKeeps

(* A view connects the runtime. *)
LEMMA ViewKeeps ==
    ASSUME IInv, ViewConnects
    PROVE  IInv' /\ key' = key
  <1>1. current \in 1..Len(runtimes) /\ RuntimeTyped
    BY PartsTyped DEF ViewConnects, Serves, RuntimeTyped
  <1>2. runtimes' = Connecting(runtimes, current) /\ current' = current
    BY DEF ViewConnects
  <1>3. RuntimeTyped'
    BY <1>1, <1>2, ConnectingTyped DEF RuntimeTyped
  <1>4. worker' \subseteq Vaults /\ failures' \in 0..MaxFailures
    BY PartsTyped DEF ViewConnects, deviceVars, limits, DeviceTyped, LimitsTyped
  <1> QED
    BY <1>3, <1>4, RuntimeKeeps DEF ViewConnects, deviceVars, limits

(* A step of the payment. *)
LEMMA PaymentKeeps ==
    ASSUME IInv, RuntimeTyped', PaymentTyped', Paying',
           UNCHANGED <<sessionVars, taskVars, mounted, ended, deviceVars, enrolled, limits>>
    PROVE  IInv' /\ key' = key
  <1>1. SessionTyped' /\ DeviceTyped' /\ LimitsTyped'
    BY PartsTyped DEF SessionTyped, DeviceTyped, LimitsTyped, sessionVars, deviceVars, limits
  <1> QED
    BY <1>1, QuietKeeps DEF sessionVars, taskVars, deviceVars

(* The payment command in its next state. *)
LEMMA PaymentOn ==
    ASSUME IInv, UNCHANGED <<sessionVars, ended>>, PaymentTyped',
           review' = review \/ review' = NoCommand,
           command' # NoCommand /\ ~command'.aborted =>
              command'.vault = Identity(locked, account) /\ command'.session = ended
    PROVE  Paying'
  <1>1. Identity(locked, account)' = Identity(locked, account) /\ ended' = ended
    BY DEF Identity, sessionVars
  <1>2. ReviewOfThisSession
    BY DEF IInv, Paying
  <1>3. ReviewOfThisSession'
    BY <1>1, <1>2 DEF ReviewOfThisSession
  <1> QED
    BY <1>1, <1>3 DEF Paying

(* A review is asked for. *)
LEMMA ReviewKeeps ==
    ASSUME IInv, Review
    PROVE  IInv' /\ key' = key
  <1>a. /\ RuntimeTyped /\ PaymentTyped /\ ended \in Nat /\ account \in MaybeVault
        /\ NoCommand \notin PaymentCommand
    BY PartsTyped DEF SessionTyped
  <1>b. account \in Vaults /\ Identity(locked, account) = account
    BY <1>a DEF Review, Open, Identity, MaybeVault
  <1>1. PICK step \in {"lock", "quote"} :
           command' = [step |-> step, vault |-> account, session |-> ended,
                       aborted |-> FALSE, runtime |-> 0]
    BY DEF Review
  <1>2. command' \in PaymentCommand
    BY <1>1, <1>a, <1>b DEF PaymentCommand
  <1>3. PaymentTyped' /\ RuntimeTyped'
    BY <1>2, <1>a DEF Review, PaymentTyped, RuntimeTyped, runtimeVars
  <1>4. Paying'
    BY <1>1, <1>3, <1>b, PaymentOn DEF Review
  <1> QED
    BY <1>3, <1>4, PaymentKeeps DEF Review

(* The lifecycle lock is granted. *)
LEMMA GrantedKeeps ==
    ASSUME IInv, LockGranted
    PROVE  IInv' /\ key' = key
  <1>a. /\ RuntimeTyped /\ PaymentTyped /\ command \in PaymentCommand
    BY PartsTyped DEF LockGranted, PaymentTyped
  <1>b. command.vault \in Vaults
    BY <1>a DEF PaymentCommand
  <1>1. PICK rs, r : rs = WithRuntime(command.vault) /\ r = RuntimeOf(command.vault)
    OBVIOUS
  <1>2. rs \in Seq(Runtime) /\ r \in 1..Len(rs)
    BY <1>1, <1>a, <1>b, RuntimesTyped
  <1>3. /\ runtimes' = Connecting(rs, r) /\ current' = r
        /\ command' = [command EXCEPT !.step = "wallet", !.runtime = r]
        /\ review' = review
    BY <1>1 DEF LockGranted
  <1>4. RuntimeTyped'
    BY <1>2, <1>3, ConnectingTyped DEF RuntimeTyped
  <1>5. /\ command' \in PaymentCommand /\ command'.aborted = command.aborted
        /\ command'.vault = command.vault /\ command'.session = command.session
    <2>1. r \in Nat
      BY <1>2
    <2> QED
      BY <1>3, <1>a, <2>1 DEF PaymentCommand
  <1>6. PaymentTyped'
    BY <1>3, <1>5, <1>a DEF PaymentTyped
  <1>7. Paying'
    <2>1. ~command.aborted => command.vault = Identity(locked, account) /\ command.session = ended
      BY DEF LockGranted, IInv, Paying
    <2> QED
      BY <1>3, <1>5, <1>6, <2>1, PaymentOn DEF LockGranted
  <1> QED
    BY <1>4, <1>6, <1>7, PaymentKeeps DEF LockGranted

(* The wallet is ready, the quote arrives or fails, the review is left. *)
LEMMA PaymentEndsKeeps ==
    ASSUME IInv, WalletReady \/ QuoteFails \/ CancelReview \/ Quoted
    PROVE  IInv' /\ key' = key
  <1>a. RuntimeTyped /\ PaymentTyped /\ NoCommand \notin PaymentCommand
    BY PartsTyped
  <1>b. /\ UNCHANGED <<sessionVars, taskVars, mounted, runtimeVars, ended, deviceVars, enrolled,
                       limits>>
    BY DEF WalletReady, QuoteFails, CancelReview, Quoted
  <1>c. RuntimeTyped'
    BY <1>a, <1>b DEF RuntimeTyped, runtimeVars
  <1>1. CASE CancelReview
    <2>1. /\ PaymentTyped' /\ review' = NoCommand
          /\ command' # NoCommand => command'.aborted
      BY <1>1, CancelTyped DEF CancelReview
    <2>2. Paying'
      BY <1>b, <2>1, PaymentOn
    <2> QED
      BY <1>b, <1>c, <2>1, <2>2, PaymentKeeps
  <1>2. CASE command' = NoCommand /\ review' = review
    <2>1. PaymentTyped'
      BY <1>2, <1>a DEF PaymentTyped
    <2>2. Paying'
      BY <1>2, <1>b, <2>1, PaymentOn
    <2> QED
      BY <1>b, <1>c, <2>1, <2>2, PaymentKeeps
  <1>3. CASE /\ command # NoCommand /\ ~command.aborted
             /\ command' = [command EXCEPT !.step = "quote"] /\ review' = review
    <2>1. command \in PaymentCommand
      BY <1>3, <1>a DEF PaymentTyped
    <2>2. /\ command' \in PaymentCommand
          /\ command'.vault = command.vault /\ command'.session = command.session
      BY <1>3, <2>1 DEF PaymentCommand
    <2>3. PaymentTyped'
      BY <1>3, <1>a, <2>2 DEF PaymentTyped
    <2>4. command.vault = Identity(locked, account) /\ command.session = ended
      BY <1>3 DEF IInv, Paying
    <2>5. Paying'
      BY <1>3, <1>b, <2>2, <2>3, <2>4, PaymentOn
    <2> QED
      BY <1>b, <1>c, <2>3, <2>5, PaymentKeeps
  <1>4. CASE /\ command # NoCommand /\ ~command.aborted
             /\ command.vault = Identity(locked, account) /\ command' = NoCommand
             /\ review' = [vault |-> command.vault, session |-> command.session]
    <2>1. command \in PaymentCommand
      BY <1>4, <1>a DEF PaymentTyped
    <2>2. review' \in ShownReview
      BY <1>4, <2>1 DEF PaymentCommand, ShownReview
    <2>3. PaymentTyped'
      BY <1>4, <2>2 DEF PaymentTyped
    <2>4. command.session = ended
      BY <1>4 DEF IInv, Paying
    <2>5. Identity(locked, account)' = Identity(locked, account) /\ ended' = ended
      BY <1>b DEF Identity, sessionVars
    <2>6. Paying'
      BY <1>4, <2>4, <2>5 DEF Paying, ReviewOfThisSession
    <2> QED
      BY <1>b, <1>c, <2>3, <2>6, PaymentKeeps
  <1>5. WalletReady => \/ command' = NoCommand /\ review' = review
                       \/ /\ command # NoCommand /\ ~command.aborted
                          /\ command' = [command EXCEPT !.step = "quote"] /\ review' = review
    BY DEF WalletReady
  <1>6. QuoteFails => command' = NoCommand /\ review' = review
    BY DEF QuoteFails
  <1>7. Quoted => \/ command' = NoCommand /\ review' = review
                  \/ /\ command # NoCommand /\ ~command.aborted
                     /\ command.vault = Identity(locked, account) /\ command' = NoCommand
                     /\ review' = [vault |-> command.vault, session |-> command.session]
    BY DEF Quoted
  <1> QED
    BY <1>1, <1>2, <1>3, <1>4, <1>5, <1>6, <1>7

(* The rest of the page. *)
LEMMA SettingsKeep ==
    ASSUME IInv, StatusRefreshed \/ Hide \/ \E on \in BOOLEAN : SetPrivacyLock(on)
    PROVE  IInv' /\ key' = key
  <1>1. CASE StatusRefreshed
    <2>1. bound \in Vaults
      BY <1>1, PartsTyped DEF StatusRefreshed, SessionTyped, MaybeVault
    <2>2. SessionTyped' /\ RuntimeTyped' /\ PaymentTyped' /\ Paying'
      BY <1>1, <2>1, ShowEffects DEF StatusRefreshed
    <2>3. DeviceTyped' /\ LimitsTyped'
      BY <1>1, PartsTyped DEF StatusRefreshed, DeviceTyped, LimitsTyped, deviceVars, limits
    <2> QED
      BY <1>1, <2>2, <2>3, QuietKeeps DEF StatusRefreshed, taskVars, deviceVars
  <1>2. ASSUME storedLocked' = TRUE \/ ~locked, storedLocked' \in BOOLEAN, privacy' \in BOOLEAN,
               UNCHANGED <<sessionVars, taskVars, mounted, runtimeVars, paymentVars, ended, key,
                           worker, stored, selected, staged, enrolled, limits>>
        PROVE  IInv' /\ key' = key
    <2>1. SessionTyped' /\ RuntimeTyped' /\ DeviceTyped' /\ LimitsTyped'
      BY <1>2, PartsTyped DEF SessionTyped, RuntimeTyped, DeviceTyped, LimitsTyped,
         sessionVars, runtimeVars, limits
    <2>2. PaymentTyped' /\ Paying'
      BY <1>2, PaysOn DEF sessionVars, paymentVars
    <2> QED
      BY <1>2, <2>1, <2>2, QuietKeeps DEF sessionVars, taskVars
  <1>3. CASE Hide
    BY <1>2, <1>3, PartsTyped DEF Hide, DeviceTyped
  <1>4. ASSUME NEW on \in BOOLEAN, SetPrivacyLock(on) PROVE IInv' /\ key' = key
    BY <1>2, <1>4 DEF SetPrivacyLock, Open, Identity
  <1> QED
    BY <1>1, <1>3, <1>4

-------------------------------------------------------------------------------
(* The specification *)

(* A page that begins. *)
LEMMA FreshPage ==
    ASSUME locked = TRUE, account = NoVault, bound = NoVault, targets = {}, admitted = {},
           tasks = <<>>, flight = 0, draining = 0, mounted = FALSE, runtimes = <<>>,
           current = 0, command = NoCommand, review = NoCommand, ended = 0,
           DeviceTyped, LimitsTyped
    PROVE  IInv
  <1>a. MaxTasks \in Nat
    BY BoundsAssumption
  <1>b. /\ tasks \in Seq(Task) /\ Len(tasks) = 0 /\ runtimes \in Seq(Runtime)
        /\ Len(runtimes) = 0
    OBVIOUS
  <1>c. SessionTyped /\ RuntimeTyped /\ PaymentTyped
    <2>1. SessionTyped
      BY DEF SessionTyped, MaybeVault
    <2>2. RuntimeTyped
      BY <1>b DEF RuntimeTyped
    <2> QED
      BY <2>1, <2>2 DEF PaymentTyped
  <1>1. TypeOK
    BY <1>a, <1>b, <1>c DEF TypeOK, SessionTyped, RuntimeTyped, PaymentTyped, DeviceTyped,
       LimitsTyped
  <1>2. Counted /\ Ordered /\ Flights /\ Shaped /\ Vaulted /\ Torn
    BY DEF Counted, Ordered, Flights, Shaped, Vaulted, Torn, TaskIds
  <1>3. Paying
    BY DEF Paying, ReviewOfThisSession
  <1> QED
    BY <1>1, <1>2, <1>3 DEF IInv

(* The device before its first page. *)
LEMMA InitIInv ==
    ASSUME Init
    PROVE  IInv
  <1>1. selected \in MaybeVault /\ stored \subseteq Enrolled /\ Enrolled \subseteq Vaults
    BY VaultsAssumption DEF Init, MaybeVault
  <1>2. key \in [Vaults -> {"none", "staged", "active"}]
    BY DEF Init
  <1>3. /\ worker \subseteq Vaults /\ staged \in MaybeVault /\ privacy \in BOOLEAN
        /\ storedLocked \in BOOLEAN /\ enrolled = Enrolled
    BY DEF Init, MaybeVault
  <1>4. DeviceTyped
    BY <1>1, <1>2, <1>3 DEF DeviceTyped
  <1>5. LimitsTyped
    BY BoundsAssumption DEF Init, LimitsTyped
  <1> QED
    BY <1>4, <1>5, FreshPage DEF Init

(* The page is closed and opened again. *)
LEMMA ReloadKeeps ==
    ASSUME IInv, Reload
    PROVE  IInv' /\ key' = key
  <1>1. DeviceTyped' /\ LimitsTyped' /\ key' = key
    BY PartsTyped DEF Reload, deviceVars, DeviceTyped, LimitsTyped
  <1>a. MaxTasks \in Nat
    BY BoundsAssumption
  <1>b. /\ tasks' \in Seq(Task) /\ Len(tasks') = 0 /\ runtimes' \in Seq(Runtime)
        /\ Len(runtimes') = 0
    BY DEF Reload
  <1>c. SessionTyped' /\ RuntimeTyped' /\ PaymentTyped'
    <2>1. SessionTyped'
      BY DEF Reload, SessionTyped, MaybeVault
    <2>2. RuntimeTyped'
      BY <1>b DEF Reload, RuntimeTyped
    <2> QED
      BY <2>1, <2>2 DEF Reload, PaymentTyped
  <1>2. TypeOK'
    BY <1>1, <1>a, <1>b, <1>c DEF Reload, TypeOK, SessionTyped, RuntimeTyped, PaymentTyped,
       DeviceTyped, LimitsTyped
  <1>3. Counted' /\ Ordered' /\ Flights' /\ Shaped' /\ Vaulted' /\ Torn'
    BY DEF Reload, Counted, Ordered, Flights, Shaped, Vaulted, Torn, TaskIds
  <1>4. Paying'
    BY DEF Reload, Paying, ReviewOfThisSession
  <1> QED
    BY <1>1, <1>2, <1>3, <1>4 DEF IInv

(* Every step is one of a command, one of a teardown, one that adds a task or  *)

(* cancels one, or one beside the tasks.                                       *)
LEMMA NextIs ==
    ASSUME Next
    PROVE  \/ \E t \in TaskIds : CommandStep(t)
           \/ \E t \in TaskIds : TeardownStep(t)
           \/ Adds
           \/ CancelLedger
           \/ \E r \in RuntimeIds : RuntimeStep(r)
           \/ ViewConnects
           \/ Review
           \/ LockGranted
           \/ WalletReady \/ QuoteFails \/ CancelReview \/ Quoted
           \/ StatusRefreshed \/ Hide \/ \E on \in BOOLEAN : SetPrivacyLock(on)
           \/ Reload
  <1>1. ASSUME NEW t \in TaskIds, Promise(t) \/ StopFails(t) \/ TaskStep(t)
        PROVE  CommandStep(t) \/ TeardownStep(t)
    BY <1>1 DEF Promise, TaskStep, CommandStep, TeardownStep
  <1>2. CASE \E t \in TaskIds : Promise(t) \/ StopFails(t)
    BY <1>1, <1>2
  <1>3. CASE Events
    BY <1>1, <1>3 DEF Events, PaymentStep, Person, Adds
  <1> QED
    BY <1>2, <1>3 DEF Next

(* Every step keeps the invariant, and the keys that are needed. *)
LEMMA NextIInv ==
    ASSUME IInv, Next
    PROVE  IInv' /\ \A v \in Vaults : Needed(v) => key[v] = "none" \/ key'[v] # "none"
  BY NextIs, CommandStepKeeps, TeardownStepKeeps, AddsKeep, CancelLedgerKeeps,
     RuntimeStepKeeps, ViewKeeps, ReviewKeeps, GrantedKeeps, PaymentEndsKeeps, SettingsKeep,
     ReloadKeeps

(* So does a step that changes nothing. *)
LEMMA StutterIInv ==
    ASSUME IInv, UNCHANGED vars
    PROVE  IInv'
  <1>1. SessionTyped' /\ RuntimeTyped' /\ DeviceTyped' /\ LimitsTyped'
    BY PartsTyped DEF SessionTyped, RuntimeTyped, DeviceTyped, LimitsTyped, vars, sessionVars,
       runtimeVars, deviceVars, limits
  <1>2. PaymentTyped' /\ Paying'
    BY PaysOn DEF vars, sessionVars, paymentVars
  <1> QED
    BY <1>1, <1>2, QuietKeeps DEF vars, sessionVars, taskVars, deviceVars

(* The inductive invariant: the tasks of a page run one at a time, in the      *)
(* order in which they were created; while a teardown is not over the session  *)

(* is locked and the commands before it are cancelled.                         *)
THEOREM Invariant == Spec => []IInv
  <1>1. Init => IInv
    BY InitIInv
  <1>2. IInv /\ [Next]_vars => IInv'
    BY NextIInv, StutterIInv
  <1> QED
    BY <1>1, <1>2, PTL DEF Spec

(* The values of the variables. *)
THEOREM TypeCorrect == Spec => []TypeOK
  <1>1. IInv => TypeOK
    BY DEF IInv
  <1> QED
    BY <1>1, Invariant, PTL

(* No command of an earlier session publishes its review into a later one:     *)

(* the session that ends cancels it, and it looks before it publishes.         *)
THEOREM ReviewsBelong == Spec => []ReviewOfThisSession
  <1>1. IInv => ReviewOfThisSession
    BY DEF IInv, Paying
  <1> QED
    BY <1>1, Invariant, PTL

(* No step of any interleaving of commands, teardowns and reloads deletes the  *)
(* boarding key of an open account, of an admitted one that could open again,  *)

(* or of the staged enrolment.                                                 *)
THEOREM KeysKept == Spec => NeededKeysKept
  <1>1. IInv /\ [Next]_vars =>
          [\A v \in Vaults : Needed(v) => key[v] = "none" \/ key'[v] # "none"]_vars
    BY NextIInv
  <1> QED
    BY <1>1, Invariant, PTL DEF Spec, NeededKeysKept

-------------------------------------------------------------------------------
(* The runtime of an open account *)

(* A runtime that is gone, and one that its payment owner holds.               *)
Gone == {"retired", "broken"}
Lasts(r) == runtimes[r].owner /\ runtimes[r].step \notin Gone

(* A runtime that is not the one in use is disposed, and only such retire. *)
RuntimesReplaced ==
    /\ \A r \in RuntimeIds : runtimes[r].disposed <=> r # current
    /\ \A r \in RuntimeIds : runtimes[r].step \in Gone => runtimes[r].disposed

(* The payment command waits for a runtime that waits for the end of the       *)
(* command: nothing but a reload ends it.                                      *)
Stuck ==
    /\ command # NoCommand
    /\ command.step = "wallet"
    /\ command.runtime \in RuntimeIds
    /\ runtimes[command.runtime].step = "waiting"
    /\ \E r \in 1..(command.runtime - 1) : Lasts(r)
StuckInUse == Stuck /\ current = command.runtime

(* A payment command keeps a runtime of its vault, and an open account has one *)
(* in use, unless the command is stuck.                                        *)
CommandServed ==
    /\ command # NoCommand =>
          \E r \in RuntimeIds : Lasts(r) /\ runtimes[r].vault = command.vault
    /\ Open => Stuck \/ (Serves(account) /\ runtimes[current].owner)
Served == RuntimesReplaced /\ CommandServed

(* What a step leaves of the runtimes there were: one that is disposed, owned  *)
(* or closing stays so, one that is gone stays as it is, one that a command    *)
(* holds lasts, and one that waits goes on when the earlier ones are gone.     *)
Onward ==
    \A r \in RuntimeIds :
       /\ r \in RuntimeIds' /\ runtimes'[r].vault = runtimes[r].vault
       /\ runtimes[r].disposed => runtimes'[r].disposed
       /\ runtimes[r].closes => runtimes'[r].closes
       /\ runtimes[r].owner => runtimes'[r].owner
       /\ runtimes[r].step \in Gone => runtimes'[r].step = runtimes[r].step
       /\ Lasts(r) /\ command # NoCommand => runtimes'[r].step \notin Gone
       /\ runtimes[r].step = "waiting" =>
             \/ runtimes'[r].step = "waiting"
             \/ \A q \in 1..(r - 1) : runtimes[q].step \in Gone

(* The payment command goes on as it is, or cancelled.                         *)
Pays ==
    /\ command = NoCommand => command' = NoCommand
    /\ command # NoCommand =>
          /\ command' # NoCommand /\ command'.step = command.step
          /\ command'.vault = command.vault /\ command'.runtime = command.runtime

(* The runtimes where they are. *)
LEMMA RuntimeIs ==
    ASSUME RuntimeTyped, NEW r \in RuntimeIds
    PROVE  /\ r \in Nat /\ r >= 1 /\ r <= Len(runtimes) /\ Len(runtimes) \in Nat
           /\ runtimes[r] \in Runtime /\ runtimes[r].vault \in Vaults
           /\ runtimes[r].disposed \in BOOLEAN /\ runtimes[r].owner \in BOOLEAN
           /\ runtimes[r].closes \in BOOLEAN
           /\ runtimes[r].step \in {"idle", "waiting", "creating", "open", "retired", "broken"}
  <1>1. runtimes[r] \in Runtime
    BY DEF RuntimeTyped, RuntimeIds
  <1> QED
    BY <1>1 DEF RuntimeTyped, RuntimeIds, Runtime

(* The payment owner cancels its command. *)
LEMMA CancelPays ==
    ASSUME IInv, CancelPayment \/ UNCHANGED paymentVars
    PROVE  Pays
  <1>1. CASE command # NoCommand /\ CancelPayment
    <2>1. command \in PaymentCommand /\ NoCommand \notin PaymentCommand
      BY <1>1, PartsTyped DEF PaymentTyped
    <2>2. command' = [command EXCEPT !.aborted = TRUE]
      BY <1>1 DEF CancelPayment
    <2>3. command' \in PaymentCommand
      BY <2>1, <2>2 DEF PaymentCommand
    <2> QED
      BY <1>1, <2>1, <2>2, <2>3 DEF Pays, PaymentCommand
  <1> QED
    BY <1>1 DEF Pays, CancelPayment, paymentVars

(* A stuck command stays stuck. *)
LEMMA StuckStays ==
    ASSUME RuntimeTyped, RuntimeTyped', Onward, Pays, Stuck
    PROVE  Stuck' /\ command'.runtime = command.runtime
  <1>1. PICK q \in 1..(command.runtime - 1) : Lasts(q)
    BY DEF Stuck
  <1>2. /\ command.runtime \in RuntimeIds /\ q \in RuntimeIds /\ q < command.runtime
        /\ command # NoCommand /\ command' # NoCommand /\ command'.runtime = command.runtime
        /\ command'.step = "wallet"
    BY <1>1 DEF Stuck, Pays, RuntimeIds, RuntimeTyped
  <1>3. command.runtime \in RuntimeIds' /\ Lasts(q)'
    BY <1>1, <1>2 DEF Onward, Lasts
  <1>4. runtimes'[command.runtime].step = "waiting"
    BY <1>1, <1>2 DEF Onward, Lasts, Stuck
  <1> QED
    BY <1>1, <1>2, <1>3, <1>4 DEF Stuck

(* What a payment command and an open account have stays theirs. *)
LEMMA ServedOn ==
    ASSUME RuntimeTyped, RuntimeTyped', Onward, Pays, CommandServed,
           \/ ~Open'
           \/ current' = current /\ UNCHANGED <<locked, account>>
           \/ Serves(account)' /\ runtimes'[current'].owner
    PROVE  CommandServed'
  <1>1. ASSUME command' # NoCommand
        PROVE  \E r \in RuntimeIds' : Lasts(r)' /\ runtimes'[r].vault = command'.vault
    <2>1. command # NoCommand /\ command'.vault = command.vault
      BY <1>1 DEF Pays
    <2>2. PICK r \in RuntimeIds : Lasts(r) /\ runtimes[r].vault = command.vault
      BY <2>1 DEF CommandServed
    <2> QED
      BY <2>1, <2>2 DEF Onward, Lasts
  <1>2. CASE current' = current /\ UNCHANGED <<locked, account>> /\ Open'
    <2>1. Open
      BY <1>2 DEF Open, Identity
    <2>2. CASE Stuck
      BY <1>1, <2>2, StuckStays DEF CommandServed
    <2>3. CASE Serves(account) /\ runtimes[current].owner
      <3>1. current \in RuntimeIds
        BY <2>3 DEF Serves, RuntimeTyped, RuntimeIds
      <3>2. Serves(account)' /\ runtimes'[current'].owner
        BY <1>2, <2>3, <3>1 DEF Serves, Onward
      <3> QED
        BY <1>1, <3>2 DEF CommandServed
    <2> QED
      BY <2>1, <2>2, <2>3 DEF CommandServed
  <1> QED
    BY <1>1, <1>2 DEF CommandServed

(* The runtimes once that of a vault is the one in use. *)
LEMMA WithRuntimeIs ==
    ASSUME RuntimeTyped, RuntimesReplaced, NEW v \in Vaults,
           NEW rs, rs = WithRuntime(v), NEW r, r = RuntimeOf(v)
    PROVE  /\ rs \in Seq(Runtime) /\ r \in 1..Len(rs) /\ rs[r].vault = v
           /\ Len(runtimes) <= Len(rs) /\ Len(rs) \in Nat
           /\ \A q \in RuntimeIds :
                 /\ rs[q].vault = runtimes[q].vault /\ rs[q].closes = runtimes[q].closes
                 /\ rs[q].owner = runtimes[q].owner /\ rs[q].step = runtimes[q].step
                 /\ runtimes[q].disposed => rs[q].disposed
           /\ \A q \in 1..Len(rs) : rs[q].disposed <=> q # r
           /\ \A q \in 1..Len(rs) : rs[q].step \in Gone => rs[q].disposed
           /\ Serves(v) => rs = runtimes /\ r = current
           /\ ~Serves(v) => r = Len(runtimes) + 1 /\ rs[r].step = "idle"
  <1>0. rs \in Seq(Runtime) /\ r \in 1..Len(rs) /\ rs[r].vault = v /\ Len(rs) \in Nat
    BY RuntimesTyped
  <1>1. CASE Serves(v)
    <2>1. rs = runtimes /\ r = current
      BY <1>1 DEF WithRuntime, RuntimeOf
    <2> QED
      BY <1>0, <1>1, <2>1 DEF RuntimesReplaced, RuntimeIds
  <1>2. CASE ~Serves(v)
    <2>1. PICK s : s = [q \in RuntimeIds |->
                    IF q = current THEN [runtimes[q] EXCEPT !.disposed = TRUE]
                    ELSE runtimes[q]]
      OBVIOUS
    <2>2. ASSUME NEW q \in RuntimeIds
          PROVE  /\ s[q] \in Runtime /\ s[q].disposed
                 /\ s[q].vault = runtimes[q].vault /\ s[q].closes = runtimes[q].closes
                 /\ s[q].owner = runtimes[q].owner /\ s[q].step = runtimes[q].step
      <3>1. runtimes[q] \in Runtime /\ (q # current => runtimes[q].disposed)
        BY RuntimeIs DEF RuntimesReplaced
      <3>2. PICK e : e = [runtimes[q] EXCEPT !.disposed = TRUE]
        OBVIOUS
      <3>3. /\ e \in Runtime /\ e.disposed /\ e.vault = runtimes[q].vault
            /\ e.closes = runtimes[q].closes /\ e.owner = runtimes[q].owner
            /\ e.step = runtimes[q].step
        BY <3>1, <3>2 DEF Runtime
      <3>4. s[q] = IF q = current THEN e ELSE runtimes[q]
        BY <2>1, <3>2
      <3> QED
        BY <3>1, <3>3, <3>4
    <2>3. s \in Seq(Runtime) /\ Len(s) = Len(runtimes) /\ Len(runtimes) \in Nat
      BY <2>1, <2>2 DEF RuntimeTyped, RuntimeIds
    <2>4. PICK n : n = NewRuntime(v)
      OBVIOUS
    <2>5. n \in Runtime /\ n.step = "idle" /\ ~n.disposed
      BY <2>4 DEF NewRuntime, Runtime
    <2>6. rs = Append(s, n) /\ r = Len(runtimes) + 1
      BY <1>2, <2>1, <2>4 DEF WithRuntime, RuntimeOf
    <2>7. /\ Len(rs) = Len(runtimes) + 1 /\ rs[r] = n
          /\ \A q \in RuntimeIds : rs[q] = s[q]
      BY <2>3, <2>5, <2>6, Grown DEF RuntimeIds
    <2>8. \A q \in 1..Len(rs) : q = r \/ q \in RuntimeIds
      BY <2>3, <2>6, <2>7 DEF RuntimeIds
    <2>9. \A q \in RuntimeIds : q # r
      BY <2>3, <2>6 DEF RuntimeIds
    <2>10. \A q \in 1..Len(rs) : rs[q].disposed <=> q # r
      BY <2>2, <2>5, <2>7, <2>8, <2>9
    <2>11. \A q \in 1..Len(rs) : rs[q].step \in Gone => rs[q].disposed
      BY <2>2, <2>5, <2>7, <2>8 DEF Gone
    <2>12. \A q \in RuntimeIds :
                 /\ rs[q].vault = runtimes[q].vault /\ rs[q].closes = runtimes[q].closes
                 /\ rs[q].owner = runtimes[q].owner /\ rs[q].step = runtimes[q].step
                 /\ runtimes[q].disposed => rs[q].disposed
      BY <2>2, <2>7
    <2>13. r = Len(runtimes) + 1 /\ rs[r].step = "idle" /\ Len(runtimes) <= Len(rs)
      BY <2>3, <2>5, <2>6, <2>7
    <2> QED
      BY <1>0, <1>2, <2>10, <2>11, <2>12, <2>13
  <1> QED
    BY <1>1, <1>2

(* One runtime gets an owner, or connects. *)
LEMMA OnwardWith ==
    ASSUME RuntimeTyped, RuntimesReplaced, NEW v \in Vaults,
           NEW rs, rs = WithRuntime(v), NEW r, r = RuntimeOf(v), NEW e \in Runtime,
           runtimes' = [rs EXCEPT ![r] = e], current' = r,
           e.vault = v, e.disposed = rs[r].disposed, rs[r].closes => e.closes,
           rs[r].owner => e.owner,
           e.step = rs[r].step \/ (rs[r].step = "idle" /\ e.step = "waiting")
    PROVE  /\ Onward /\ RuntimesReplaced' /\ RuntimeTyped' /\ Serves(v)'
           /\ runtimes'[current'] = e /\ current' \in RuntimeIds'
  <1>1. /\ rs \in Seq(Runtime) /\ r \in 1..Len(rs) /\ rs[r].vault = v
        /\ Len(runtimes) <= Len(rs) /\ Len(rs) \in Nat
        /\ \A q \in RuntimeIds :
                 /\ rs[q].vault = runtimes[q].vault /\ rs[q].closes = runtimes[q].closes
                 /\ rs[q].owner = runtimes[q].owner /\ rs[q].step = runtimes[q].step
                 /\ runtimes[q].disposed => rs[q].disposed
        /\ \A q \in 1..Len(rs) : rs[q].disposed <=> q # r
        /\ \A q \in 1..Len(rs) : rs[q].step \in Gone => rs[q].disposed
    BY WithRuntimeIs
  <1>2. /\ runtimes' \in Seq(Runtime) /\ Len(runtimes') = Len(rs) /\ runtimes'[r] = e
        /\ \A q \in 1..Len(rs) : q # r => runtimes'[q] = rs[q]
    BY <1>1, Replaced
  <1>3. RuntimeIds' = 1..Len(rs) /\ \A q \in RuntimeIds : q \in RuntimeIds'
    BY <1>1, <1>2 DEF RuntimeIds, RuntimeTyped
  <1>4. \A q \in RuntimeIds' :
           /\ runtimes'[q].vault = rs[q].vault /\ runtimes'[q].disposed = rs[q].disposed
           /\ rs[q].closes => runtimes'[q].closes
           /\ rs[q].owner => runtimes'[q].owner
           /\ \/ runtimes'[q].step = rs[q].step
              \/ rs[q].step = "idle" /\ runtimes'[q].step = "waiting"
    BY <1>1, <1>2, <1>3
  <1>5. RuntimesReplaced'
    BY <1>1, <1>3, <1>4 DEF RuntimesReplaced, Gone
  <1>6. Onward
    BY <1>1, <1>3, <1>4 DEF Onward, Gone, Lasts
  <1>7. RuntimeTyped' /\ Serves(v)' /\ current' \in RuntimeIds'
    BY <1>1, <1>2, <1>3 DEF RuntimeTyped, Serves
  <1> QED
    BY <1>2, <1>5, <1>6, <1>7

(* Nothing changes. *)
LEMMA OnwardSame ==
    ASSUME RuntimeTyped, UNCHANGED runtimes
    PROVE  /\ Onward
           /\ RuntimeIds' = RuntimeIds
           /\ RuntimesReplaced /\ current' = current => RuntimesReplaced'
  <1>1. Onward
    BY DEF Onward, RuntimeIds, Lasts
  <1> QED
    BY <1>1 DEF RuntimesReplaced, RuntimeIds

(* What a binding leaves of runtimes and payment. *)
LEMMA BindOnward ==
    ASSUME IInv, RuntimesReplaced, NEW lock \in BOOLEAN, NEW acct \in MaybeVault, Bind(lock, acct)
    PROVE  /\ Onward /\ Pays /\ RuntimesReplaced' /\ RuntimeTyped'
           /\ IF Identity(lock, acct) = NoVault THEN UNCHANGED runtimeVars
              ELSE Serves(acct)' /\ runtimes'[current'].owner
  <1>1. PICK v : v = Identity(lock, acct) /\ v \in MaybeVault /\ (v # NoVault => v = acct)
    BY DEF Identity, MaybeVault
  <1>2. /\ CancelPayment \/ UNCHANGED paymentVars
        /\ IF v = NoVault THEN UNCHANGED runtimeVars
           ELSE /\ current' = RuntimeOf(v)
                /\ runtimes' = [WithRuntime(v) EXCEPT ![RuntimeOf(v)].owner = TRUE]
    BY <1>1 DEF Bind
  <1>3. Pays
    BY <1>2, CancelPays
  <1>a. RuntimeTyped
    BY PartsTyped
  <1>4. CASE v = NoVault
    BY <1>1, <1>2, <1>3, <1>4, <1>a, OnwardSame DEF runtimeVars, RuntimeTyped
  <1>5. CASE v # NoVault
    <2>1. PICK rs, r : rs = WithRuntime(v) /\ r = RuntimeOf(v)
      OBVIOUS
    <2>2. v \in Vaults
      BY <1>1, <1>5 DEF MaybeVault
    <2>3. rs \in Seq(Runtime) /\ r \in 1..Len(rs) /\ rs[r].vault = v
      BY <1>a, <2>1, <2>2, RuntimesTyped
    <2>4. PICK e : e = [rs[r] EXCEPT !.owner = TRUE]
      OBVIOUS
    <2>5. rs[r] \in Runtime
      BY <2>3
    <2>6. /\ e \in Runtime /\ e.vault = v /\ e.disposed = rs[r].disposed
          /\ e.closes = rs[r].closes /\ e.owner = TRUE /\ e.step = rs[r].step
      BY <2>3, <2>4, <2>5 DEF Runtime
    <2>7. runtimes' = [rs EXCEPT ![r] = e] /\ current' = r
      BY <1>2, <1>5, <2>1, <2>4
    <2>8. /\ Onward /\ RuntimesReplaced' /\ RuntimeTyped' /\ Serves(v)'
          /\ runtimes'[current'] = e
      BY <1>a, <2>1, <2>2, <2>6, <2>7, OnwardWith
    <2> QED
      BY <1>1, <1>3, <1>5, <2>6, <2>8
  <1> QED
    BY <1>4, <1>5

(* So a binding serves the payment and the account. *)
LEMMA BindServes ==
    ASSUME IInv, Served, locked' \in BOOLEAN, account' \in MaybeVault, Bind(locked', account')
    PROVE  Onward /\ Pays /\ Served' /\ RuntimeTyped'
  <1>1. PICK lock \in BOOLEAN, acct \in MaybeVault :
           lock = locked' /\ acct = account' /\ Bind(lock, acct)
    OBVIOUS
  <1>2. /\ Onward /\ Pays /\ RuntimesReplaced' /\ RuntimeTyped'
        /\ IF Identity(lock, acct) = NoVault THEN UNCHANGED runtimeVars
              ELSE Serves(acct)' /\ runtimes'[current'].owner
    BY <1>1, BindOnward DEF Served
  <1>3. Open' => Identity(lock, acct) # NoVault
    BY <1>1 DEF Open, Identity
  <1>4. Serves(acct)' => Serves(account)'
    BY <1>1 DEF Serves
  <1>5. CommandServed'
    BY <1>2, <1>3, <1>4, PartsTyped, ServedOn DEF Served
  <1> QED
    BY <1>2, <1>5 DEF Served

(* A command that is stuck stays stuck. *)
StuckOn == Stuck => Stuck' /\ command'.runtime = command.runtime

(* What a step does for the runtimes: it keeps what was served. *)
Serving == Onward /\ Served' /\ RuntimeTyped' /\ StuckOn

(* The payment goes on, and the runtimes too. *)
LEMMA ServesOn ==
    ASSUME RuntimeTyped, RuntimeTyped', Served, Onward, Pays, RuntimesReplaced',
           \/ ~Open'
           \/ current' = current /\ UNCHANGED <<locked, account>>
           \/ Serves(account)' /\ runtimes'[current'].owner
    PROVE  Serving
  BY ServedOn, StuckStays DEF Serving, StuckOn, Served

(* Where runtimes, payment and session stay as they are. *)
LEMMA ServesSame ==
    ASSUME IInv, Served, UNCHANGED <<locked, account, runtimes, current, command>>
    PROVE  Serving
  <1>1. RuntimeTyped /\ RuntimeTyped'
    BY PartsTyped DEF RuntimeTyped
  <1>2. Onward /\ RuntimesReplaced'
    BY <1>1, OnwardSame DEF Served
  <1>3. Pays
    BY DEF Pays
  <1> QED
    BY <1>1, <1>2, <1>3, ServesOn

(* Where the session is bound. *)
LEMMA ServesBound ==
    ASSUME IInv, Served, locked' \in BOOLEAN, account' \in MaybeVault, Bind(locked', account')
    PROVE  /\ Serving
           /\ IF Open' THEN current' # 0 /\ runtimes'[current'].vault = account'
              ELSE UNCHANGED runtimeVars
  <1>1. PICK lock \in BOOLEAN, acct \in MaybeVault :
           lock = locked' /\ acct = account' /\ Bind(lock, acct)
    OBVIOUS
  <1>2. /\ Onward /\ Pays /\ RuntimesReplaced' /\ RuntimeTyped'
        /\ IF Identity(lock, acct) = NoVault THEN UNCHANGED runtimeVars
              ELSE Serves(acct)' /\ runtimes'[current'].owner
    BY <1>1, BindOnward DEF Served
  <1>3. Open' <=> Identity(lock, acct) # NoVault
    BY <1>1 DEF Open, Identity
  <1>4. Serves(acct)' => Serves(account)'
    BY <1>1 DEF Serves
  <1>5. Serving
    BY <1>2, <1>3, <1>4, PartsTyped, ServesOn
  <1> QED
    BY <1>1, <1>2, <1>3, <1>5 DEF Serves

(* A runtime at another step. *)
LEMMA RuntimeAtStep ==
    ASSUME RuntimeTyped, NEW r \in RuntimeIds,
           NEW step \in {"idle", "waiting", "creating", "open", "retired", "broken"},
           runtimes' = [runtimes EXCEPT ![r].step = step], current' = current
    PROVE  /\ RuntimeTyped' /\ RuntimeIds' = RuntimeIds /\ runtimes'[r].step = step
           /\ \A q \in RuntimeIds :
                 /\ runtimes'[q].vault = runtimes[q].vault
                 /\ runtimes'[q].disposed = runtimes[q].disposed
                 /\ runtimes'[q].closes = runtimes[q].closes
                 /\ runtimes'[q].owner = runtimes[q].owner
                 /\ q # r => runtimes'[q].step = runtimes[q].step
  <1>1. runtimes[r] \in Runtime
    BY DEF RuntimeTyped, RuntimeIds
  <1>2. PICK e : e = [runtimes[r] EXCEPT !.step = step]
    OBVIOUS
  <1>3. /\ e \in Runtime /\ e.step = step /\ e.vault = runtimes[r].vault
        /\ e.disposed = runtimes[r].disposed /\ e.closes = runtimes[r].closes
        /\ e.owner = runtimes[r].owner
    BY <1>1, <1>2 DEF Runtime
  <1>4. runtimes' = [runtimes EXCEPT ![r] = e]
    BY <1>2
  <1>5. /\ runtimes' \in Seq(Runtime) /\ Len(runtimes') = Len(runtimes) /\ runtimes'[r] = e
        /\ \A q \in 1..Len(runtimes) : q # r => runtimes'[q] = runtimes[q]
    BY <1>3, <1>4, Replaced DEF RuntimeTyped, RuntimeIds
  <1>6. RuntimeTyped' /\ RuntimeIds' = RuntimeIds
    BY <1>5 DEF RuntimeTyped, RuntimeIds
  <1> QED
    BY <1>3, <1>5, <1>6 DEF RuntimeIds

(* A runtime that registers its worker: everything before it is gone. *)
LEMMA RegistersIs ==
    ASSUME IInv, NEW r \in RuntimeIds, RegistersWorker(r)
    PROVE  runtimes[r].step = "waiting" /\ \A q \in 1..(r - 1) : runtimes[q].step \in Gone
  BY DEF RegistersWorker, Gone

(* The steps of a runtime. *)
LEMMA RuntimeServes ==
    ASSUME IInv, Served, NEW r \in RuntimeIds, RuntimeStep(r)
    PROVE  Serving
  <1>a. RuntimeTyped
    BY PartsTyped
  <1>1. /\ UNCHANGED <<locked, account, current, command>>
        /\ \E step \in {"idle", "creating", "open", "retired", "broken"} :
              /\ runtimes' = [runtimes EXCEPT ![r].step = step]
              /\ \/ /\ step \in {"idle", "creating"} /\ runtimes[r].step = "waiting"
                    /\ \A q \in 1..(r - 1) : runtimes[q].step \in Gone
                 \/ step \in {"idle", "open"} /\ runtimes[r].step = "creating"
                 \/ /\ runtimes[r].disposed /\ runtimes[r].step \in {"idle", "open"}
                    /\ runtimes[r].owner => command = NoCommand
    <2>1. CASE RegistersWorker(r)
      BY <2>1, RegistersIs DEF RegistersWorker, sessionVars, paymentVars
    <2>2. CASE ConnectionCreated(r)
      BY <2>2 DEF ConnectionCreated, sessionVars, paymentVars
    <2>3. CASE Retires(r)
      BY <2>3 DEF Retires, sessionVars, paymentVars
    <2> QED
      BY <2>1, <2>2, <2>3 DEF RuntimeStep
  <1>2. PICK step \in {"idle", "creating", "open", "retired", "broken"} :
              /\ runtimes' = [runtimes EXCEPT ![r].step = step]
              /\ \/ /\ step \in {"idle", "creating"} /\ runtimes[r].step = "waiting"
                    /\ \A q \in 1..(r - 1) : runtimes[q].step \in Gone
                 \/ step \in {"idle", "open"} /\ runtimes[r].step = "creating"
                 \/ /\ runtimes[r].disposed /\ runtimes[r].step \in {"idle", "open"}
                    /\ runtimes[r].owner => command = NoCommand
    BY <1>1
  <1>3. /\ RuntimeTyped' /\ RuntimeIds' = RuntimeIds /\ runtimes'[r].step = step
        /\ \A q \in RuntimeIds :
                 /\ runtimes'[q].vault = runtimes[q].vault
                 /\ runtimes'[q].disposed = runtimes[q].disposed
                 /\ runtimes'[q].closes = runtimes[q].closes
                 /\ runtimes'[q].owner = runtimes[q].owner
                 /\ q # r => runtimes'[q].step = runtimes[q].step
    BY <1>a, <1>1, <1>2, RuntimeAtStep
  <1>4. Onward
    BY <1>2, <1>3 DEF Onward, Gone, Lasts
  <1>5. RuntimesReplaced'
    BY <1>1, <1>2, <1>3 DEF Served, RuntimesReplaced, Gone
  <1>6. Pays
    BY <1>1 DEF Pays
  <1> QED
    BY <1>a, <1>1, <1>3, <1>4, <1>5, <1>6, ServesOn

(* A runtime that connects. *)
LEMMA ConnectingIs ==
    ASSUME NEW rs \in Seq(Runtime), NEW r \in 1..Len(rs)
    PROVE  \E e \in Runtime :
              /\ Connecting(rs, r) = [rs EXCEPT ![r] = e]
              /\ e.vault = rs[r].vault /\ e.disposed = rs[r].disposed /\ e.closes = TRUE
              /\ e.owner = rs[r].owner
              /\ e.step = IF rs[r].step = "idle" THEN "waiting" ELSE rs[r].step
  <1>1. PICK e : e = [rs[r] EXCEPT !.step = IF @ = "idle" THEN "waiting" ELSE @,
                                    !.closes = TRUE]
    OBVIOUS
  <1>2. rs[r] \in Runtime
    OBVIOUS
  <1>3. /\ e \in Runtime /\ e.vault = rs[r].vault /\ e.disposed = rs[r].disposed
        /\ e.closes = TRUE /\ e.owner = rs[r].owner
        /\ e.step = IF rs[r].step = "idle" THEN "waiting" ELSE rs[r].step
    BY <1>1, <1>2 DEF Runtime
  <1>4. Connecting(rs, r) = [rs EXCEPT ![r] = e]
    BY <1>1 DEF Connecting
  <1> QED
    BY <1>3, <1>4

(* A view connects the runtime of its account. *)
LEMMA ViewServes ==
    ASSUME IInv, Served, ViewConnects
    PROVE  Serving /\ current' = current
  <1>a. RuntimeTyped /\ UNCHANGED <<current, locked, account, command>>
    BY PartsTyped DEF ViewConnects, sessionVars, paymentVars
  <1>1. account \in Vaults /\ Serves(account) /\ current \in 1..Len(runtimes)
    BY PartsTyped DEF ViewConnects, Open, Identity, SessionTyped, MaybeVault, Serves, RuntimeTyped
  <1>2. PICK rs, r : rs = WithRuntime(account) /\ r = RuntimeOf(account)
    OBVIOUS
  <1>3. rs = runtimes /\ r = current
    BY <1>1, <1>2 DEF WithRuntime, RuntimeOf
  <1>4. PICK e \in Runtime :
              /\ Connecting(rs, r) = [rs EXCEPT ![r] = e]
              /\ e.vault = rs[r].vault /\ e.disposed = rs[r].disposed /\ e.closes = TRUE
              /\ e.owner = rs[r].owner
              /\ e.step = IF rs[r].step = "idle" THEN "waiting" ELSE rs[r].step
    BY <1>a, <1>1, <1>3, ConnectingIs DEF RuntimeTyped
  <1>5. runtimes' = [rs EXCEPT ![r] = e] /\ current' = r /\ e.vault = account
    BY <1>a, <1>1, <1>3, <1>4 DEF ViewConnects, Serves
  <1>6. Onward /\ RuntimesReplaced' /\ RuntimeTyped'
    BY <1>a, <1>1, <1>2, <1>4, <1>5, OnwardWith DEF Served
  <1>7. Pays
    BY <1>a DEF Pays
  <1> QED
    BY <1>a, <1>6, <1>7, ServesOn

(* A clean-up stops the runtime in use. *)
LEMMA StopServes ==
    ASSUME IInv, Served, NEW t \in TaskIds, NEW v, StopWorker(t, v), Serves(v)
    PROVE  /\ Serving /\ current \in RuntimeIds /\ runtimes'[current].closes
           /\ runtimes'[current].disposed /\ current' = 0
           /\ runtimes'[current].step = runtimes[current].step
  <1>a. RuntimeTyped /\ locked /\ locked' = locked
    BY PartsTyped, CleanerAt DEF StopWorker, sessionVars
  <1>1. current \in RuntimeIds /\ current \in Nat
    BY <1>a DEF Serves, RuntimeTyped, RuntimeIds
  <1>2. PICK e : e = [runtimes[current] EXCEPT !.disposed = TRUE, !.closes = TRUE]
    OBVIOUS
  <1>3. /\ e \in Runtime /\ e.disposed /\ e.closes /\ e.vault = runtimes[current].vault
        /\ e.owner = runtimes[current].owner /\ e.step = runtimes[current].step
    BY <1>a, <1>1, <1>2, RuntimeIs DEF Runtime
  <1>4. runtimes' = [runtimes EXCEPT ![current] = e] /\ current' = 0
    BY <1>2 DEF StopWorker
  <1>5. /\ runtimes' \in Seq(Runtime) /\ Len(runtimes') = Len(runtimes)
        /\ runtimes'[current] = e
        /\ \A q \in 1..Len(runtimes) : q # current => runtimes'[q] = runtimes[q]
    BY <1>a, <1>1, <1>3, <1>4, Replaced DEF RuntimeTyped, RuntimeIds
  <1>6. RuntimeTyped' /\ RuntimeIds' = RuntimeIds
    BY <1>4, <1>5 DEF RuntimeTyped, RuntimeIds
  <1>7. \A q \in RuntimeIds : /\ runtimes'[q].vault = runtimes[q].vault
                              /\ runtimes'[q].owner = runtimes[q].owner
                              /\ runtimes'[q].step = runtimes[q].step
                              /\ runtimes[q].closes => runtimes'[q].closes
                              /\ runtimes'[q].disposed
    BY <1>3, <1>5 DEF RuntimeIds, Served, RuntimesReplaced
  <1>8. Onward
    BY <1>6, <1>7 DEF Onward, Lasts
  <1>9. RuntimesReplaced'
    <2>1. \A q \in RuntimeIds : q # 0
      BY <1>a, RuntimeIs
    <2> QED
      BY <1>4, <1>6, <1>7, <2>1 DEF RuntimesReplaced
  <1>10. Pays
    BY CancelPays DEF StopWorker
  <1>11. ~Open'
    BY <1>a DEF Open, Identity
  <1> QED
    BY <1>a, <1>1, <1>3, <1>4, <1>5, <1>6, <1>8, <1>9, <1>10, <1>11, ServesOn

(* A review is asked for, of the account that is open. *)
LEMMA ReviewServes ==
    ASSUME IInv, Served, Review
    PROVE  Serving /\ UNCHANGED runtimeVars
  <1>a. RuntimeTyped /\ UNCHANGED <<locked, account, runtimes, current>> /\ Open
    BY PartsTyped DEF Review, sessionVars, runtimeVars
  <1>1. /\ command = NoCommand /\ command'.vault = account /\ command'.step # "wallet"
    BY DEF Review
  <1>2. Serves(account) /\ runtimes[current].owner
    BY <1>a, <1>1 DEF Served, CommandServed, Stuck
  <1>3. current \in RuntimeIds /\ runtimes[current].vault = account
    BY <1>a, <1>2 DEF Serves, RuntimeTyped, RuntimeIds
  <1>4. Lasts(current)
    BY <1>2, <1>3 DEF Lasts, Served, RuntimesReplaced
  <1>5. Onward /\ RuntimesReplaced' /\ RuntimeIds' = RuntimeIds /\ RuntimeTyped'
    BY <1>a, OnwardSame DEF Served, RuntimeTyped
  <1>6. Lasts(current)' /\ runtimes'[current].vault = command'.vault
    BY <1>a, <1>1, <1>3, <1>4 DEF Lasts
  <1>7. Serves(account)' /\ runtimes'[current'].owner
    BY <1>a, <1>2 DEF Serves
  <1>8. CommandServed'
    BY <1>a, <1>3, <1>5, <1>6, <1>7 DEF CommandServed
  <1> QED
    BY <1>a, <1>1, <1>5, <1>8 DEF Serving, Served, StuckOn, Stuck, runtimeVars

(* The payment command ends, or goes on to its quote: it was not stuck. *)
LEMMA PaymentServes ==
    ASSUME IInv, Served, WalletReady \/ QuoteFails \/ CancelReview \/ Quoted
    PROVE  Serving /\ UNCHANGED runtimeVars
  <1>a. RuntimeTyped /\ UNCHANGED <<locked, account, runtimes, current>>
    BY PartsTyped DEF WalletReady, QuoteFails, CancelReview, Quoted, sessionVars, runtimeVars
  <1>5. Onward /\ RuntimesReplaced' /\ RuntimeIds' = RuntimeIds /\ RuntimeTyped'
    BY <1>a, OnwardSame DEF Served, RuntimeTyped
  <1>1. CASE CancelReview
    <2>1. Pays
      BY <1>1, CancelPays DEF CancelReview
    <2> QED
      BY <1>a, <1>5, <2>1, ServesOn DEF runtimeVars
  <1>2. ASSUME ~Stuck, \/ command' = NoCommand
                       \/ /\ command # NoCommand
                          /\ command' = [command EXCEPT !.step = "quote"]
        PROVE  Serving /\ UNCHANGED runtimeVars
    <2>1. command' # NoCommand => command # NoCommand /\ command'.vault = command.vault
      <3>1. command # NoCommand => command \in PaymentCommand
        BY PartsTyped DEF PaymentTyped
      <3> QED
        BY <1>2, <3>1 DEF PaymentCommand
    <2>2. CommandServed'
      BY <1>a, <1>2, <1>5, <2>1 DEF Served, CommandServed, Lasts, Open, Identity, Serves
    <2> QED
      BY <1>a, <1>2, <1>5, <2>2 DEF Serving, Served, StuckOn, runtimeVars
  <1>3. CASE WalletReady \/ QuoteFails \/ Quoted
    BY <1>2, <1>3 DEF WalletReady, QuoteFails, Quoted, Stuck
  <1> QED
    BY <1>1, <1>3

(* The lock is granted: the command connects the runtime in use, or waits for  *)

(* the one that keeps it, and is stuck.                                        *)
LEMMA GrantServes ==
    ASSUME IInv, Served, LockGranted
    PROVE  Serving /\ (current' = current \/ StuckInUse') /\ ~Stuck
  <1>a. /\ RuntimeTyped /\ PaymentTyped /\ command \in PaymentCommand
        /\ NoCommand \notin PaymentCommand
        /\ UNCHANGED <<locked, account>> /\ ~Stuck /\ command # NoCommand
    BY PartsTyped DEF LockGranted, PaymentTyped, sessionVars, Stuck
  <1>b. command.vault \in Vaults
    BY <1>a DEF PaymentCommand
  <1>1. PICK rs, r : rs = WithRuntime(command.vault) /\ r = RuntimeOf(command.vault)
    OBVIOUS
  <1>2. /\ rs \in Seq(Runtime) /\ r \in 1..Len(rs) /\ rs[r].vault = command.vault
        /\ Serves(command.vault) => rs = runtimes /\ r = current
        /\ ~Serves(command.vault) => r = Len(runtimes) + 1 /\ rs[r].step = "idle"
    BY <1>1, <1>a, <1>b, WithRuntimeIs DEF Served
  <1>3. /\ runtimes' = Connecting(rs, r) /\ current' = r
        /\ command' = [command EXCEPT !.step = "wallet", !.runtime = r]
    BY <1>1 DEF LockGranted
  <1>4. PICK e \in Runtime :
              /\ Connecting(rs, r) = [rs EXCEPT ![r] = e]
              /\ e.vault = rs[r].vault /\ e.disposed = rs[r].disposed /\ e.closes = TRUE
              /\ e.owner = rs[r].owner
              /\ e.step = IF rs[r].step = "idle" THEN "waiting" ELSE rs[r].step
    BY <1>2, ConnectingIs
  <1>5. /\ Onward /\ RuntimesReplaced' /\ RuntimeTyped' /\ runtimes'[current'] = e
        /\ current' \in RuntimeIds'
    <2>1. PICK v \in Vaults : v = command.vault
      BY <1>b
    <2>2. Onward /\ RuntimesReplaced' /\ RuntimeTyped' /\ Serves(v)' /\ runtimes'[current'] = e
          /\ current' \in RuntimeIds'
      BY <1>a, <1>1, <1>2, <1>3, <1>4, <2>1, OnwardWith DEF Served
    <2> QED
      BY <2>2
  <1>6. /\ command' \in PaymentCommand /\ command'.vault = command.vault
        /\ command'.step = "wallet" /\ command'.runtime = r /\ command' # NoCommand
    <2>1. r \in Nat
      BY <1>2
    <2>2. command' \in PaymentCommand
      BY <1>3, <1>a, <2>1 DEF PaymentCommand
    <2> QED
      BY <1>3, <1>a, <2>2 DEF PaymentCommand
  <1>7. PICK q \in RuntimeIds : Lasts(q) /\ runtimes[q].vault = command.vault
    BY <1>a DEF Served, CommandServed
  <1>8. q \in RuntimeIds' /\ Lasts(q)' /\ runtimes'[q].vault = command'.vault
    BY <1>5, <1>6, <1>7, <1>a DEF Onward, Lasts
  <1>9. CASE Serves(command.vault)
    <2>1. current' = current /\ current \in RuntimeIds
      BY <1>2, <1>3, <1>9, <1>a DEF Serves, RuntimeTyped, RuntimeIds
    <2>2. Open' => Serves(account)' /\ runtimes'[current'].owner
      BY <1>a, <1>5, <2>1 DEF Served, CommandServed, Onward, Serves, Open, Identity
    <2> QED
      BY <1>a, <1>5, <1>6, <1>8, <2>1, <2>2 DEF Serving, Served, CommandServed, StuckOn
  <1>10. CASE ~Serves(command.vault)
    <2>1. q \in 1..(r - 1)
      BY <1>2, <1>7, <1>10, <1>a DEF RuntimeIds, RuntimeTyped
    <2>2. runtimes'[r].step = "waiting"
      BY <1>2, <1>3, <1>4, <1>5, <1>10
    <2>3. StuckInUse'
      BY <1>3, <1>5, <1>6, <1>8, <2>1, <2>2 DEF StuckInUse, Stuck
    <2> QED
      BY <1>a, <1>5, <1>6, <1>8, <2>3 DEF Serving, Served, CommandServed, StuckOn, StuckInUse
  <1> QED
    BY <1>9, <1>10, <1>a

(* The runtime that a step leaves in use: the same one, none, one that the     *)
(* command is stuck with, or that of the account that is open.                 *)
UseOn ==
    \/ current' = 0 \/ current' = current \/ StuckInUse'
    \/ Open' /\ runtimes'[current'].vault = account'

(* A step binds the session, or leaves it alone. *)
Unbound == UNCHANGED <<locked, account, runtimes, current, command>>

(* A step of a command. *)
LEMMA CommandBinds ==
    ASSUME NEW t \in TaskIds, CommandStep(t)
    PROVE  Unbound \/ Bind(locked', account')
  <1>1. ASSUME NEW v, Accept(v) PROVE Bind(locked', account')
    BY <1>1 DEF Accept
  <1>2. ASSUME NEW v, ShowAccount(v), locked' = locked PROVE Bind(locked', account')
    BY <1>2 DEF ShowAccount
  <1>3. CASE CommandDropped(t) \/ CommandFails(t) \/ BootLooksUp(t) \/ KeyStaged(t) \/ Finished(t)
             \/ AfterAccept(t)
    BY <1>3 DEF CommandDropped, CommandFails, BootLooksUp, KeyStaged, Finished, AfterAccept,
       Unbound, sessionVars, runtimeVars, paymentVars
  <1>4. CASE SignInRuns(t) \/ EnrollRuns(t) \/ RegisterRuns(t) \/ PromptRuns(t) \/ Authorized(t)
             \/ Proposed(t)
    BY <1>4 DEF SignInRuns, EnrollRuns, RegisterRuns, PromptRuns, Authorized, Proposed,
       Unbound, runtimeVars, paymentVars
  <1>5. CASE BootRuns(t)
    BY <1>5 DEF BootRuns
  <1>6. CASE KeyProvisioned(t)
    BY <1>1, <1>2, <1>6 DEF KeyProvisioned, Unbound, runtimeVars, paymentVars
  <1>7. CASE StatusFetched(t)
    BY <1>1, <1>2, <1>7 DEF StatusFetched, Unbound, sessionVars, runtimeVars, paymentVars
  <1>8. CASE Activated(t)
    BY <1>1, <1>8 DEF Activated, Unbound, sessionVars, runtimeVars, paymentVars
  <1> QED
    BY <1>3, <1>4, <1>5, <1>6, <1>7, <1>8 DEF CommandStep

(* A task that is added. *)
LEMMA AddsBind ==
    ASSUME Adds
    PROVE  Unbound \/ Bind(locked', account')
  <1>1. ASSUME NEW s, NEW r, TearDown(tasks, s, r), account' = account PROVE Bind(locked', account')
    BY <1>1 DEF TearDown
  <1>2. CASE Release \/ SignOut \/ ChangePlan
    BY <1>1, <1>2 DEF Release, SignOut, ChangePlan
  <1>3. CASE Retain \/ SignIn \/ ConnectLedger \/ Enroll \/ RegisterLedger \/ EnablePasskey
    BY <1>3 DEF Retain, SignIn, ConnectLedger, Enroll, RegisterLedger, EnablePasskey, Calls,
       Unbound, sessionVars, runtimeVars, paymentVars
  <1>4. ASSUME NEW v \in Vaults, Restore(v) PROVE Unbound \/ Bind(locked', account')
    BY <1>4 DEF Restore, Unbound, runtimeVars, paymentVars
  <1> QED
    BY <1>2, <1>3, <1>4 DEF Adds

(* A teardown leaves the session and, but for the one it stops, the runtimes.  *)
LEMMA TeardownServes ==
    ASSUME IInv, Served, NEW t \in TaskIds, TeardownStep(t)
    PROVE  Serving /\ UseOn
  <1>1. CASE \E v \in Vaults : StopWorker(t, v) /\ Serves(v)
    BY <1>1, StopServes DEF UseOn
  <1>2. CASE Unbound
    BY <1>2, ServesSame DEF Unbound, UseOn
  <1>3. CASE StartCleaning(t) \/ CleaningEnds(t) \/ WorkerStopped(t) \/ StopFails(t) \/ DropKey(t)
    BY <1>2, <1>3 DEF StartCleaning, CleaningEnds, WorkerStopped, StopFails, DropKey, Unbound,
       sessionVars, runtimeVars, paymentVars
  <1>4. ASSUME NEW v \in Vaults, StopWorker(t, v), ~Serves(v) PROVE Serving /\ UseOn
    BY <1>2, <1>4 DEF StopWorker, Unbound, sessionVars, runtimeVars, paymentVars
  <1> QED
    BY <1>1, <1>3, <1>4 DEF TeardownStep

(* Every step but a reload serves the payment and the account. *)
LEMMA NextServes ==
    ASSUME IInv, Served, Next, ~Reload
    PROVE  Serving /\ UseOn
  <1>0. locked' \in BOOLEAN /\ account' \in MaybeVault
    BY NextIInv DEF IInv, TypeOK
  <1>1. ASSUME Unbound \/ Bind(locked', account') PROVE Serving /\ UseOn
    <2>1. CASE Unbound
      BY <2>1, ServesSame DEF Unbound, UseOn
    <2>2. CASE Bind(locked', account')
      BY <1>0, <2>2, ServesBound DEF UseOn, runtimeVars
    <2> QED
      BY <1>1, <2>1, <2>2
  <1>2. CASE \E t \in TaskIds : CommandStep(t)
    BY <1>1, <1>2, CommandBinds
  <1>3. CASE Adds
    BY <1>1, <1>3, AddsBind
  <1>4. CASE CancelLedger \/ Hide \/ \E on \in BOOLEAN : SetPrivacyLock(on)
    BY <1>1, <1>4 DEF CancelLedger, Hide, SetPrivacyLock, Unbound, sessionVars, runtimeVars,
       paymentVars
  <1>5. CASE StatusRefreshed
    BY <1>1, <1>5 DEF StatusRefreshed, ShowAccount
  <1>6. CASE \E r \in RuntimeIds : RuntimeStep(r)
    <2>1. current' = current
      BY <1>6 DEF RuntimeStep, RegistersWorker, ConnectionCreated, Retires
    <2> QED
      BY <1>6, <2>1, RuntimeServes DEF UseOn
  <1>7. CASE ViewConnects \/ Review \/ LockGranted
    BY <1>7, ViewServes, ReviewServes, GrantServes DEF UseOn, runtimeVars
  <1>8. CASE WalletReady \/ QuoteFails \/ CancelReview \/ Quoted
    BY <1>8, PaymentServes DEF UseOn, runtimeVars
  <1> QED
    BY <1>2, <1>3, <1>4, <1>5, <1>6, <1>7, <1>8, NextIs, TeardownServes

-------------------------------------------------------------------------------
(* Commands register their vaults *)

(* No teardown so far was to keep a key. *)
Forgetful == \A t \in TaskIds : tasks[t].preserve = {}

(* Nothing has run yet: the first task of a page is its boot.                  *)
Fresh ==
    \/ tasks = <<>>
    \/ /\ Len(tasks) = 1 /\ tasks[1].kind = "boot" /\ tasks[1].step = "queued"
       /\ tasks[1].after = {} /\ ~tasks[1].aborted
BeforeBoot == Fresh =>
    /\ locked /\ targets = {} /\ runtimes = <<>> /\ command = NoCommand
    /\ draining = 0
    /\ tasks = <<>> => ~mounted
    /\ reloads = 0 =>
          /\ worker = {} /\ stored = {selected} \ {NoVault}
          /\ \A v \in Vaults : key[v] = "active" => v \in stored

(* A later boot is the first task after a teardown.                            *)
BootsFollow ==
    /\ ~mounted /\ tasks # <<>> => draining = Len(tasks)
    /\ \A t \in TaskIds :
          tasks[t].kind = "boot" /\ tasks[t].step = "queued" /\ ~tasks[t].aborted =>
             Fresh \/ (draining = t - 1 /\ draining \in tasks[t].after)

(* A command registers its vault, and a staged one that it finishes, before    *)
(* the request that writes for it; a vault that is proposed is not enrolled.   *)
Registers(c) ==
    /\ \/ c.step \in {"key", "finish", "after"}
       \/ c.kind # "boot" /\ c.step \in {"fetch", "activate"}
       => c.vault \in targets
    /\ c.step \in {"status", "activate"} => staged \in targets
Proposes(c) ==
    /\ c.kind = "enroll" /\ c.step = "queued" /\ ~c.aborted =>
          c.vault \notin enrolled \/ staged # NoVault
    /\ c.step \in {"stage", "propose"} => c.vault \notin enrolled
Commanding == \A t \in TaskIds : tasks[t].kind \in Commands =>
    Registers(tasks[t]) /\ Proposes(tasks[t]) /\ tasks[t].preserve = {}

(* Where a task is after a step of its command. *)
LEMMA EndsTo ==
    ASSUME IInv, NEW t \in TaskIds, EndsWith(t, tasks)
    PROVE  tasks'[t] = Over("ended") /\ tasks'[t].kind \notin Commands
  <1>1. tasks'[t] = Over("ended")
    BY TasksAre, OverIs, Replaced DEF EndsWith, TaskIds
  <1> QED
    BY <1>1, OverIs DEF Commands

(* One that goes on ... *)
LEMMA GoesTo ==
    ASSUME IInv, NEW t \in TaskIds, NEW step \in CommandSteps, Goes(t, step)
    PROVE  /\ tasks'[t].kind = tasks[t].kind /\ tasks'[t].vault = tasks[t].vault
           /\ tasks'[t].aborted = tasks[t].aborted /\ tasks'[t].preserve = tasks[t].preserve
           /\ tasks'[t].step = step
  <1>1. tasks[t] \in Task
    BY TasksAre
  <1>2. PICK c : c = [tasks[t] EXCEPT !.step = step]
    OBVIOUS
  <1>3. /\ c \in Task /\ c.kind = tasks[t].kind /\ c.vault = tasks[t].vault
        /\ c.aborted = tasks[t].aborted /\ c.preserve = tasks[t].preserve /\ c.step = step
    BY <1>1, <1>2 DEF Task
  <1>4. tasks'[t] = c
    <2>1. tasks' = [tasks EXCEPT ![t] = c]
      BY <1>2 DEF Goes
    <2> QED
      BY <1>3, <2>1, TasksAre, Replaced DEF TaskIds
  <1> QED
    BY <1>3, <1>4

(* ... and one that begins. *)
LEMMA BeginsTo ==
    ASSUME IInv, NEW t \in TaskIds, NEW v \in MaybeVault, NEW step \in CommandSteps,
           Begins(t, v, step)
    PROVE  /\ tasks'[t].kind = tasks[t].kind /\ tasks'[t].vault = v
           /\ tasks'[t].aborted = tasks[t].aborted /\ tasks'[t].preserve = tasks[t].preserve
           /\ tasks'[t].step = step
  <1>1. tasks[t] \in Task
    BY TasksAre
  <1>2. PICK c : c = [tasks[t] EXCEPT !.step = step, !.vault = v, !.after = {}]
    OBVIOUS
  <1>3. /\ c \in Task /\ c.kind = tasks[t].kind /\ c.vault = v
        /\ c.aborted = tasks[t].aborted /\ c.preserve = tasks[t].preserve /\ c.step = step
    BY <1>1, <1>2 DEF Task
  <1>4. tasks'[t] = c
    <2>1. tasks' = [tasks EXCEPT ![t] = c]
      BY <1>2 DEF Begins
    <2> QED
      BY <1>3, <2>1, TasksAre, Replaced DEF TaskIds
  <1> QED
    BY <1>3, <1>4

(* A step of a command keeps the targets, and what it has still to register.   *)
Lands(t) ==
    /\ targets \subseteq targets'
    /\ tasks'[t].kind \in Commands =>
          /\ tasks'[t].preserve = tasks[t].preserve
          /\ Registers(tasks[t])' /\ Proposes(tasks[t])'
    /\ ~tasks[t].aborted \/ staged' # NoVault \/ UNCHANGED <<staged, enrolled>>

(* A command that ends has nothing more to register. *)
LEMMA EndsLands ==
    ASSUME IInv, NEW t \in TaskIds, EndsWith(t, tasks), targets \subseteq targets',
           ~tasks[t].aborted \/ staged' # NoVault \/ UNCHANGED <<staged, enrolled>>
    PROVE  Lands(t)
  BY EndsTo DEF Lands

(* So one that is dropped, fails, or has come to its last step. *)
LEMMA DroppedLands ==
    ASSUME IInv, Commanding, NEW t \in TaskIds,
           CommandDropped(t) \/ CommandFails(t) \/ AfterAccept(t)
    PROVE  Lands(t)
  BY EndsLands DEF CommandDropped, CommandFails, AfterAccept, sessionVars, deviceVars

(* The boot that looks up the staged vault has made it a target. *)
LEMMA BootLands ==
    ASSUME IInv, Commanding, NEW t \in TaskIds, BootRuns(t)
    PROVE  Lands(t)
  <1>1. /\ tasks[t].kind = "boot" /\ UNCHANGED <<staged, enrolled>> /\ targets \subseteq targets'
    BY DEF BootRuns, Runs
  <1>2. \/ EndsWith(t, tasks)
        \/ staged \in targets' /\ Begins(t, selected', "status")
        \/ Begins(t, selected', "fetch")
    BY DEF BootRuns
  <1>3. CASE EndsWith(t, tasks)
    BY <1>1, <1>3, EndsLands
  <1>4. PICK v \in MaybeVault : v = selected'
    BY NextIInv, CommandStepKeeps DEF CommandStep, IInv, TypeOK
  <1>5. ASSUME NEW step \in {"status", "fetch"}, Begins(t, v, step),
               step = "status" => staged \in targets'
        PROVE  Lands(t)
    <2>1. step \in CommandSteps
      BY DEF CommandSteps
    <2>2. /\ tasks'[t].kind = "boot" /\ tasks'[t].step = step
          /\ tasks'[t].preserve = tasks[t].preserve
      BY <1>1, <1>5, <2>1, BeginsTo
    <2> QED
      BY <1>1, <1>5, <2>2 DEF Lands, Registers, Proposes
  <1> QED
    BY <1>2, <1>3, <1>4, <1>5

(* It activates what it looked up. *)
LEMMA LooksUpLands ==
    ASSUME IInv, Commanding, NEW t \in TaskIds, BootLooksUp(t)
    PROVE  Lands(t)
  <1>1. /\ tasks[t].kind \in Commands /\ tasks[t].step = "status"
        /\ UNCHANGED <<targets, staged, enrolled>>
    BY DEF BootLooksUp, AtStep, sessionVars, deviceVars
  <1>2. tasks[t].kind = "boot" /\ staged \in targets
    BY <1>1, CommandAt DEF CommandOk, Commanding, Registers
  <1>3. EndsWith(t, tasks) \/ \E step \in {"activate", "fetch"} : Goes(t, step)
    BY DEF BootLooksUp
  <1>4. ASSUME NEW step \in {"activate", "fetch"}, Goes(t, step) PROVE Lands(t)
    <2>1. step \in CommandSteps
      BY DEF CommandSteps
    <2>2. /\ tasks'[t].kind = "boot" /\ tasks'[t].step = step
          /\ tasks'[t].preserve = tasks[t].preserve
      BY <1>2, <1>4, <2>1, GoesTo
    <2> QED
      BY <1>1, <1>2, <2>2 DEF Lands, Registers, Proposes
  <1> QED
    BY <1>1, <1>3, <1>4, EndsLands

(* The steps that ask: the vault is a target when the answer is written. *)
LEMMA AsksLands ==
    ASSUME IInv, Commanding, NEW t \in TaskIds, Asks(t)
    PROVE  Lands(t)
  <1>1. /\ tasks[t].kind \in Commands /\ UNCHANGED <<staged, enrolled>>
        /\ targets \subseteq targets' /\ staged \in MaybeVault /\ NoVault \notin Vaults
        /\ tasks[t].vault \in MaybeVault
    BY AsksAt, PartsTyped, CommandAt DEF deviceVars, DeviceTyped
  <1>2. CASE EndsWith(t, tasks)
    BY <1>1, <1>2, EndsLands
  <1>3. ASSUME NEW v \in MaybeVault, Begins(t, v, "auth") PROVE Lands(t)
    <2>1. "auth" \in CommandSteps
      BY DEF CommandSteps
    <2>2. /\ tasks'[t].kind = tasks[t].kind /\ tasks'[t].step = "auth"
          /\ tasks'[t].preserve = tasks[t].preserve
      BY <1>3, <2>1, BeginsTo
    <2> QED
      BY <1>1, <2>2 DEF Lands, Registers, Proposes
  <1>4. CASE EnrollRuns(t)
    <2>1. /\ Runs(t, "enroll")
          /\ \/ staged # NoVault /\ staged \in targets' /\ Begins(t, staged, "finish")
             \/ staged = NoVault /\ Begins(t, tasks[t].vault, "stage")
      BY <1>4 DEF EnrollRuns
    <2>2. {"finish", "stage"} \subseteq CommandSteps
      BY DEF CommandSteps
    <2>3. CASE staged # NoVault /\ staged \in targets' /\ Begins(t, staged, "finish")
      <3>1. /\ tasks'[t].step = "finish" /\ tasks'[t].vault = staged
            /\ tasks'[t].preserve = tasks[t].preserve
        BY <1>1, <2>2, <2>3, BeginsTo
      <3> QED
        BY <1>1, <2>3, <3>1 DEF Lands, Registers, Proposes
    <2>4. CASE staged = NoVault /\ Begins(t, tasks[t].vault, "stage")
      <3>1. /\ tasks'[t].step = "stage" /\ tasks'[t].vault = tasks[t].vault
            /\ tasks'[t].preserve = tasks[t].preserve /\ tasks'[t].kind = tasks[t].kind
        BY <1>1, <2>2, <2>4, BeginsTo
      <3>2. tasks[t].vault \notin enrolled
        BY <1>1, <2>1, <2>4 DEF Commanding, Proposes, Runs, Starts, AtStep
      <3> QED
        BY <1>1, <2>4, <3>1, <3>2 DEF Lands, Registers, Proposes
    <2> QED
      BY <2>1, <2>3, <2>4
  <1>5. CASE Authorized(t)
    <2>1. \/ EndsWith(t, tasks)
          \/ /\ tasks[t].vault \in targets'
             /\ \E step \in {"finish", "key"} : Goes(t, step)
      BY <1>5 DEF Authorized
    <2>2. ASSUME NEW step \in {"finish", "key"}, Goes(t, step), tasks[t].vault \in targets'
          PROVE  Lands(t)
      <3>1. step \in CommandSteps
        BY DEF CommandSteps
      <3>2. /\ tasks'[t].step = step /\ tasks'[t].vault = tasks[t].vault
            /\ tasks'[t].preserve = tasks[t].preserve
        BY <2>2, <3>1, GoesTo
      <3> QED
        BY <1>1, <2>2, <3>2 DEF Lands, Registers, Proposes
    <2> QED
      BY <1>2, <2>1, <2>2
  <1>6. CASE SignInRuns(t)
    <2>1. \E v : Begins(t, v, "auth")
      BY <1>6 DEF SignInRuns
    <2>2. CASE \E v \in MaybeVault : Begins(t, v, "auth")
      BY <1>3, <2>2
    <2>3. \E v \in MaybeVault : Begins(t, v, "auth")
      <3>1. \/ EndsWith(t, tasks)
            \/ \E v \in Vaults : Begins(t, v, "auth")
            \/ tasks[t].kind # "sign-in"
            \/ Goes(t, "finish") \/ Goes(t, "key")
        BY AsksAt
      <3>2. /\ bound \in MaybeVault /\ selected \in MaybeVault /\ stored \subseteq MaybeVault
            /\ enrolled \subseteq MaybeVault
        BY PartsTyped DEF SessionTyped, DeviceTyped, MaybeVault
      <3> QED
        BY <1>6, <3>2 DEF SignInRuns, StoredVault, MaybeVault
    <2> QED
      BY <2>2, <2>3
  <1>7. CASE RegisterRuns(t)
    BY <1>1, <1>2, <1>3, <1>7 DEF RegisterRuns
  <1>8. CASE PromptRuns(t)
    BY <1>1, <1>3, <1>8 DEF PromptRuns
  <1> QED
    BY <1>4, <1>5, <1>6, <1>7, <1>8 DEF Asks

(* The key was written for a target. *)
LEMMA ProvisionLands ==
    ASSUME IInv, Commanding, NEW t \in TaskIds, KeyProvisioned(t)
    PROVE  Lands(t)
  <1>1. /\ tasks[t].kind \in Commands /\ tasks[t].step = "key" /\ UNCHANGED <<staged, enrolled>>
    BY DEF KeyProvisioned, AtStep
  <1>2. tasks[t].vault \in targets
    BY <1>1 DEF Commanding, Registers
  <1>3. targets \subseteq targets'
    BY DEF KeyProvisioned, Accept, ShowAccount
  <1>4. EndsWith(t, tasks) \/ \E step \in {"after", "fetch"} : Goes(t, step)
    BY DEF KeyProvisioned
  <1>5. ASSUME NEW step \in {"after", "fetch"}, Goes(t, step) PROVE Lands(t)
    <2>1. step \in CommandSteps
      BY DEF CommandSteps
    <2>2. /\ tasks'[t].step = step /\ tasks'[t].vault = tasks[t].vault
          /\ tasks'[t].preserve = tasks[t].preserve
      BY <1>5, <2>1, GoesTo
    <2> QED
      BY <1>1, <1>2, <1>3, <2>2 DEF Lands, Registers, Proposes
  <1> QED
    BY <1>1, <1>3, <1>4, <1>5, EndsLands

(* The status of a restored vault makes it a target again. *)
LEMMA FetchedLands ==
    ASSUME IInv, Commanding, NEW t \in TaskIds, StatusFetched(t)
    PROVE  Lands(t)
  <1>1. UNCHANGED <<staged, enrolled>>
    BY DEF StatusFetched
  <1>2. targets \subseteq targets'
    BY DEF StatusFetched, Accept, ShowAccount, sessionVars
  <1>3. EndsWith(t, tasks) \/ (tasks[t].vault \in targets' /\ Goes(t, "after"))
    BY DEF StatusFetched, Accept
  <1>4. CASE tasks[t].vault \in targets' /\ Goes(t, "after")
    <2>1. "after" \in CommandSteps
      BY DEF CommandSteps
    <2>2. /\ tasks'[t].step = "after" /\ tasks'[t].vault = tasks[t].vault
          /\ tasks'[t].preserve = tasks[t].preserve
      BY <1>4, <2>1, GoesTo
    <2> QED
      BY <1>1, <1>2, <1>4, <2>2 DEF Lands, Registers, Proposes
  <1> QED
    BY <1>1, <1>2, <1>3, <1>4, EndsLands

(* The vault that is proposed is still not enrolled. *)
LEMMA StagedLands ==
    ASSUME IInv, Commanding, NEW t \in TaskIds, KeyStaged(t)
    PROVE  Lands(t)
  <1>1. /\ tasks[t].kind \in Commands /\ tasks[t].step = "stage"
        /\ UNCHANGED <<targets, staged, enrolled>>
    BY DEF KeyStaged, AtStep, sessionVars
  <1>2. EndsWith(t, tasks) \/ Goes(t, "propose")
    BY DEF KeyStaged
  <1>3. CASE Goes(t, "propose")
    <2>1. "propose" \in CommandSteps
      BY DEF CommandSteps
    <2>2. /\ tasks'[t].step = "propose" /\ tasks'[t].vault = tasks[t].vault
          /\ tasks'[t].preserve = tasks[t].preserve /\ tasks'[t].kind = tasks[t].kind
      BY <1>3, <2>1, GoesTo
    <2> QED
      BY <1>1, <2>2 DEF Commanding, Lands, Registers, Proposes
  <1> QED
    BY <1>1, <1>2, <1>3, EndsLands

(* The accepted proposal becomes the staged vault, and a target. *)
LEMMA ProposedLands ==
    ASSUME IInv, Commanding, NEW t \in TaskIds, Proposed(t)
    PROVE  Lands(t)
  <1>1. /\ tasks[t].kind \in Commands /\ tasks[t].step = "propose" /\ staged' = tasks[t].vault
        /\ targets \subseteq targets'
    BY DEF Proposed, AtStep
  <1>2. staged' # NoVault
    BY <1>1, CommandAt, PartsTyped DEF CommandOk
  <1>3. EndsWith(t, tasks) \/ (tasks[t].vault \in targets' /\ Goes(t, "finish"))
    BY DEF Proposed
  <1>4. CASE tasks[t].vault \in targets' /\ Goes(t, "finish")
    <2>1. "finish" \in CommandSteps
      BY DEF CommandSteps
    <2>2. /\ tasks'[t].step = "finish" /\ tasks'[t].vault = tasks[t].vault
          /\ tasks'[t].preserve = tasks[t].preserve
      BY <1>4, <2>1, GoesTo
    <2> QED
      BY <1>1, <1>2, <1>4, <2>2 DEF Lands, Registers, Proposes
  <1> QED
    BY <1>1, <1>2, <1>3, <1>4, EndsLands

(* The vault that is finished is the staged one, a target. *)
LEMMA FinishedLands ==
    ASSUME IInv, Commanding, NEW t \in TaskIds, Finished(t)
    PROVE  Lands(t)
  <1>1. /\ tasks[t].kind \in Commands /\ tasks[t].step = "finish"
        /\ UNCHANGED <<targets, staged>>
    BY DEF Finished, AtStep, sessionVars, deviceVars
  <1>2. tasks[t].vault \in Vaults /\ staged = tasks[t].vault /\ staged # NoVault
    BY <1>1, CommandAt, PartsTyped DEF CommandOk
  <1>3. EndsWith(t, tasks) \/ Goes(t, "activate")
    BY DEF Finished
  <1>4. CASE Goes(t, "activate")
    <2>1. "activate" \in CommandSteps
      BY DEF CommandSteps
    <2>2. /\ tasks'[t].step = "activate" /\ tasks'[t].vault = tasks[t].vault
          /\ tasks'[t].preserve = tasks[t].preserve
      BY <1>4, <2>1, GoesTo
    <2> QED
      BY <1>1, <1>2, <2>2 DEF Commanding, Lands, Registers, Proposes
  <1> QED
    BY <1>1, <1>2, <1>3, <1>4, EndsLands

(* What is activated is a target. *)
LEMMA ActivatedLands ==
    ASSUME IInv, Commanding, NEW t \in TaskIds, Activated(t)
    PROVE  Lands(t)
  <1>1. /\ tasks[t].kind \in Commands /\ tasks[t].step = "activate"
    BY DEF Activated, AtStep
  <1>2. targets \subseteq targets'
    BY DEF Activated, Accept, sessionVars
  <1>3. ~tasks[t].aborted \/ UNCHANGED <<staged, enrolled>>
    BY DEF Activated
  <1>4. \/ EndsWith(t, tasks)
        \/ ~tasks[t].aborted /\ tasks[t].kind = "boot" /\ Goes(t, "fetch")
        \/ ~tasks[t].aborted /\ tasks[t].kind # "boot" /\ Goes(t, "after")
    BY DEF Activated
  <1>5. ASSUME NEW step \in {"fetch", "after"}, Goes(t, step), ~tasks[t].aborted,
               step = "fetch" <=> tasks[t].kind = "boot"
        PROVE  Lands(t)
    <2>1. step \in CommandSteps
      BY DEF CommandSteps
    <2>2. /\ tasks'[t].step = step /\ tasks'[t].vault = tasks[t].vault
          /\ tasks'[t].preserve = tasks[t].preserve /\ tasks'[t].kind = tasks[t].kind
      BY <1>5, <2>1, GoesTo
    <2> QED
      BY <1>1, <1>2, <1>5, <2>2 DEF Commanding, Lands, Registers, Proposes
  <1> QED
    BY <1>2, <1>3, <1>4, <1>5, EndsLands

(* Every step of a command does so. *)
LEMMA CommandLands ==
    ASSUME IInv, Commanding, NEW t \in TaskIds, CommandStep(t)
    PROVE  Lands(t)
  BY DroppedLands, BootLands, AsksLands, LooksUpLands, ProvisionLands, FetchedLands, StagedLands,
     ProposedLands, FinishedLands, ActivatedLands DEF CommandStep, Asks

(* The tasks there were stand, but that they may have been cancelled.          *)
Stand == \A u \in TaskIds :
    /\ u \in TaskIds'
    /\ tasks'[u].kind = tasks[u].kind /\ tasks'[u].step = tasks[u].step
    /\ tasks'[u].vault = tasks[u].vault /\ tasks'[u].after = tasks[u].after
    /\ tasks'[u].preserve = tasks[u].preserve /\ tasks'[u].cleanup = tasks[u].cleanup
    /\ tasks'[u].stopping = tasks[u].stopping
    /\ tasks[u].aborted => tasks'[u].aborted

(* A task that is added is queued; a boot is the first one of a view, after    *)
(* the last teardown.                                                          *)
Joins(u) ==
    /\ tasks'[u].step = "queued"
    /\ tasks'[u].kind \in Commands =>
          /\ tasks'[u].preserve = {}
          /\ tasks'[u].kind = "enroll" => tasks'[u].vault \notin enrolled
    /\ tasks'[u].kind = "boot" =>
          /\ ~mounted /\ u = Len(tasks) + 1 /\ u = Len(tasks') /\ draining' = draining
          /\ tasks'[u].after = {draining, flight} \ {0} /\ ~tasks'[u].aborted

(* What is added is commands or a teardown, and cancels the one there was.     *)
Adding ==
    /\ Stand /\ Len(tasks') > Len(tasks)
    /\ \A u \in TaskIds' : u > Len(tasks) => Joins(u)
    /\ \A u \in TaskIds : tasks[u].kind \in Commands => tasks'[u].aborted
    /\ \/ draining' = draining /\ mounted' = TRUE
       \/ draining' > Len(tasks) /\ (mounted' \/ draining' = Len(tasks'))
    /\ locked => locked'
    /\ storedLocked => storedLocked'
    /\ UNCHANGED <<account, bound, targets, admitted, key, worker, stored, selected, staged,
                   privacy, enrolled, reloads>>

(* A teardown before its turn. *)
LEMMA TeardownJoins ==
    ASSUME NEW after, NEW cleanup, NEW preserve
    PROVE  /\ Teardown(after, cleanup, preserve).kind = "teardown"
           /\ Teardown(after, cleanup, preserve).step = "queued"
  BY DEF Teardown

(* The tasks with the flight cancelled and one or two more. *)
LEMMA Stands ==
    ASSUME IInv, NEW ts, ts = Aborted(tasks),
           \/ \E x : tasks' = Append(ts, x)
           \/ \E x, y : tasks' = Append(Append(ts, x), y)
    PROVE  /\ Stand
           /\ \A u \in TaskIds : tasks[u].kind \in Commands => tasks'[u].aborted
  <1>1. /\ ts \in Seq(Task) /\ Len(ts) = Len(tasks) /\ Len(tasks) \in Nat
        /\ \A u \in TaskIds :
                /\ ts[u].kind = tasks[u].kind /\ ts[u].step = tasks[u].step
                /\ ts[u].vault = tasks[u].vault /\ ts[u].after = tasks[u].after
                /\ ts[u].preserve = tasks[u].preserve
                /\ ts[u].cleanup = tasks[u].cleanup /\ ts[u].stopping = tasks[u].stopping
                /\ tasks[u].aborted => ts[u].aborted
    BY AbortedIs
  <1>2. \A u \in TaskIds : tasks[u].kind \in Commands => ts[u].aborted
    BY <1>1, AllAborted DEF TaskIds
  <1>3. Len(tasks') >= Len(tasks) /\ \A u \in TaskIds : tasks'[u] = ts[u]
    BY <1>1 DEF TaskIds
  <1>4. \A u \in TaskIds : u \in TaskIds'
    <2>1. Len(tasks') \in Nat
      BY <1>1
    <2> QED
      BY <1>1, <1>3, <2>1 DEF TaskIds
  <1> QED
    BY <1>1, <1>2, <1>3, <1>4 DEF Stand

(* A session that is torn down adds a teardown. *)
LEMMA TearAdds ==
    ASSUME IInv, NEW s, NEW r, TearDown(tasks, s, r), mounted' = mounted \/ mounted' = FALSE,
           mounted' \/ Len(tasks') = Len(tasks) + 1,
           UNCHANGED <<account, bound, targets, admitted, key,
                       worker, stored, selected, staged, privacy, enrolled, limits>>
    PROVE  Adding
  <1>1. PICK ts : ts = Aborted(tasks)
    OBVIOUS
  <1>2. ts \in Seq(Task) /\ Len(ts) = Len(tasks) /\ Len(tasks) \in Nat
    BY <1>1, AbortedIs
  <1>3. PICK x : x.kind = "teardown" /\ x.step = "queued" /\ tasks' = Append(ts, x)
    BY <1>1, TeardownJoins DEF TearDown
  <1>4. Stand /\ \A u \in TaskIds : tasks[u].kind \in Commands => tasks'[u].aborted
    BY <1>1, <1>3, Stands
  <1>5. Len(tasks') = Len(tasks) + 1 /\ tasks'[Len(tasks) + 1] = x
    BY <1>2, <1>3
  <1>6. \A u \in TaskIds' : u > Len(tasks) => Joins(u)
    BY <1>2, <1>3, <1>5 DEF TaskIds, Joins, Commands
  <1>7. /\ draining' = Len(tasks) + 1 /\ locked' /\ (storedLocked => storedLocked')
    BY DEF TearDown
  <1> QED
    BY <1>2, <1>4, <1>5, <1>6, <1>7 DEF Adding, limits

(* A command adds itself. *)
LEMMA RunAdds ==
    ASSUME IInv, NEW kind \in Commands, NEW v, Run(kind, v, tasks, draining), mounted' = TRUE,
           kind = "enroll" => v \notin enrolled, kind = "boot" => ~mounted,
           UNCHANGED <<sessionVars, draining, runtimeVars, paymentVars, ended, deviceVars,
                       enrolled, limits>>
    PROVE  Adding
  <1>1. PICK ts : ts = Aborted(tasks)
    OBVIOUS
  <1>2. ts \in Seq(Task) /\ Len(ts) = Len(tasks) /\ Len(tasks) \in Nat
    BY <1>1, AbortedIs
  <1>a. PICK x : x = Command(kind, v, "queued", {draining, flight} \ {0})
    OBVIOUS
  <1>3. /\ x.kind = kind /\ x.vault = v /\ x.step = "queued" /\ x.preserve = {}
        /\ x.after = {draining, flight} \ {0} /\ x.aborted = FALSE
        /\ tasks' = Append(ts, x)
    <2>1. tasks' = Append(ts, x)
      BY <1>1, <1>a DEF Run
    <2> QED
      BY <1>a, <2>1 DEF Command
  <1>4. Stand /\ \A u \in TaskIds : tasks[u].kind \in Commands => tasks'[u].aborted
    BY <1>1, <1>3, Stands
  <1>5. Len(tasks') = Len(tasks) + 1 /\ tasks'[Len(tasks) + 1] = x
    BY <1>2, <1>3
  <1>6. \A u \in TaskIds' : u > Len(tasks) => Joins(u)
    <2>1. \A u \in TaskIds' : u > Len(tasks) => u = Len(tasks) + 1
      BY <1>2, <1>5 DEF TaskIds
    <2> QED
      BY <1>3, <1>5, <2>1 DEF Joins, Commands
  <1> QED
    BY <1>2, <1>4, <1>5, <1>6 DEF Adding, sessionVars, deviceVars, limits

(* The restoring of an open account adds both. *)
LEMMA RestoreAdds ==
    ASSUME IInv, NEW v, Restore(v)
    PROVE  Adding
  <1>1. CASE ~Open
    BY <1>1, RunAdds DEF Restore, Commands, sessionVars, deviceVars
  <1>2. CASE Open
    <2>1. PICK ts : ts = Aborted(tasks)
      OBVIOUS
    <2>2. ts \in Seq(Task) /\ Len(ts) = Len(tasks) /\ Len(tasks) \in Nat
      BY <2>1, AbortedIs
    <2>a. PICK x : x = Teardown({draining, flight} \ {0}, targets, {})
      OBVIOUS
    <2>b. PICK y : y = Command("restore", v, "queued", {Len(Append(ts, x)), flight} \ {0})
      OBVIOUS
    <2>3. /\ x.kind = "teardown" /\ x.step = "queued"
          /\ y.kind = "restore" /\ y.step = "queued" /\ y.preserve = {}
          /\ tasks' = Append(Append(ts, x), y)
      <3>1. tasks' = Append(Append(ts, x), y)
        BY <1>2, <2>1, <2>a, <2>b DEF Restore
      <3> QED
        BY <2>a, <2>b, <3>1 DEF Teardown, Command
    <2>4. Stand /\ \A u \in TaskIds : tasks[u].kind \in Commands => tasks'[u].aborted
      BY <2>1, <2>3, Stands
    <2>5. /\ Len(tasks') = Len(tasks) + 2 /\ tasks'[Len(tasks) + 1] = x
          /\ tasks'[Len(tasks) + 2] = y
      BY <2>2, <2>3
    <2>6. \A u \in TaskIds' : u > Len(tasks) => u = Len(tasks) + 1 \/ u = Len(tasks) + 2
      BY <2>2, <2>5 DEF TaskIds
    <2>7. \A u \in TaskIds' : u > Len(tasks) => Joins(u)
      BY <2>3, <2>5, <2>6 DEF Joins, Commands
    <2>8. draining' = Len(tasks) + 1 /\ locked' /\ storedLocked' /\ mounted'
      BY <1>2 DEF Restore
    <2> QED
      BY <2>2, <2>4, <2>5, <2>7, <2>8 DEF Adding, Restore, limits
  <1> QED
    BY <1>1, <1>2

(* All the ways of adding tasks. *)
LEMMA AddsAdding ==
    ASSUME IInv, Adds
    PROVE  Adding
  <1>1. Len(Aborted(tasks)) = Len(tasks) /\ Aborted(tasks) \in Seq(Task) /\ Len(tasks) \in Nat
    BY AbortedIs
  <1>2. CASE Release
    <2>1. Len(tasks') = Len(tasks) + 1
      BY <1>1, <1>2 DEF Release, TearDown
    <2> QED
      BY <1>2, <2>1, TearAdds DEF Release
  <1>3. CASE SignOut
    BY <1>3, TearAdds DEF SignOut
  <1>4. CASE ChangePlan
    BY <1>4, TearAdds DEF ChangePlan
  <1>5. ASSUME NEW kind \in Commands, NEW v, Calls(kind, v), kind # "boot",
               kind = "enroll" => v \notin enrolled
        PROVE  Adding
    BY <1>5, RunAdds, PartsTyped DEF Calls
  <1>6. CASE Retain
    BY <1>6, RunAdds DEF Retain, Commands
  <1>7. CASE SignIn \/ ConnectLedger \/ Enroll \/ RegisterLedger \/ EnablePasskey
    BY <1>5, <1>7 DEF SignIn, ConnectLedger, Enroll, RegisterLedger, EnablePasskey, Commands
  <1>8. CASE \E v \in Vaults : Restore(v)
    BY <1>8, RestoreAdds
  <1> QED
    BY <1>2, <1>3, <1>4, <1>6, <1>7, <1>8 DEF Adds

(* Where a teardown is after its step. *)
LEMMA TurnsTo ==
    ASSUME IInv, NEW t \in TaskIds, NEW c \in Task, tasks' = [tasks EXCEPT ![t] = c]
    PROVE  /\ tasks'[t] = c /\ TaskIds' = TaskIds /\ Len(tasks') = Len(tasks)
           /\ \A u \in TaskIds : u # t => tasks'[u] = tasks[u]
  BY TurnsBy DEF Turns, TaskIds

(* A teardown that is over keeps what it was to keep. *)
LEMMA OverTo ==
    ASSUME IInv, NEW t \in TaskIds, NEW how \in {"ended", "failed"},
           tasks' = [tasks EXCEPT ![t] = [Over(how) EXCEPT !.preserve = tasks[t].preserve]]
    PROVE  /\ tasks'[t].kind = "over" /\ tasks'[t].step = how
           /\ tasks'[t].preserve = tasks[t].preserve
  <1>1. tasks[t].preserve \in SUBSET Vaults
    BY TasksAre, TaskFields
  <1>2. PICK c : c = [Over(how) EXCEPT !.preserve = tasks[t].preserve]
    OBVIOUS
  <1>3. c \in Task /\ c.kind = "over" /\ c.step = how /\ c.preserve = tasks[t].preserve
    BY <1>1, <1>2, OverIs
  <1> QED
    BY <1>2, <1>3, TurnsTo

(* One that starts takes the targets there are. *)
LEMMA StartTo ==
    ASSUME IInv, NEW t \in TaskIds, StartCleaning(t)
    PROVE  /\ tasks'[t].kind = "teardown" /\ tasks'[t].step = "clean"
           /\ tasks'[t].preserve = tasks[t].preserve
           /\ targets \subseteq tasks'[t].cleanup
  <1>1. PICK c : c = [tasks[t] EXCEPT !.step = "clean", !.after = {}, !.cleanup = @ \cup targets,
                                      !.stage = staged]
    OBVIOUS
  <1>2. /\ c \in Task /\ c.kind = "teardown" /\ c.step = "clean"
        /\ c.preserve = tasks[t].preserve /\ targets \subseteq c.cleanup
    <2>1. /\ tasks[t] \in Task /\ tasks[t].kind = "teardown" /\ targets \subseteq Vaults
          /\ staged \in MaybeVault
      BY TasksAre, PartsTyped DEF StartCleaning, SessionTyped, DeviceTyped
    <2> QED
      BY <1>1, <2>1 DEF Task, TeardownSteps
  <1>3. tasks' = [tasks EXCEPT ![t] = c]
    BY <1>1 DEF StartCleaning
  <1> QED
    BY <1>2, <1>3, TurnsTo

(* One that stops a worker goes on to drop the key, or awaits the runtime. *)
LEMMA StopTo ==
    ASSUME IInv, NEW t \in TaskIds, NEW v, StopWorker(t, v)
    PROVE  /\ tasks'[t].kind = "teardown" /\ tasks'[t].vault = v
           /\ tasks'[t].preserve = tasks[t].preserve /\ tasks'[t].cleanup = tasks[t].cleanup
           /\ IF Serves(v) THEN tasks'[t].step = "stop" /\ tasks'[t].stopping = current
              ELSE tasks'[t].step = "drop"
  <1>1. tasks[t] \in Task /\ tasks[t].kind = "teardown" /\ v \in Vaults /\ current \in Nat
    BY TasksAre, TaskFields, CleanerAt, PartsTyped DEF StopWorker, RuntimeTyped
  <1>2. CASE Serves(v)
    <2>1. PICK c : c = [tasks[t] EXCEPT !.step = "stop", !.vault = v, !.stopping = current]
      OBVIOUS
    <2>2. /\ c \in Task /\ c.kind = "teardown" /\ c.vault = v /\ c.preserve = tasks[t].preserve
          /\ c.cleanup = tasks[t].cleanup /\ c.step = "stop" /\ c.stopping = current
      BY <1>1, <2>1 DEF Task, TeardownSteps, MaybeVault
    <2>3. tasks' = [tasks EXCEPT ![t] = c]
      BY <1>2, <2>1 DEF StopWorker
    <2> QED
      BY <1>2, <2>2, <2>3, TurnsTo
  <1>3. CASE ~Serves(v)
    <2>1. PICK c : c = [tasks[t] EXCEPT !.step = "drop", !.vault = v]
      OBVIOUS
    <2>2. /\ c \in Task /\ c.kind = "teardown" /\ c.vault = v /\ c.preserve = tasks[t].preserve
          /\ c.cleanup = tasks[t].cleanup /\ c.step = "drop"
      BY <1>1, <2>1 DEF Task, TeardownSteps, MaybeVault
    <2>3. tasks' = [tasks EXCEPT ![t] = c]
      BY <1>3, <2>1 DEF StopWorker
    <2> QED
      BY <1>3, <2>2, <2>3, TurnsTo
  <1> QED
    BY <1>2, <1>3

(* It drops the key when the runtime has retired. *)
LEMMA StoppedTo ==
    ASSUME IInv, NEW t \in TaskIds, WorkerStopped(t)
    PROVE  /\ tasks'[t].preserve = tasks[t].preserve
           /\ \/ /\ runtimes[tasks[t].stopping].step = "retired"
                 /\ tasks'[t].kind = "teardown" /\ tasks'[t].step = "drop"
                 /\ tasks'[t].vault = tasks[t].vault /\ tasks'[t].cleanup = tasks[t].cleanup
              \/ tasks'[t].kind = "over" /\ tasks'[t].step = "failed"
  <1>1. tasks[t] \in Task /\ tasks[t].kind = "teardown"
    BY TasksAre, CleanerAt DEF WorkerStopped
  <1>2. CASE /\ runtimes[tasks[t].stopping].step = "retired"
             /\ tasks' = [tasks EXCEPT ![t].step = "drop", ![t].stopping = 0]
    <2>1. PICK c : c = [tasks[t] EXCEPT !.step = "drop", !.stopping = 0]
      OBVIOUS
    <2>2. /\ c \in Task /\ c.kind = "teardown" /\ c.vault = tasks[t].vault
          /\ c.preserve = tasks[t].preserve /\ c.cleanup = tasks[t].cleanup /\ c.step = "drop"
      BY <1>1, <2>1 DEF Task, TeardownSteps
    <2>3. tasks' = [tasks EXCEPT ![t] = c]
      BY <1>2, <2>1
    <2> QED
      BY <1>2, <2>2, <2>3, TurnsTo
  <1>3. CASE Fails(t)
    BY <1>3, OverTo DEF Fails
  <1> QED
    BY <1>2, <1>3 DEF WorkerStopped

(* The vault whose key is dropped is clean. *)
LEMMA DropTo ==
    ASSUME IInv, NEW t \in TaskIds, DropKey(t)
    PROVE  /\ tasks'[t].kind = "teardown" /\ tasks'[t].step = "clean"
           /\ tasks'[t].preserve = tasks[t].preserve
           /\ tasks'[t].cleanup = tasks[t].cleanup \ {tasks[t].vault}
  <1>1. tasks[t] \in Task /\ tasks[t].kind = "teardown"
    BY TasksAre, CleanerAt DEF DropKey
  <1>2. PICK c : c = [tasks[t] EXCEPT !.step = "clean", !.vault = NoVault,
                                      !.cleanup = @ \ {tasks[t].vault}]
    OBVIOUS
  <1>3. /\ c \in Task /\ c.kind = "teardown" /\ c.step = "clean"
        /\ c.preserve = tasks[t].preserve /\ c.cleanup = tasks[t].cleanup \ {tasks[t].vault}
    BY <1>1, <1>2 DEF Task, TeardownSteps, MaybeVault
  <1>4. tasks' = [tasks EXCEPT ![t] = c]
    BY <1>2 DEF DropKey
  <1> QED
    BY <1>3, <1>4, TurnsTo

(* What the steps of a teardown leave alone. *)
LEMMA TeardownAt ==
    ASSUME IInv, NEW t \in TaskIds, TeardownStep(t)
    PROVE  /\ Foremost(t) /\ tasks[t].kind = "teardown" /\ TaskIds' = TaskIds
           /\ Len(tasks') = Len(tasks) /\ locked /\ locked' = locked
           /\ \A u \in TaskIds : u # t => tasks'[u] = tasks[u]
           /\ tasks'[t].step # "queued" /\ tasks'[t].kind \notin Commands
           /\ tasks'[t].preserve = tasks[t].preserve
           /\ admitted' \subseteq admitted
           /\ UNCHANGED <<flight, draining, mounted, account, bound, stored, selected,
                          staged, storedLocked, privacy, enrolled, reloads>>
  <1>1. Cleans(t)
    BY StartCleans, StopCleans, StoppedCleans, DropCleans DEF TeardownStep
  <1>2. PICK c : Cleaned(t, c)
    BY <1>1 DEF Cleans
  <1>3. /\ Foremost(t) /\ tasks[t].kind = "teardown" /\ TaskIds' = TaskIds
        /\ Len(tasks') = Len(tasks)
        /\ \A u \in TaskIds : u # t => tasks'[u] = tasks[u]
        /\ tasks'[t].step # "queued" /\ tasks'[t].kind \notin Commands
        /\ UNCHANGED <<flight, draining, locked, staged, storedLocked, enrolled>>
        /\ admitted' \subseteq admitted
    BY <1>1, <1>2 DEF Cleaned, Cleans, Turns, TaskIds, Commands
  <1>4. locked
    BY <1>3 DEF IInv, Torn
  <1>5. UNCHANGED <<mounted, account, bound, stored, selected, privacy, reloads>>
    BY DEF TeardownStep, StartCleaning, CleaningEnds, WorkerStopped, StopFails, DropKey, StopWorker,
       sessionVars, deviceVars, limits
  <1>6. tasks'[t].preserve = tasks[t].preserve
    <2>1. CASE CleaningEnds(t) \/ StopFails(t)
      BY <2>1, OverTo DEF CleaningEnds, StopFails, Fails
    <2> QED
      BY <2>1, StartTo, StopTo, StoppedTo, DropTo DEF TeardownStep
  <1> QED
    BY <1>3, <1>4, <1>5, <1>6

(* Beside the foremost task, what is not over is queued behind it. *)
LEMMA BehindForemost ==
    ASSUME IInv, NEW t, Foremost(t), NEW u \in TaskIds, u # t, tasks[u].kind # "over"
    PROVE  tasks[u].step = "queued" /\ u > t
  <1>1. Live(u)
    BY DEF IInv, Shaped, Live
  <1>2. t \in TaskIds /\ t \in Nat /\ u \in Nat
    BY TasksAre DEF Foremost
  <1>3. ~(u < t)
    BY <1>1 DEF Foremost, Live
  <1>4. u > t
    BY <1>2, <1>3
  <1> QED
    BY <1>4 DEF Foremost

(* Of two tasks one has been added to a fresh page. *)
LEMMA TwoTasks ==
    ASSUME IInv, NEW t \in TaskIds, NEW u \in TaskIds, t # u
    PROVE  ~Fresh
  <1>1. /\ Len(tasks) \in Nat /\ t \in Nat /\ u \in Nat /\ t >= 1 /\ t <= Len(tasks)
        /\ u >= 1 /\ u <= Len(tasks)
    BY TasksAre
  <1>2. Len(tasks) # 0 /\ Len(tasks) # 1
    <2>1. Len(tasks) # 0
      BY <1>1
    <2>2. Len(tasks) = 1 => t = 1
      BY <1>1
    <2>3. Len(tasks) = 1 => u = 1
      BY <1>1
    <2> QED
      BY <2>1, <2>2, <2>3
  <1>3. tasks # <<>>
    BY <1>2
  <1> QED
    BY <1>2, <1>3 DEF Fresh

(* What a step keeps of the commands and boots that are still to come, and     *)
(* that it forgets no teardown that was to keep a key.                         *)
Follows == Commanding' /\ BootsFollow' /\ (Forgetful' => Forgetful)

(* A step of a command. *)
LEMMA CommandFollows ==
    ASSUME IInv, Commanding, BootsFollow, NEW t \in TaskIds, CommandStep(t)
    PROVE  /\ Follows /\ Foremost(t) /\ tasks[t].kind \in Commands
           /\ tasks'[t].kind # "teardown" /\ tasks'[t].step # "queued"
           /\ TaskIds' = TaskIds /\ Len(tasks') = Len(tasks)
           /\ \A u \in TaskIds : u # t => tasks'[u] = tasks[u]
           /\ draining' = draining
  <1>1. PICK c : Commanded(t, c)
    BY CommandStepMoves DEF Moves
  <1>2. /\ TaskIds' = TaskIds /\ Len(tasks') = Len(tasks) /\ Foremost(t)
        /\ tasks[t].kind \in Commands /\ tasks'[t].step # "queued"
        /\ tasks'[t].kind \in {tasks[t].kind, "over"}
        /\ \A u \in TaskIds : u # t => tasks'[u] = tasks[u]
        /\ draining' = draining
    BY <1>1 DEF Commanded, Turns, TaskIds
  <1>3. Lands(t) /\ mounted' = mounted
    BY CommandLands, CommandStepMoves DEF Moves, Effects
  <1>4. ASSUME NEW u \in TaskIds, u # t, tasks[u].kind \in Commands
        PROVE  tasks[u].step = "queued" /\ (~tasks[u].aborted => tasks[t].aborted)
    <2>2. tasks[u].step = "queued"
      BY <1>2, <1>4, BehindForemost DEF Commands
    <2>3. (t = flight \/ tasks[t].aborted) /\ (u = flight \/ tasks[u].aborted)
      BY <1>2, <1>4 DEF IInv, Flights
    <2> QED
      BY <1>4, <2>2, <2>3
  <1>5. Commanding'
    <2> SUFFICES ASSUME NEW u \in TaskIds, tasks'[u].kind \in Commands
                 PROVE  /\ Registers(tasks[u])' /\ Proposes(tasks[u])'
                        /\ tasks'[u].preserve = {}
      BY <1>2 DEF Commanding
    <2>1. CASE u = t
      <3>1. tasks'[t].preserve = tasks[t].preserve
        BY <1>3, <2>1 DEF Lands
      <3> QED
        BY <1>2, <1>3, <2>1, <3>1 DEF Lands, Commanding
    <2>2. CASE u # t
      <3>1. tasks'[u] = tasks[u] /\ tasks[u].kind \in Commands
        BY <1>2, <2>2
      <3>2. /\ tasks[u].step = "queued" /\ (~tasks[u].aborted => tasks[t].aborted)
            /\ tasks[u].preserve = {} /\ Proposes(tasks[u])
        BY <1>4, <2>2, <3>1 DEF Commanding
      <3>3. ~tasks[u].aborted => staged' # NoVault \/ UNCHANGED <<staged, enrolled>>
        BY <1>3, <3>2 DEF Lands
      <3>4. Registers(tasks[u])'
        BY <3>1, <3>2 DEF Registers
      <3>5. Proposes(tasks[u])'
        BY <3>1, <3>2, <3>3 DEF Proposes
      <3> QED
        BY <3>1, <3>2, <3>4, <3>5
    <2> QED
      BY <2>1, <2>2
  <1>6. BootsFollow'
    <2>1. ~mounted' /\ tasks' # <<>> => draining' = Len(tasks')
      BY <1>2, <1>3 DEF BootsFollow, TaskIds
    <2>2. ASSUME NEW u \in TaskIds, tasks'[u].kind = "boot", tasks'[u].step = "queued",
                 ~tasks'[u].aborted
          PROVE  draining' = u - 1 /\ draining' \in tasks'[u].after
      <3>1. u # t /\ tasks'[u] = tasks[u]
        BY <1>2, <2>2
      <3>3. ~Fresh
        BY <3>1, TwoTasks
      <3> QED
        BY <1>2, <2>2, <3>1, <3>3 DEF BootsFollow
    <2> QED
      BY <1>2, <2>1, <2>2 DEF BootsFollow
  <1>7. Forgetful' => Forgetful
    <2>1. tasks[t].preserve = {}
      BY <1>2 DEF Commanding
    <2> QED
      BY <1>2, <2>1 DEF Forgetful
  <1>8. tasks'[t].kind # "teardown"
    BY <1>2 DEF Commands
  <1> QED
    BY <1>2, <1>5, <1>6, <1>7, <1>8 DEF Follows

(* A step of a teardown. *)
LEMMA TeardownFollows ==
    ASSUME IInv, Commanding, BootsFollow, NEW t \in TaskIds, TeardownStep(t)
    PROVE  Follows
  <1>1. /\ Foremost(t) /\ tasks[t].kind = "teardown" /\ TaskIds' = TaskIds
        /\ Len(tasks') = Len(tasks)
        /\ \A u \in TaskIds : u # t => tasks'[u] = tasks[u]
        /\ tasks'[t].step # "queued" /\ tasks'[t].kind \notin Commands
        /\ tasks'[t].preserve = tasks[t].preserve
        /\ UNCHANGED <<draining, mounted, staged, enrolled>>
    BY TeardownAt
  <1>2. ASSUME NEW u \in TaskIds, tasks'[u].kind \in Commands
        PROVE  /\ Registers(tasks[u])' /\ Proposes(tasks[u])'
               /\ tasks'[u].preserve = {}
    <2>1. u # t /\ tasks'[u] = tasks[u] /\ tasks[u].kind \in Commands
      BY <1>1, <1>2
    <2>3. tasks[u].step = "queued"
      BY <1>1, <2>1, BehindForemost DEF Commands
    <2>4. tasks[u].preserve = {} /\ Proposes(tasks[u])
      BY <2>1 DEF Commanding
    <2> QED
      BY <1>1, <2>1, <2>3, <2>4 DEF Registers, Proposes
  <1>3. BootsFollow'
    <2>1. ~mounted' /\ tasks' # <<>> => draining' = Len(tasks')
      BY <1>1 DEF BootsFollow, TaskIds
    <2>2. ASSUME NEW u \in TaskIds, tasks'[u].kind = "boot", tasks'[u].step = "queued",
                 ~tasks'[u].aborted
          PROVE  draining' = u - 1 /\ draining' \in tasks'[u].after
      <3>1. u # t /\ tasks'[u] = tasks[u]
        BY <1>1, <2>2
      <3>3. ~Fresh
        BY <3>1, TwoTasks
      <3> QED
        BY <1>1, <2>2, <3>1, <3>3 DEF BootsFollow
    <2> QED
      BY <1>1, <2>1, <2>2 DEF BootsFollow
  <1>4. Forgetful' => Forgetful
    BY <1>1 DEF Forgetful
  <1> QED
    BY <1>1, <1>2, <1>3, <1>4 DEF Follows, Commanding

(* A task that is added. *)
LEMMA AddsFollow ==
    ASSUME IInv, Commanding, BootsFollow, Adds
    PROVE  Follows
  <1>1. Adding /\ Stand /\ Len(tasks) \in Nat /\ Len(tasks') \in Nat /\ draining \in 0..Len(tasks)
        /\ flight \in 0..Len(tasks)
    <2>1. IInv'
      BY AddsKeep
    <2>2. tasks' \in Seq(Task) /\ tasks \in Seq(Task)
      BY <2>1 DEF IInv, TypeOK
    <2>3. Len(tasks) \in Nat /\ Len(tasks') \in Nat
      BY <2>2
    <2>4. draining \in 0..Len(tasks) /\ flight \in 0..Len(tasks)
      BY DEF IInv, TypeOK
    <2> QED
      BY <2>3, <2>4, AddsAdding DEF Adding
  <1>2. Commanding'
    <2> SUFFICES ASSUME NEW u \in TaskIds', tasks'[u].kind \in Commands
                 PROVE  /\ Registers(tasks[u])' /\ Proposes(tasks[u])'
                        /\ tasks'[u].preserve = {}
      BY DEF Commanding
    <2>1. CASE u \in TaskIds
      <3>1. /\ tasks'[u].kind = tasks[u].kind /\ tasks'[u].step = tasks[u].step
            /\ tasks'[u].vault = tasks[u].vault /\ tasks'[u].preserve = tasks[u].preserve
            /\ tasks[u].aborted => tasks'[u].aborted
        BY <1>1, <2>1 DEF Stand
      <3>2. Registers(tasks[u]) /\ Proposes(tasks[u]) /\ tasks[u].preserve = {}
        BY <2>1, <3>1 DEF Commanding
      <3>3. UNCHANGED <<targets, staged, enrolled>>
        BY <1>1 DEF Adding
      <3>4. Registers(tasks[u])'
        BY <3>1, <3>2, <3>3 DEF Registers
      <3>5. Proposes(tasks[u])'
        BY <3>1, <3>2, <3>3 DEF Proposes
      <3> QED
        BY <3>1, <3>2, <3>4, <3>5
    <2>2. CASE u \notin TaskIds
      <3>1. u > Len(tasks)
        BY <1>1, <2>2 DEF TaskIds
      <3>2. Joins(u) /\ UNCHANGED enrolled
        BY <1>1, <3>1 DEF Adding
      <3> QED
        BY <3>2 DEF Joins, Registers, Proposes
    <2> QED
      BY <2>1, <2>2
  <1>3. BootsFollow'
    <2>1. ~mounted' /\ tasks' # <<>> => draining' = Len(tasks')
      BY <1>1 DEF Adding
    <2>2. ASSUME NEW u \in TaskIds', tasks'[u].kind = "boot", tasks'[u].step = "queued",
                 ~tasks'[u].aborted
          PROVE  Fresh' \/ (draining' = u - 1 /\ draining' \in tasks'[u].after)
      <3>1. u \notin TaskIds
        BY <1>1, <2>2 DEF Adding, Stand, Commands
      <3>2. u > Len(tasks)
        BY <1>1, <3>1 DEF TaskIds
      <3>3. /\ ~mounted /\ u = Len(tasks) + 1 /\ u = Len(tasks') /\ draining' = draining
            /\ tasks'[u].after = {draining, flight} \ {0}
        BY <1>1, <2>2, <3>2 DEF Adding, Joins
      <3>4. CASE tasks = <<>>
        <4>1. Len(tasks) = 0
          BY <3>4
        <4>2. u = 1 /\ Len(tasks') = 1 /\ tasks'[1].after = {}
          BY <1>1, <3>3, <4>1
        <4> QED
          BY <2>2, <4>2 DEF Fresh
      <3>5. CASE tasks # <<>>
        <4>1. draining = Len(tasks) /\ Len(tasks) # 0
          BY <1>1, <3>3, <3>5, TasksAre DEF BootsFollow, IInv, TypeOK
        <4> QED
          BY <1>1, <3>3, <4>1
      <3> QED
        BY <3>4, <3>5
    <2> QED
      BY <2>1, <2>2 DEF BootsFollow
  <1>4. Forgetful' => Forgetful
    BY <1>1 DEF Forgetful, Stand
  <1> QED
    BY <1>2, <1>3, <1>4 DEF Follows

(* The signal of a Ledger command. *)
LEMMA CancelFollows ==
    ASSUME IInv, Commanding, BootsFollow, CancelLedger
    PROVE  Follows /\ Stand /\ TaskIds' = TaskIds /\ Len(tasks') = Len(tasks) /\ ~Fresh /\ ~Fresh'
  <1>1. PICK ts : ts = Aborted(tasks)
    OBVIOUS
  <1>2. /\ tasks' = ts /\ Len(ts) = Len(tasks)
        /\ \A u \in TaskIds :
                /\ ts[u].kind = tasks[u].kind /\ ts[u].step = tasks[u].step
                /\ ts[u].vault = tasks[u].vault /\ ts[u].after = tasks[u].after
                /\ ts[u].preserve = tasks[u].preserve
                /\ ts[u].cleanup = tasks[u].cleanup /\ ts[u].stopping = tasks[u].stopping
                /\ tasks[u].aborted => ts[u].aborted
    BY <1>1, AbortedIs DEF CancelLedger
  <1>3. TaskIds' = TaskIds /\ Len(tasks') = Len(tasks) /\ Stand
    BY <1>2 DEF TaskIds, Stand
  <1>4. ~Fresh /\ ~Fresh'
    <2>1. /\ flight \in 1..Len(tasks) /\ tasks[flight].kind # "boot" /\ Len(tasks) \in Nat
          /\ tasks'[flight].kind # "boot"
      BY <1>3 DEF CancelLedger, IInv, TypeOK, Stand, TaskIds
    <2> QED
      BY <1>3, <2>1 DEF Fresh
  <1>5. UNCHANGED <<targets, staged, enrolled, draining, mounted>>
    BY DEF CancelLedger, sessionVars, deviceVars
  <1>6. Commanding'
    <2> SUFFICES ASSUME NEW u \in TaskIds, tasks'[u].kind \in Commands
                 PROVE  /\ Registers(tasks[u])' /\ Proposes(tasks[u])'
                        /\ tasks'[u].preserve = {}
      BY <1>3 DEF Commanding
    <2>1. /\ tasks'[u].kind = tasks[u].kind /\ tasks'[u].step = tasks[u].step
          /\ tasks'[u].vault = tasks[u].vault /\ tasks'[u].preserve = tasks[u].preserve
          /\ tasks[u].aborted => tasks'[u].aborted
      BY <1>3 DEF Stand
    <2>2. Registers(tasks[u]) /\ Proposes(tasks[u]) /\ tasks[u].preserve = {}
      BY <2>1 DEF Commanding
    <2>3. Registers(tasks[u])'
      BY <1>5, <2>1, <2>2 DEF Registers
    <2>4. Proposes(tasks[u])'
      BY <1>5, <2>1, <2>2 DEF Proposes
    <2> QED
      BY <2>1, <2>2, <2>3, <2>4
  <1>7. BootsFollow'
    <2>1. ~mounted' /\ tasks' # <<>> => draining' = Len(tasks')
      BY <1>3, <1>4, <1>5 DEF BootsFollow, Fresh
    <2>2. ASSUME NEW u \in TaskIds, tasks'[u].kind = "boot", tasks'[u].step = "queued",
                 ~tasks'[u].aborted
          PROVE  draining' = u - 1 /\ draining' \in tasks'[u].after
      BY <1>3, <1>4, <1>5, <2>2 DEF BootsFollow, Stand
    <2> QED
      BY <1>3, <2>1, <2>2 DEF BootsFollow
  <1>8. Forgetful' => Forgetful
    BY <1>3 DEF Forgetful, Stand
  <1> QED
    BY <1>3, <1>4, <1>6, <1>7, <1>8 DEF Follows

(* A step beside the tasks. *)
LEMMA BesideFollows ==
    ASSUME Commanding, BootsFollow, UNCHANGED <<taskVars, mounted, staged, enrolled>>,
           targets \subseteq targets'
    PROVE  Follows
  <1>1. /\ UNCHANGED <<tasks, flight, draining, mounted, staged, enrolled>>
        /\ TaskIds' = TaskIds
    BY DEF taskVars, TaskIds
  <1>2. Commanding'
    <2> SUFFICES ASSUME NEW u \in TaskIds, tasks[u].kind \in Commands
                 PROVE  /\ Registers(tasks[u])' /\ Proposes(tasks[u])'
                        /\ tasks[u].preserve = {}
      BY <1>1 DEF Commanding
    <2>1. Registers(tasks[u]) /\ Proposes(tasks[u]) /\ tasks[u].preserve = {}
      BY DEF Commanding
    <2> QED
      BY <1>1, <2>1 DEF Registers, Proposes
  <1>3. BootsFollow'
    BY <1>1 DEF BootsFollow, Fresh
  <1>4. Forgetful' => Forgetful
    BY <1>1 DEF Forgetful
  <1> QED
    BY <1>2, <1>3, <1>4 DEF Follows

-------------------------------------------------------------------------------
(* A page before its boot *)

(* A page that has not booted yet is mounted, boots, or is closed. *)
LEMMA FreshSteps ==
    ASSUME IInv, BeforeBoot, Fresh, Next
    PROVE  \/ tasks = <<>> /\ Retain
           \/ Reload
           \/ tasks # <<>> /\ TaskIds = {1} /\ BootRuns(1)
  <1>0. /\ locked /\ runtimes = <<>> /\ command = NoCommand /\ Len(runtimes) = 0
        /\ RuntimeIds = {}
    BY DEF BeforeBoot, RuntimeIds
  <1>1. CASE tasks = <<>>
    <2>1. TaskIds = {} /\ ~mounted
      BY <1>1 DEF TaskIds, BeforeBoot
    <2>2. ~PaymentStep /\ ~StatusRefreshed
      BY <1>0 DEF PaymentStep, LockGranted, WalletReady, Quoted, QuoteFails, StatusRefreshed
    <2>3. ~ViewConnects
      BY <2>1 DEF ViewConnects
    <2>4. Person => Retain \/ Reload
      BY <2>1 DEF Person, Release, SignOut, ChangePlan, CancelLedger, SignIn, ConnectLedger, Enroll,
         RegisterLedger, EnablePasskey, Calls, Restore, Review, CancelReview, SetPrivacyLock, Hide
    <2> QED
      BY <1>0, <1>1, <2>1, <2>2, <2>3, <2>4 DEF Next, Events
  <1>2. CASE tasks # <<>>
    <2>0. Len(tasks) = 1
      BY <1>2 DEF Fresh
    <2>1. /\ TaskIds = {1} /\ tasks[1].kind = "boot" /\ tasks[1].step = "queued"
          /\ tasks[1].after = {} /\ ~tasks[1].aborted
      <3>1. TaskIds = {1}
        BY <2>0 DEF TaskIds
      <3> QED
        BY <1>2, <3>1 DEF Fresh
    <2>2. ~Settled
      BY <2>1 DEF Settled, Ready
    <2>3. Promise(1) \/ StopFails(1)
      BY <2>1, <2>2 DEF Next
    <2>4. ~StopFails(1) /\ ~CommandDropped(1) /\ ~StartCleaning(1) /\ ~CleaningEnds(1)
      BY <2>1 DEF StopFails, CommandDropped, StartCleaning, CleaningEnds
    <2>5. \A v \in Vaults : ~StopWorker(1, v)
      BY <2>1 DEF StopWorker
    <2>6. ~SignInRuns(1) /\ ~EnrollRuns(1) /\ ~RegisterRuns(1) /\ ~PromptRuns(1)
      BY <2>1 DEF SignInRuns, EnrollRuns, RegisterRuns, PromptRuns, Runs
    <2> QED
      BY <1>2, <2>1, <2>3, <2>4, <2>5, <2>6 DEF Promise
  <1> QED
    BY <1>1, <1>2

(* The view of a page boots it. *)
LEMMA RetainFresh ==
    ASSUME IInv, BeforeBoot, tasks = <<>>, Retain
    PROVE  Fresh'
  <1>1. flight = 0 /\ draining = 0 /\ Len(tasks) = 0
    <2>1. Len(tasks) = 0
      OBVIOUS
    <2>2. flight \in 0..Len(tasks) /\ draining \in 0..Len(tasks)
      BY DEF IInv, TypeOK
    <2> QED
      BY <2>1, <2>2
  <1>2. PICK x : x = Command("boot", NoVault, "queued", {draining, flight} \ {0})
    OBVIOUS
  <1>3. tasks' = Append(<<>>, x)
    BY <1>1, <1>2 DEF Retain, Run, Aborted
  <1>4. tasks' = <<x>> /\ Len(tasks') = 1 /\ tasks'[1] = x
    BY <1>3
  <1>5. x.kind = "boot" /\ x.step = "queued" /\ x.after = {} /\ x.aborted = FALSE
    BY <1>1, <1>2 DEF Command
  <1> QED
    BY <1>4, <1>5 DEF Fresh

(* Steps beside the tasks. *)
Beside == UNCHANGED <<tasks, flight, draining, mounted, staged, enrolled, reloads>>

(* Every step is one of these. *)
LEMMA BesideIs ==
    ASSUME Next
    PROVE  \/ \E t \in TaskIds : CommandStep(t)
           \/ \E t \in TaskIds : TeardownStep(t)
           \/ Adds
           \/ CancelLedger
           \/ Beside /\ targets \subseteq targets'
           \/ Reload
  <1>1. CASE \E r \in RuntimeIds : RuntimeStep(r)
    BY <1>1 DEF RuntimeStep, RegistersWorker, ConnectionCreated, Retires, Beside, sessionVars,
       taskVars, limits
  <1>2. CASE \/ ViewConnects \/ Review \/ LockGranted \/ WalletReady
             \/ QuoteFails \/ CancelReview \/ Quoted
    BY <1>2 DEF ViewConnects, Review, LockGranted, WalletReady, QuoteFails, CancelReview, Quoted,
       Beside, sessionVars, taskVars, limits, deviceVars
  <1>3. CASE Hide \/ \E on \in BOOLEAN : SetPrivacyLock(on)
    BY <1>3 DEF Hide, SetPrivacyLock, Beside, sessionVars, taskVars, limits
  <1>4. CASE StatusRefreshed
    BY <1>4 DEF StatusRefreshed, ShowAccount, Beside, taskVars, limits, deviceVars
  <1> QED
    BY <1>1, <1>2, <1>3, <1>4, NextIs

(* Every step but a reload keeps what is to come. *)
LEMMA NextFollows ==
    ASSUME IInv, Commanding, BootsFollow, Next, ~Reload
    PROVE  Follows
  <1>1. CASE Beside /\ targets \subseteq targets'
    BY <1>1, BesideFollows DEF Beside, taskVars
  <1> QED
    BY <1>1, BesideIs, CommandFollows, TeardownFollows, AddsFollow, CancelFollows

(* Nothing makes a page fresh again but a reload; being mounted leaves it so.  *)
LEMMA FreshOn ==
    ASSUME IInv, BeforeBoot, Commanding, BootsFollow, Next, ~Reload, Fresh'
    PROVE  Fresh /\ (tasks = <<>> /\ Retain)
  <1>0. tasks' \in Seq(Task) /\ tasks \in Seq(Task) /\ Len(tasks) \in Nat /\ Len(tasks') \in Nat
    <2>1. tasks' \in Seq(Task) /\ tasks \in Seq(Task)
      BY NextIInv DEF IInv, TypeOK
    <2> QED
      BY <2>1
  <1>a. \A t \in TaskIds : t \in 1..Len(tasks)
    BY DEF TaskIds
  <1>b. tasks' = <<>> => Len(tasks') = 0
    OBVIOUS
  <1>1. \A t \in TaskIds : ~CommandStep(t)
    <2> SUFFICES ASSUME NEW t \in TaskIds, CommandStep(t) PROVE FALSE
      OBVIOUS
    <2>1. tasks'[t].step # "queued" /\ Len(tasks') = Len(tasks)
      BY CommandFollows
    <2>2. Len(tasks') = 1 \/ Len(tasks') = 0
      BY <1>b DEF Fresh
    <2>3. t = 1 /\ Len(tasks') = 1
      BY <1>0, <1>a, <2>1, <2>2
    <2> QED
      BY <1>b, <2>1, <2>3 DEF Fresh
  <1>2. \A t \in TaskIds : ~TeardownStep(t)
    <2> SUFFICES ASSUME NEW t \in TaskIds, TeardownStep(t) PROVE FALSE
      OBVIOUS
    <2>1. tasks'[t].step # "queued" /\ Len(tasks') = Len(tasks)
      BY TeardownAt
    <2>2. Len(tasks') = 1 \/ Len(tasks') = 0
      BY <1>b DEF Fresh
    <2>3. t = 1 /\ Len(tasks') = 1
      BY <1>0, <1>a, <2>1, <2>2
    <2> QED
      BY <1>b, <2>1, <2>3 DEF Fresh
  <1>3. ~CancelLedger
    BY CancelFollows
  <1>4. CASE Adds
    <2>1. Len(tasks') > Len(tasks)
      BY <1>4, AddsAdding DEF Adding
    <2>2. Len(tasks') = 1 \/ Len(tasks') = 0
      BY <1>b DEF Fresh
    <2>3. Len(tasks) = 0
      BY <1>0, <2>1, <2>2
    <2>4. tasks = <<>>
      BY <1>0, <2>3
    <2> QED
      BY <2>4, <1>1, FreshSteps DEF Fresh
  <1>5. CASE Beside
    <2>1. Fresh /\ tasks' = tasks
      BY <1>5 DEF Fresh, Beside
    <2>2. ~Retain
      <3>1. ASSUME Retain PROVE FALSE
        <4>1. Adding
          BY <3>1, AddsAdding DEF Adds
        <4> QED
          BY <1>0, <2>1, <4>1 DEF Adding
      <3> QED
        BY <3>1
    <2>3. \E t \in TaskIds : BootRuns(t)
      BY <2>1, <2>2, FreshSteps
    <2> QED
      BY <1>1, <2>3 DEF CommandStep
  <1> QED
    BY <1>1, <1>2, <1>3, <1>4, <1>5, BesideIs

(* So a page that has not booted is as it was. *)
LEMMA BeforeBootOn ==
    ASSUME IInv, BeforeBoot, Commanding, BootsFollow, Next, ~Reload
    PROVE  BeforeBoot'
  <1> SUFFICES ASSUME Fresh' PROVE BeforeBoot'
    BY DEF BeforeBoot
  <1>1. Fresh /\ tasks = <<>> /\ Retain
    BY FreshOn
  <1>2. tasks' # <<>>
    <2>1. Len(tasks') > Len(tasks) /\ Len(tasks) = 0
      BY <1>1, AddsAdding DEF Adds, Adding
    <2> QED
      BY <2>1
  <1> QED
    BY <1>1, <1>2 DEF BeforeBoot, Retain, sessionVars, runtimeVars, paymentVars, deviceVars, limits

-------------------------------------------------------------------------------
(* What a teardown has to find *)

(* Of a page that was opened again, only the saved vault is spoken of.         *)
Concerned(v) == reloads = 0 \/ (v = selected /\ v \in stored)

(* A step may add targets; a vault that it saves is one.                       *)
Widens ==
    /\ targets \subseteq targets' /\ reloads' = reloads
    /\ selected' \in stored' =>
          selected' \in targets' \/ (selected' = selected /\ selected \in stored)

(* A session is accepted, or its account is shown.                             *)
Accepting ==
    /\ ~locked' /\ ~storedLocked' /\ account' = bound'
    /\ account' \in admitted' /\ account' \in targets'
Showing ==
    /\ UNCHANGED <<locked, bound, admitted, storedLocked>>
    /\ account' = account \/ (account' = bound /\ account' \in targets')

(* What the step of a command does to the device and to the session.           *)
Does(t) ==
    /\ Widens /\ UNCHANGED <<worker, privacy>>
    /\ \A v \in Vaults : key'[v] = "active" => key[v] = "active" \/ v \in targets'
    /\ Accepting \/ Showing \/ BootRuns(t)

(* A session that is accepted has its vault among the targets. *)
LEMMA AcceptDoes ==
    ASSUME IInv, NEW v \in Vaults, Accept(v), UNCHANGED reloads
    PROVE  Widens /\ Accepting
  BY DEF Accept, Widens, Accepting

(* So has an account that is shown. *)
LEMMA ShowDoes ==
    ASSUME NEW v, ShowAccount(v), UNCHANGED <<locked, bound, admitted, storedLocked>>
    PROVE  Showing /\ targets \subseteq targets'
  BY DEF ShowAccount, Showing

(* The steps that write nothing. *)
LEMMA AsksDoes ==
    ASSUME IInv, NEW t \in TaskIds, Asks(t)
    PROVE  Does(t)
  BY AsksAt DEF Does, Widens, Showing, deviceVars, limits

(* The steps that end a command, or only ask the service. *)
LEMMA EndsDoes ==
    ASSUME NEW t, CommandDropped(t) \/ CommandFails(t) \/ BootLooksUp(t) \/ Finished(t)
    PROVE  Does(t)
  BY DEF CommandDropped, CommandFails, BootLooksUp, Finished, Does, Widens, Showing, sessionVars,
     deviceVars, limits

(* The steps that write a key write it for a target. *)
LEMMA KeyDoes ==
    ASSUME IInv, Commanding, NEW t \in TaskIds, KeyStaged(t) \/ AfterAccept(t)
    PROVE  Does(t)
  <1>1. /\ Widens /\ UNCHANGED <<worker, privacy>> /\ Showing
        /\ tasks[t].kind \in Commands
    BY DEF KeyStaged, AfterAccept, AtStep, Widens, Showing, sessionVars, deviceVars, limits
  <1>2. key \in [Vaults -> {"none", "staged", "active"}]
    BY PartsTyped DEF DeviceTyped
  <1>3. CASE KeyStaged(t)
    BY <1>1, <1>2, <1>3 DEF KeyStaged, Does
  <1>4. CASE AfterAccept(t)
    <2>1. tasks[t].vault \in targets
      BY <1>1, <1>4 DEF AfterAccept, AtStep, Commanding, Registers
    <2> QED
      BY <1>1, <1>2, <1>4, <2>1 DEF AfterAccept, Does, Widens
  <1> QED
    BY <1>3, <1>4

(* The vault that is proposed is not a saved one. *)
LEMMA ProposedDoes ==
    ASSUME IInv, Commanding, NEW t \in TaskIds, Proposed(t)
    PROVE  Does(t)
  <1>1. tasks[t].vault \notin enrolled
    BY DEF Proposed, AtStep, Commanding, Proposes
  <1>2. stored \subseteq enrolled
    BY PartsTyped DEF DeviceTyped
  <1>3. Widens
    BY <1>1, <1>2 DEF Proposed, Widens, limits
  <1> QED
    BY <1>3 DEF Proposed, Does, Showing

(* The key that is provisioned, and the restored vault that is saved. *)
LEMMA ProvisionDoes ==
    ASSUME IInv, Commanding, NEW t \in TaskIds, KeyProvisioned(t)
    PROVE  Does(t)
  <1>1. /\ tasks[t].vault \in targets /\ tasks[t].vault \in Vaults
        /\ UNCHANGED <<worker, privacy, reloads>>
    BY CommandAt DEF KeyProvisioned, AtStep, Commanding, Registers, CommandOk, limits
  <1>2. key \in [Vaults -> {"none", "staged", "active"}]
    BY PartsTyped DEF DeviceTyped
  <1>3. targets \subseteq targets'
    BY CommandLands DEF CommandStep, Lands
  <1>4. Widens /\ (Accepting \/ Showing)
    <2>1. CASE Accept(tasks[t].vault)
      BY <1>1, <2>1, AcceptDoes
    <2>2. CASE ~Accept(tasks[t].vault)
      <3>1. /\ stored' = IF tasks[t].kind = "restore" THEN stored \cup {tasks[t].vault} ELSE stored
            /\ selected' = IF tasks[t].kind = "restore" THEN tasks[t].vault ELSE selected
            /\ UNCHANGED <<locked, bound, admitted, storedLocked>>
            /\ account' = account \/ ShowAccount(tasks[t].vault)
        BY <2>2 DEF KeyProvisioned
      <3>2. Showing
        BY <3>1, ShowDoes DEF Showing
      <3> QED
        BY <1>1, <1>3, <3>1, <3>2 DEF Widens
    <2> QED
      BY <2>1, <2>2
  <1>5. key' = [key EXCEPT ![tasks[t].vault] = "active"]
    BY DEF KeyProvisioned
  <1> QED
    BY <1>1, <1>2, <1>3, <1>4, <1>5 DEF Does

(* The status that arrives. *)
LEMMA FetchedDoes ==
    ASSUME IInv, Commanding, NEW t \in TaskIds, StatusFetched(t)
    PROVE  Does(t)
  <1>1. UNCHANGED <<worker, privacy, reloads, key>> /\ tasks[t].vault \in Vaults
    BY CommandAt DEF StatusFetched, AtStep, CommandOk, limits
  <1>2. Widens /\ (Accepting \/ Showing)
    <2>1. CASE Accept(tasks[t].vault)
      BY <1>1, <2>1, AcceptDoes
    <2>2. CASE ~Accept(tasks[t].vault)
      <3>1. /\ UNCHANGED <<stored, selected, locked, bound, admitted, storedLocked>>
            /\ UNCHANGED <<account, targets>> \/ ShowAccount(tasks[t].vault)
        BY <2>2 DEF StatusFetched, sessionVars
      <3>2. Showing /\ targets \subseteq targets'
        BY <3>1, ShowDoes DEF Showing
      <3> QED
        BY <1>1, <3>1, <3>2 DEF Widens
    <2> QED
      BY <2>1, <2>2
  <1> QED
    BY <1>1, <1>2 DEF Does

(* The staged vault that is activated. *)
LEMMA ActivatedDoes ==
    ASSUME IInv, Commanding, NEW t \in TaskIds, Activated(t)
    PROVE  Does(t)
  <1>1. /\ staged \in targets /\ staged \in Vaults /\ UNCHANGED <<worker, privacy, reloads>>
    BY PartsTyped DEF Activated, AtStep, Commanding, Registers, limits, SessionTyped
  <1>2. key \in [Vaults -> {"none", "staged", "active"}]
    BY PartsTyped DEF DeviceTyped
  <1>3. Widens /\ (Accepting \/ Showing)
    <2>1. CASE Accept(staged)
      BY <1>1, <2>1, AcceptDoes
    <2>2. CASE ~Accept(staged)
      <3>1. /\ UNCHANGED <<sessionVars, storedLocked>>
            /\ UNCHANGED <<stored, selected>> \/ selected' = staged
        BY <2>2 DEF Activated
      <3> QED
        BY <1>1, <3>1 DEF Widens, Showing, sessionVars
    <2> QED
      BY <2>1, <2>2
  <1>4. key' = [key EXCEPT ![staged] = "active"] /\ targets \subseteq targets'
    BY <1>3 DEF Activated, Widens
  <1> QED
    BY <1>1, <1>2, <1>3, <1>4 DEF Does

(* The vault that a boot selects. *)
LEMMA BootDoes ==
    ASSUME IInv, NEW t \in TaskIds, BootRuns(t)
    PROVE  Does(t)
  <1>1. /\ selected' = NoVault \/ selected' \in targets'
        /\ targets \subseteq targets' /\ UNCHANGED <<worker, privacy, reloads, key, stored>>
    BY DEF BootRuns, limits
  <1>2. NoVault \notin stored
    BY PartsTyped DEF DeviceTyped
  <1> QED
    BY <1>1, <1>2 DEF Does, Widens

(* Every step of a command does so. *)
LEMMA CommandDoes ==
    ASSUME IInv, Commanding, NEW t \in TaskIds, CommandStep(t)
    PROVE  Does(t)
  BY AsksDoes, EndsDoes, KeyDoes, ProposedDoes, ProvisionDoes, FetchedDoes, ActivatedDoes, BootDoes
     DEF CommandStep, Asks

(* The vault that has a key or a worker is a target of the next teardown.      *)
HeldIsTarget == ~Fresh /\ Forgetful =>
    \A v \in Vaults : Concerned(v) /\ (key[v] = "active" \/ v \in worker) => v \in targets

(* The account that is open, or opens without a passkey, was admitted.         *)
OpensAdmitted == reloads = 0 /\ Forgetful =>
    /\ \A v \in {account, bound} \ {NoVault} : ~locked \/ ~storedLocked => v \in admitted
    /\ privacy /\ ~storedLocked => admitted # {}
OpenIsTarget == Open /\ Forgetful /\ Concerned(account) => account \in targets

(* The runtime in use serves a target, or will not register a worker.          *)
InUseIsTarget ==
    current # 0 /\ Forgetful /\ Concerned(runtimes[current].vault) =>
        runtimes[current].vault \in targets \/ StuckInUse

(* A clean-up misses no target, and what it stopped stays so.                  *)
Cleaner(t) ==
    /\ tasks[t].step # "queued" => targets \subseteq tasks[t].cleanup
    /\ tasks[t].step \in {"stop", "drop"} => (Serves(tasks[t].vault) => StuckInUse)
    /\ tasks[t].step = "drop" => tasks[t].vault \notin worker
    /\ tasks[t].step = "stop" =>
          /\ tasks[t].stopping \in RuntimeIds
          /\ runtimes[tasks[t].stopping].vault = tasks[t].vault
          /\ runtimes[tasks[t].stopping].disposed
          /\ runtimes[tasks[t].stopping].closes
          /\ runtimes[tasks[t].stopping].step = "retired" => tasks[t].vault \notin worker
Cleaners == \A t \in TaskIds : tasks[t].kind = "teardown" => Cleaner(t)

(* After a clean-up and before the next command there is no target.            *)
NothingLeft ==
    /\ draining # 0 /\ tasks[draining].step = "ended"
    /\ \A t \in TaskIds : t > draining => tasks[t].step = "queued"
    => targets = {} /\ locked

(* What a teardown finds, and what it leaves.                                  *)
Tracked ==
    /\ HeldIsTarget /\ OpensAdmitted /\ OpenIsTarget /\ InUseIsTarget /\ Cleaners /\ NothingLeft
LInv == Served /\ BeforeBoot /\ BootsFollow /\ Commanding /\ Tracked

(* Who is spoken of after a step was so before, or is a target. *)
LEMMA ConcernedOn ==
    ASSUME Widens, NEW v, Concerned(v)'
    PROVE  Concerned(v) \/ v \in targets'
  BY DEF Widens, Concerned

(* A command that is stuck with the runtime in use stays so. *)
LEMMA InUseStays ==
    ASSUME StuckOn, current' = current, StuckInUse
    PROVE  StuckInUse'
  BY DEF StuckOn, StuckInUse

(* The runtime in use after a step. *)
LEMMA InUseOn ==
    ASSUME IInv, Serving, UseOn, InUseIsTarget, Widens, Forgetful' => Forgetful, OpenIsTarget'
    PROVE  InUseIsTarget'
  <1> SUFFICES ASSUME current' # 0, Forgetful', Concerned(runtimes[current].vault)'
               PROVE  runtimes'[current'].vault \in targets' \/ StuckInUse'
    BY DEF InUseIsTarget
  <1>1. CASE current' = current
    <2>1. current \in RuntimeIds
      BY <1>1, PartsTyped DEF RuntimeTyped, RuntimeIds
    <2>2. PICK v : v = runtimes[current].vault
      OBVIOUS
    <2>3. runtimes'[current'].vault = v
      BY <1>1, <2>1, <2>2 DEF Serving, Onward
    <2>4. Concerned(v)'
      BY <2>3 DEF Concerned
    <2>5. Concerned(v) \/ v \in targets'
      BY <2>4, ConcernedOn
    <2>6. CASE Concerned(v)
      <3>1. v \in targets \/ StuckInUse
        BY <1>1, <2>2, <2>6 DEF InUseIsTarget
      <3> QED
        BY <1>1, <2>3, <3>1, InUseStays DEF Widens, Serving
    <2> QED
      BY <2>3, <2>5, <2>6
  <1>2. CASE Open' /\ runtimes'[current'].vault = account'
    <2>1. Concerned(account)'
      BY <1>2 DEF Concerned
    <2> QED
      BY <1>2, <2>1 DEF OpenIsTarget
  <1> QED
    BY <1>1, <1>2 DEF UseOn

(* Where no clean-up is under way. *)
LEMMA NoCleaner ==
    ASSUME \A u \in TaskIds' : tasks'[u].kind = "teardown" => tasks'[u].step = "queued"
    PROVE  Cleaners'
  BY DEF Cleaners, Cleaner

(* A boot finds nothing to clean up: it is the first task of its page, or the  *)

(* first after a clean-up.                                                     *)
LEMMA BootFinds ==
    ASSUME IInv, LInv, NEW t \in TaskIds, BootRuns(t)
    PROVE  targets = {} /\ locked /\ admitted = {}
  <1>1. CASE Fresh
    BY <1>1, PartsTyped DEF LInv, BeforeBoot, SessionTyped
  <1>2. CASE ~Fresh
    <2>1. /\ tasks[t].kind = "boot" /\ tasks[t].step = "queued" /\ ~tasks[t].aborted
          /\ \A a \in tasks[t].after : tasks[a].step = "ended"
      BY DEF BootRuns, Runs, Starts, AtStep
    <2>2. draining = t - 1 /\ draining \in tasks[t].after
      BY <1>2, <2>1 DEF LInv, BootsFollow
    <2>3. t \in Nat /\ t >= 1 /\ draining \in Nat /\ tasks[t] \in Task /\ MaxTasks \in Nat
      BY TasksAre
    <2>4. draining # 0
      BY <2>2, <2>3, TaskFields
    <2>5. Foremost(t)
      BY CommandFollows DEF CommandStep, LInv
    <2>6. ASSUME NEW u \in TaskIds, u > draining PROVE tasks[u].step = "queued"
      <3>1. u \in Nat
        BY TasksAre
      <3>2. u = t \/ u > t
        BY <2>2, <2>3, <2>6, <3>1
      <3> QED
        BY <2>1, <2>5, <3>2 DEF Foremost
    <2>7. targets = {} /\ locked
      BY <2>1, <2>2, <2>4, <2>6 DEF LInv, Tracked, NothingLeft
    <2> QED
      BY <2>7, PartsTyped DEF SessionTyped
  <1> QED
    BY <1>1, <1>2

(* What a boot chooses is a target, and what it opens is admitted. *)
LEMMA BootTracks ==
    ASSUME IInv, LInv, NEW t \in TaskIds, BootRuns(t), Forgetful
    PROVE  OpensAdmitted' /\ OpenIsTarget'
  <1>1. targets = {} /\ locked /\ admitted = {}
    BY BootFinds
  <1>2. PICK existing \in BootVault :
            /\ selected' = (IF existing = NoVault THEN selected ELSE existing)
            /\ bound' = existing
            /\ locked' = (storedLocked \/ (existing # NoVault /\ privacy))
            /\ admitted' = IF locked' THEN admitted ELSE admitted \cup ({existing} \ {NoVault})
            /\ targets' = targets \cup ({selected', staged} \ {NoVault})
    BY DEF BootRuns
  <1>3. UNCHANGED <<account, stored, staged, storedLocked, privacy, reloads>>
    BY DEF BootRuns, limits
  <1>4. ASSUME reloads = 0, ~storedLocked PROVE account = NoVault /\ ~privacy
    BY <1>1, <1>4 DEF LInv, Tracked, OpensAdmitted
  <1>5. OpensAdmitted'
    <2> SUFFICES ASSUME reloads = 0, Forgetful'
                 PROVE  /\ \A v \in {account, bound'} \ {NoVault} :
                              ~locked' \/ ~storedLocked => v \in admitted'
                        /\ privacy /\ ~storedLocked => admitted' # {}
      BY <1>3 DEF OpensAdmitted
    <2>1. CASE storedLocked
      BY <1>2, <2>1
    <2>2. CASE ~storedLocked
      <3>1. account = NoVault /\ ~privacy
        BY <1>4, <2>2
      <3>2. admitted' = admitted \cup ({existing} \ {NoVault})
        BY <1>2, <2>2, <3>1
      <3> QED
        BY <1>2, <3>1, <3>2
    <2> QED
      BY <2>1, <2>2
  <1>6. OpenIsTarget'
    <2> SUFFICES ASSUME Open', Concerned(account)' PROVE account' \in targets'
      BY DEF OpenIsTarget
    <2>1. account # NoVault /\ ~locked'
      BY <1>3 DEF Open, Identity
    <2>2. reloads # 0
      BY <1>2, <1>4, <2>1
    <2>3. account' = selected'
      BY <1>3, <2>2 DEF Concerned
    <2> QED
      BY <1>2, <1>3, <2>1, <2>3
  <1> QED
    BY <1>5, <1>6

(* A page that has not booted has at most the key of the saved vault.          *)
LEMMA BootHeld ==
    ASSUME IInv, LInv, Fresh, NEW t \in TaskIds, BootRuns(t)
    PROVE  HeldIsTarget'
  <1> SUFFICES ASSUME NEW v \in Vaults, Concerned(v)', key'[v] = "active" \/ v \in worker'
               PROVE  v \in targets'
    BY DEF HeldIsTarget
  <1>1. PICK existing \in BootVault :
            /\ selected' = (IF existing = NoVault THEN selected ELSE existing)
            /\ targets' = targets \cup ({selected', staged} \ {NoVault})
    BY DEF BootRuns
  <1>2. UNCHANGED <<key, worker, stored, reloads>> /\ NoVault \notin Vaults
    BY PartsTyped DEF BootRuns, limits
  <1>3. CASE reloads = 0
    <2>1. stored = {selected} \ {NoVault} /\ v \in stored
      BY <1>2, <1>3 DEF LInv, BeforeBoot
    <2>2. selected = v /\ existing = v
      BY <1>1, <2>1 DEF BootVault, StoredVault
    <2> QED
      BY <1>1, <1>2, <2>2
  <1>4. CASE reloads # 0
    BY <1>1, <1>2, <1>4 DEF Concerned
  <1> QED
    BY <1>3, <1>4

(* Every step of a command keeps track of what a teardown has to find.         *)
LEMMA CommandTracks ==
    ASSUME IInv, LInv, NEW t \in TaskIds, CommandStep(t), Serving, UseOn,
           Fresh => BootRuns(t)
    PROVE  Tracked'
  <1>1. /\ Follows /\ Foremost(t) /\ tasks[t].kind \in Commands
        /\ tasks'[t].kind # "teardown" /\ tasks'[t].step # "queued"
        /\ TaskIds' = TaskIds
        /\ \A u \in TaskIds : u # t => tasks'[u] = tasks[u]
        /\ draining' = draining
    BY CommandFollows DEF LInv
  <1>2. Does(t) /\ (Forgetful' => Forgetful)
    BY <1>1, CommandDoes DEF LInv, Follows
  <1>3. HeldIsTarget'
    <2>1. CASE Fresh
      BY <2>1, BootHeld
    <2>2. CASE ~Fresh
      <3> SUFFICES ASSUME Forgetful', NEW v \in Vaults, Concerned(v)',
                          key'[v] = "active" \/ v \in worker'
                   PROVE  v \in targets'
        BY DEF HeldIsTarget
      <3>1. Concerned(v) \/ v \in targets'
        BY <1>2, ConcernedOn DEF Does
      <3>2. key[v] = "active" \/ v \in worker \/ v \in targets'
        BY <1>2 DEF Does
      <3>3. Concerned(v) /\ (key[v] = "active" \/ v \in worker) => v \in targets
        BY <1>2, <2>2 DEF LInv, Tracked, HeldIsTarget
      <3> QED
        BY <1>2, <3>1, <3>2, <3>3 DEF Does, Widens
    <2> QED
      BY <2>1, <2>2
  <1>4. OpensAdmitted' /\ OpenIsTarget'
    <2>0. SUFFICES ASSUME Forgetful' PROVE OpensAdmitted' /\ OpenIsTarget'
      BY DEF OpensAdmitted, OpenIsTarget
    <2>1. CASE BootRuns(t)
      BY <1>2, <2>0, <2>1, BootTracks
    <2>2. CASE Accepting
      BY <2>2 DEF Accepting, OpensAdmitted, OpenIsTarget
    <2>3. CASE Showing
      <3>1. OpensAdmitted'
        <4>1. OpensAdmitted /\ UNCHANGED <<locked, bound, admitted, storedLocked, privacy, reloads>>
              /\ account' \in {account, bound}
          BY <1>2, <2>3 DEF LInv, Tracked, Does, Showing, Widens
        <4> QED
          BY <1>2, <2>0, <4>1 DEF OpensAdmitted
      <3>2. OpenIsTarget'
        <4>0. SUFFICES ASSUME Open', Concerned(account)', account' \notin targets' PROVE FALSE
          BY DEF OpenIsTarget
        <4>1. account' = account /\ locked' = locked /\ Widens
          BY <1>2, <2>3, <4>0 DEF Showing, Does
        <4>2. Open
          BY <4>0, <4>1 DEF Open, Identity
        <4>3. PICK v : v = account
          OBVIOUS
        <4>4. Concerned(v)'
          BY <4>0, <4>1, <4>3 DEF Concerned
        <4>5. Concerned(account)
          BY <4>0, <4>1, <4>3, <4>4, ConcernedOn DEF Concerned
        <4>6. account \in targets
          BY <1>2, <2>0, <4>2, <4>5 DEF LInv, Tracked, OpenIsTarget
        <4> QED
          BY <4>0, <4>1, <4>6 DEF Widens
      <3> QED
        BY <3>1, <3>2
    <2> QED
      BY <1>2, <2>1, <2>2, <2>3 DEF Does
  <1>5. InUseIsTarget'
    BY <1>2, <1>4, InUseOn DEF LInv, Tracked, Does
  <1>6. Cleaners'
    <2>1. ASSUME NEW u \in TaskIds, tasks'[u].kind = "teardown" PROVE tasks'[u].step = "queued"
      <3>1. u # t /\ tasks'[u] = tasks[u]
        BY <1>1, <2>1
      <3> QED
        BY <1>1, <2>1, <3>1, BehindForemost
    <2> QED
      BY <1>1, <2>1, NoCleaner
  <1>7. NothingLeft'
    <2>0. SUFFICES ASSUME draining' # 0, tasks'[draining'].step = "ended",
                          \A u \in TaskIds : u > draining' => tasks'[u].step = "queued"
                   PROVE  FALSE
      BY <1>1 DEF NothingLeft
    <2>1. draining \in TaskIds /\ draining # t /\ t \in Nat /\ draining \in Nat
      <3>1. draining \in 0..Len(tasks) /\ t \in Nat
        BY TasksAre
      <3>2. tasks[draining].kind \notin Commands
        BY <1>1, <2>0 DEF IInv, Flights
      <3> QED
        BY <1>1, <2>0, <3>1, <3>2 DEF TaskIds
    <2>2. ~(t > draining)
      BY <1>1, <2>0
    <2>3. draining > t
      BY <2>1, <2>2
    <2>4. tasks[draining].step = "queued"
      BY <1>1, <2>1, <2>3 DEF Foremost
    <2> QED
      BY <1>1, <2>0, <2>1, <2>4
  <1> QED
    BY <1>3, <1>4, <1>5, <1>6, <1>7 DEF Tracked

(* A worker is registered only by the runtime in use, and not by one that the  *)
(* payment command is stuck with; a runtime that retires has stopped its own.  *)
Works ==
    /\ \A v \in worker' \ worker : Serves(v) /\ ~StuckInUse
    /\ \A s \in RuntimeIds :
          runtimes'[s].step = "retired" /\ runtimes[s].closes =>
             runtimes[s].step = "retired" \/ runtimes[s].vault \notin worker'

(* The steps of a runtime. *)
LEMMA RuntimeWorks ==
    ASSUME IInv, Served, NEW r \in RuntimeIds, RuntimeStep(r)
    PROVE  Works
  <1>0. RuntimeTyped /\ current' = current
    BY PartsTyped DEF RuntimeStep, RegistersWorker, ConnectionCreated, Retires
  <1>1. PICK step \in {"idle", "creating", "open", "retired", "broken"} :
            /\ runtimes' = [runtimes EXCEPT ![r].step = step]
            /\ step = "retired" /\ runtimes[r].closes => runtimes[r].vault \notin worker'
    BY DEF RuntimeStep, RegistersWorker, ConnectionCreated, Retires
  <1>2. /\ runtimes'[r].step = step
        /\ \A q \in RuntimeIds : q # r => runtimes'[q].step = runtimes[q].step
    BY <1>0, <1>1, RuntimeAtStep
  <1>3. ASSUME NEW v \in worker' \ worker PROVE Serves(v) /\ ~StuckInUse
    <2>1. RegistersWorker(r) /\ v = runtimes[r].vault /\ ~runtimes[r].disposed
      BY <1>3 DEF RuntimeStep, RegistersWorker, ConnectionCreated, Retires
    <2>2. r = current /\ r # 0
      BY <1>0, <2>1, RuntimeIs DEF Served, RuntimesReplaced
    <2>3. \A q \in 1..(r - 1) : runtimes[q].step \in Gone
      BY <2>1, RegistersIs
    <2>4. ~StuckInUse
      BY <2>2, <2>3 DEF StuckInUse, Stuck, Lasts
    <2> QED
      BY <2>1, <2>2, <2>4 DEF Serves
  <1> QED
    BY <1>1, <1>2, <1>3 DEF Works

(* The lifecycle lock that is granted retires no runtime. *)
LEMMA GrantWorks ==
    ASSUME IInv, Served, LockGranted
    PROVE  Works
  <1>1. /\ RuntimeTyped /\ command.vault \in Vaults /\ worker' = worker
    <2>1. command \in PaymentCommand
      BY PartsTyped DEF LockGranted, PaymentTyped
    <2> QED
      BY <2>1, PartsTyped DEF LockGranted, PaymentCommand, deviceVars
  <1>2. PICK rs, r : rs = WithRuntime(command.vault) /\ r = RuntimeOf(command.vault)
    OBVIOUS
  <1>3. /\ rs \in Seq(Runtime) /\ r \in 1..Len(rs) /\ Len(runtimes) <= Len(rs)
        /\ \A q \in RuntimeIds : rs[q].step = runtimes[q].step
    BY <1>1, <1>2, WithRuntimeIs DEF Served
  <1>4. PICK e \in Runtime :
              /\ Connecting(rs, r) = [rs EXCEPT ![r] = e]
              /\ e.step = IF rs[r].step = "idle" THEN "waiting" ELSE rs[r].step
    BY <1>3, ConnectingIs
  <1>5. runtimes' = [rs EXCEPT ![r] = e]
    BY <1>2, <1>4 DEF LockGranted
  <1>6. runtimes'[r] = e /\ \A q \in 1..Len(rs) : q # r => runtimes'[q] = rs[q]
    BY <1>3, <1>5, Replaced
  <1>7. \A q \in RuntimeIds : q \in 1..Len(rs)
    <2>1. Len(runtimes) \in Nat /\ Len(rs) \in Nat
      BY <1>1, <1>3 DEF RuntimeTyped
    <2> QED
      BY <1>3, <2>1 DEF RuntimeIds
  <1>8. ASSUME NEW q \in RuntimeIds, runtimes'[q].step = "retired"
        PROVE  runtimes[q].step = "retired"
    BY <1>3, <1>4, <1>6, <1>7, <1>8
  <1> QED
    BY <1>1, <1>8 DEF Works

(* Where runtimes and workers stay as they are. *)
LEMMA SameWorks ==
    ASSUME UNCHANGED <<runtimes, worker>>
    PROVE  Works
  BY DEF Works

(* A clean-up under way keeps what it stopped. *)
LEMMA CleanerOn ==
    ASSUME IInv, IInv', Serving, UseOn, Works, NEW u \in TaskIds, u \in TaskIds', Cleaner(u),
           tasks[u].kind = "teardown", tasks'[u].kind = "teardown",
           tasks'[u].step = tasks[u].step, tasks'[u].vault = tasks[u].vault,
           tasks'[u].cleanup = tasks[u].cleanup, tasks'[u].stopping = tasks[u].stopping,
           targets' \subseteq targets
    PROVE  Cleaner(u)'
  <1>1. locked' /\ ~Open'
    BY DEF IInv, Torn, Open, Identity
  <1>2. PICK v : v = tasks[u].vault
    OBVIOUS
  <1>3. PICK s : s = tasks[u].stopping
    OBVIOUS
  <1>4. CASE tasks[u].step \in {"stop", "drop"}
    <2>1. Serves(v) => StuckInUse
      BY <1>2, <1>4 DEF Cleaner
    <2>2. ASSUME current' # 0, runtimes'[current'].vault = v PROVE StuckInUse'
      <3>1. CASE current' = current
        <4>1. current \in RuntimeIds
          BY <2>2, <3>1, PartsTyped DEF RuntimeTyped, RuntimeIds
        <4>2. runtimes'[current].vault = runtimes[current].vault
          BY <4>1 DEF Serving, Onward
        <4>3. StuckInUse
          BY <2>1, <2>2, <3>1, <4>2 DEF Serves
        <4> QED
          BY <3>1, <4>3, InUseStays DEF Serving
      <3> QED
        BY <1>1, <2>2, <3>1 DEF UseOn
    <2>3. v \notin worker => v \notin worker'
      BY <2>1 DEF Works
    <2>4. ASSUME tasks[u].step = "stop"
          PROVE  /\ s \in RuntimeIds' /\ runtimes'[s].vault = v /\ runtimes'[s].disposed
                 /\ runtimes'[s].closes /\ (runtimes'[s].step = "retired" => v \notin worker')
      <3>1. /\ s \in RuntimeIds /\ runtimes[s].vault = v /\ runtimes[s].disposed
            /\ runtimes[s].closes /\ (runtimes[s].step = "retired" => v \notin worker)
        BY <1>2, <1>3, <2>4 DEF Cleaner
      <3>2. /\ s \in RuntimeIds' /\ runtimes'[s].vault = v /\ runtimes'[s].disposed
            /\ runtimes'[s].closes
        BY <3>1 DEF Serving, Onward
      <3>3. runtimes'[s].step = "retired" => v \notin worker'
        BY <2>3, <3>1 DEF Works
      <3> QED
        BY <3>2, <3>3
    <2>5. tasks[u].step = "drop" => v \notin worker
      BY <1>2 DEF Cleaner
    <2>6. targets \subseteq tasks[u].cleanup
      BY <1>4 DEF Cleaner
    <2> QED
      BY <1>2, <1>3, <1>4, <2>2, <2>3, <2>4, <2>5, <2>6 DEF Cleaner, Serves
  <1>5. CASE tasks[u].step \notin {"stop", "drop"}
    BY <1>5 DEF Cleaner
  <1> QED
    BY <1>4, <1>5

(* A teardown that runs is not the boot of a fresh page. *)
LEMMA TeardownNotFresh ==
    ASSUME IInv, NEW t \in TaskIds, tasks[t].kind = "teardown"
    PROVE  ~Fresh
  <1>1. t \in Nat /\ t >= 1 /\ t <= Len(tasks)
    BY TasksAre
  <1>2. tasks # <<>>
    <2>1. Len(tasks) # 0
      BY <1>1, TasksAre
    <2> QED
      BY <2>1
  <1>3. Len(tasks) = 1 => t = 1
    BY <1>1
  <1> QED
    BY <1>2, <1>3 DEF Fresh

(* The steps of a clean-up that drop no key leave the targets and the keys.    *)
LEMMA CleansOn ==
    ASSUME IInv, NEW t \in TaskIds, TeardownStep(t), ~DropKey(t)
    PROVE  UNCHANGED <<targets, admitted, key>> /\ worker' \subseteq worker
  <1>1. CASE StartCleaning(t) \/ CleaningEnds(t) \/ WorkerStopped(t) \/ StopFails(t)
    BY <1>1 DEF StartCleaning, CleaningEnds, WorkerStopped, StopFails, sessionVars, deviceVars
  <1>2. ASSUME NEW v, StopWorker(t, v)
        PROVE  UNCHANGED <<targets, admitted, key>> /\ worker' \subseteq worker
    BY <1>2 DEF StopWorker, sessionVars
  <1> QED
    BY <1>1, <1>2 DEF TeardownStep

(* The key that is dropped is of a vault without a worker, and not kept.       *)
LEMMA DropsIt ==
    ASSUME IInv, LInv, NEW t \in TaskIds, DropKey(t), Forgetful
    PROVE  /\ tasks[t].vault \in Vaults /\ tasks[t].vault \notin worker
           /\ targets' = targets \ {tasks[t].vault} /\ key'[tasks[t].vault] # "active"
           /\ \A v \in Vaults : v # tasks[t].vault => key'[v] = key[v]
           /\ storedLocked \/ admitted' = admitted
           /\ Serves(tasks[t].vault) => StuckInUse
           /\ UNCHANGED <<worker, runtimes, current, command>>
  <1>1. /\ tasks[t].kind = "teardown" /\ tasks[t].step = "drop" /\ tasks[t].vault \in Vaults
        /\ storedLocked \/ admitted \subseteq tasks[t].preserve
    BY CleanerAt DEF DropKey
  <1>2. tasks[t].preserve = {}
    BY DEF Forgetful
  <1>3. Cleaner(t)
    BY <1>1 DEF LInv, Tracked, Cleaners
  <1>4. key \in [Vaults -> {"none", "staged", "active"}]
    BY PartsTyped DEF DeviceTyped
  <1>5. /\ key' = [key EXCEPT ![tasks[t].vault] =
                     IF tasks[t].stage # tasks[t].vault THEN "none"
                     ELSE IF @ = "active" THEN "staged" ELSE @]
        /\ targets' = targets \ {tasks[t].vault} /\ admitted' = admitted \ {tasks[t].vault}
        /\ UNCHANGED <<worker, runtimes, current, command>>
    BY <1>2 DEF DropKey, runtimeVars, paymentVars
  <1>6. /\ key'[tasks[t].vault] # "active"
        /\ \A v \in Vaults : v # tasks[t].vault => key'[v] = key[v]
    BY <1>1, <1>4, <1>5
  <1> QED
    BY <1>1, <1>2, <1>3, <1>5, <1>6 DEF Cleaner

(* Where a clean-up is after its step, and what it has still to do.            *)
LEMMA CleanerMoves ==
    ASSUME IInv, LInv, NEW t \in TaskIds, TeardownStep(t), Serving,
           tasks'[t].kind = "teardown"
    PROVE  Cleaner(t)'
  <1>0. Cleaner(t) /\ tasks[t].kind = "teardown"
    BY TeardownAt DEF LInv, Tracked, Cleaners
  <1>1. CASE StartCleaning(t)
    <2>1. targets' = targets
      BY <1>1, CleansOn DEF StartCleaning, sessionVars
    <2> QED
      BY <1>1, <2>1, StartTo DEF Cleaner
  <1>2. CASE CleaningEnds(t) \/ StopFails(t)
    BY <1>2, OverTo DEF CleaningEnds, StopFails, Fails
  <1>3. CASE DropKey(t)
    <2>1. targets' = targets \ {tasks[t].vault} /\ tasks[t].step = "drop"
      BY <1>3 DEF DropKey
    <2>2. targets \subseteq tasks[t].cleanup
      BY <1>0, <2>1 DEF Cleaner
    <2> QED
      BY <1>3, <2>1, <2>2, DropTo DEF Cleaner
  <1>4. CASE WorkerStopped(t)
    <2>1. /\ UNCHANGED <<targets, worker, runtimes, current, command>> /\ tasks[t].step = "stop"
      BY <1>4 DEF WorkerStopped, sessionVars, deviceVars, runtimeVars, paymentVars
    <2>2. /\ runtimes[tasks[t].stopping].step = "retired" /\ tasks'[t].step = "drop"
          /\ tasks'[t].vault = tasks[t].vault /\ tasks'[t].cleanup = tasks[t].cleanup
      BY <1>4, StoppedTo
    <2>3. /\ targets \subseteq tasks[t].cleanup /\ (Serves(tasks[t].vault) => StuckInUse)
          /\ tasks[t].vault \notin worker
      BY <1>0, <2>1, <2>2 DEF Cleaner
    <2>4. PICK v : v = tasks[t].vault
      OBVIOUS
    <2>5. (current' # 0 /\ runtimes'[current'].vault = v) => StuckInUse'
      BY <2>1, <2>3, <2>4 DEF Serves, StuckInUse, Stuck, Lasts, RuntimeIds
    <2> QED
      BY <2>1, <2>2, <2>3, <2>4, <2>5 DEF Cleaner, Serves
  <1>5. ASSUME NEW v \in Vaults, StopWorker(t, v) PROVE Cleaner(t)'
    <2>1. /\ tasks'[t].vault = v /\ tasks'[t].cleanup = tasks[t].cleanup
          /\ IF Serves(v) THEN tasks'[t].step = "stop" /\ tasks'[t].stopping = current
             ELSE tasks'[t].step = "drop"
      BY <1>5, StopTo
    <2>2. targets \subseteq tasks[t].cleanup /\ targets' = targets
      BY <1>0, <1>5 DEF Cleaner, StopWorker, sessionVars
    <2>3. CASE Serves(v)
      <3>1. /\ current \in RuntimeIds /\ runtimes'[current].closes
            /\ runtimes'[current].disposed /\ current' = 0
            /\ runtimes'[current].step = runtimes[current].step
        BY <1>5, <2>3, StopServes DEF LInv
      <3>2. current \in RuntimeIds' /\ runtimes'[current].vault = v
        BY <2>3, <3>1 DEF Serving, Onward, Serves
      <3>3. runtimes'[current].step # "retired"
        BY <3>1 DEF LInv, Served, RuntimesReplaced, Gone
      <3>4. PICK s : s = current
        OBVIOUS
      <3>5. /\ s \in RuntimeIds' /\ runtimes'[s].vault = v /\ runtimes'[s].disposed
            /\ runtimes'[s].closes /\ runtimes'[s].step # "retired"
        BY <3>1, <3>2, <3>3, <3>4
      <3>6. tasks'[t].step = "stop" /\ tasks'[t].stopping = s
        BY <2>1, <2>3, <3>4
      <3> QED
        BY <2>1, <2>2, <3>1, <3>5, <3>6 DEF Cleaner, Serves
    <2>4. CASE ~Serves(v)
      <3>1. UNCHANGED <<runtimes, current>> /\ v \notin worker'
        BY <1>5, <2>4 DEF StopWorker, runtimeVars
      <3>2. ~(current' # 0 /\ runtimes'[current'].vault = v)
        BY <2>4, <3>1 DEF Serves
      <3> QED
        BY <2>1, <2>2, <2>4, <3>1, <3>2 DEF Cleaner, Serves
    <2> QED
      BY <2>3, <2>4
  <1> QED
    BY <1>1, <1>2, <1>3, <1>4, <1>5 DEF TeardownStep

(* Every step of a teardown keeps track: what it takes from the targets has    *)

(* neither key nor worker.                                                     *)
LEMMA TeardownTracks ==
    ASSUME IInv, LInv, NEW t \in TaskIds, TeardownStep(t), Serving, UseOn
    PROVE  Tracked'
  <1>1. /\ Foremost(t) /\ tasks[t].kind = "teardown" /\ TaskIds' = TaskIds
        /\ locked /\ locked' = locked
        /\ \A u \in TaskIds : u # t => tasks'[u] = tasks[u]
        /\ admitted' \subseteq admitted
        /\ UNCHANGED <<flight, draining, mounted, account, bound, stored, selected,
                       staged, storedLocked, privacy, enrolled, reloads>>
    BY TeardownAt
  <1>2. Forgetful' => Forgetful
    BY TeardownFollows DEF Follows, LInv
  <1>3. HeldIsTarget'
    <2> SUFFICES ASSUME Forgetful', NEW v \in Vaults, Concerned(v)',
                        key'[v] = "active" \/ v \in worker'
                 PROVE  v \in targets'
      BY DEF HeldIsTarget
    <2>1. Concerned(v) /\ ~Fresh /\ Forgetful
      BY <1>1, <1>2, TeardownNotFresh DEF Concerned
    <2>2. key[v] = "active" \/ v \in worker => v \in targets
      BY <2>1 DEF LInv, Tracked, HeldIsTarget
    <2>3. CASE DropKey(t)
      <3>1. v # tasks[t].vault
        BY <2>1, <2>3, DropsIt
      <3> QED
        BY <2>1, <2>2, <2>3, <3>1, DropsIt
    <2>4. CASE ~DropKey(t)
      BY <2>2, <2>4, CleansOn
    <2> QED
      BY <2>3, <2>4
  <1>4. OpensAdmitted'
    <2> SUFFICES ASSUME Forgetful', reloads = 0
                 PROVE  /\ \A v \in {account, bound} \ {NoVault} : ~storedLocked => v \in admitted'
                        /\ privacy /\ ~storedLocked => admitted' # {}
      BY <1>1 DEF OpensAdmitted
    <2>1. /\ \A v \in {account, bound} \ {NoVault} : ~storedLocked => v \in admitted
          /\ privacy /\ ~storedLocked => admitted # {}
      BY <1>2 DEF LInv, Tracked, OpensAdmitted
    <2>2. storedLocked \/ admitted' = admitted
      BY <1>2, DropsIt, CleansOn
    <2> QED
      BY <2>1, <2>2
  <1>5. OpenIsTarget'
    BY <1>1 DEF OpenIsTarget, Open, Identity
  <1>6. InUseIsTarget'
    <2>1. CASE DropKey(t)
      <3> SUFFICES ASSUME current' # 0, Forgetful', Concerned(runtimes[current].vault)',
                          runtimes'[current'].vault \notin targets'
                   PROVE  StuckInUse'
        BY DEF InUseIsTarget
      <3>1. UNCHANGED <<runtimes, current, command>> /\ Forgetful
        BY <1>2, <2>1, DropsIt
      <3>2. Concerned(runtimes[current].vault)
        BY <1>1, <3>1 DEF Concerned
      <3>3. runtimes[current].vault \in targets \/ StuckInUse
        BY <3>1, <3>2 DEF LInv, Tracked, InUseIsTarget
      <3>4. StuckInUse
        BY <2>1, <3>1, <3>3, DropsIt DEF Serves
      <3> QED
        BY <3>1, <3>4, InUseStays DEF Serving
    <2>2. CASE ~DropKey(t)
      <3>1. Widens
        BY <1>1, <2>2, CleansOn DEF Widens
      <3> QED
        BY <1>2, <1>5, <3>1, InUseOn DEF LInv, Tracked
    <2> QED
      BY <2>1, <2>2
  <1>7. Cleaners'
    <2> SUFFICES ASSUME NEW u \in TaskIds, tasks'[u].kind = "teardown" PROVE Cleaner(u)'
      BY <1>1 DEF Cleaners
    <2>1. CASE u # t
      <3>1. tasks'[u] = tasks[u]
        BY <1>1, <2>1
      <3>2. tasks[u].step = "queued"
        BY <1>1, <2>1, <3>1, BehindForemost
      <3> QED
        BY <3>1, <3>2 DEF Cleaner
    <2>2. CASE u = t
      BY <2>2, CleanerMoves
    <2> QED
      BY <2>1, <2>2
  <1>8. NothingLeft'
    <2>0. SUFFICES ASSUME draining # 0, tasks'[draining].step = "ended"
                   PROVE  targets' = {} /\ locked'
      BY <1>1 DEF NothingLeft
    <2>1. draining \in TaskIds /\ t \in Nat /\ draining \in Nat
      <3>1. draining \in 0..Len(tasks) /\ t \in Nat
        BY TasksAre
      <3> QED
        BY <2>0, <3>1 DEF TaskIds
    <2>2. t <= draining
      BY <1>1 DEF IInv, Flights
    <2>3. t = draining
      <3>1. ASSUME t # draining PROVE FALSE
        <4>1. draining > t
          BY <2>1, <2>2, <3>1
        <4>2. tasks[draining].step = "queued"
          BY <1>1, <2>1, <4>1 DEF Foremost
        <4> QED
          BY <1>1, <2>0, <2>1, <3>1, <4>2
      <3> QED
        BY <3>1
    <2>4. tasks'[t].step = "ended"
      BY <2>0, <2>3
    <2>5. CleaningEnds(t)
      <3>1. ~StartCleaning(t)
        BY <2>4, StartTo
      <3>2. ~DropKey(t)
        BY <2>4, DropTo
      <3>3. ~WorkerStopped(t)
        BY <2>4, StoppedTo
      <3>4. \A v : ~StopWorker(t, v)
        BY <2>4, StopTo
      <3>5. ~StopFails(t)
        BY <2>4, OverTo DEF StopFails, Fails
      <3> QED
        BY <3>1, <3>2, <3>3, <3>4, <3>5 DEF TeardownStep
    <2>6. targets \subseteq tasks[t].cleanup /\ tasks[t].cleanup = {} /\ targets' = targets
      BY <1>1, <2>5 DEF LInv, Tracked, Cleaners, Cleaner, CleaningEnds, sessionVars
    <2> QED
      BY <1>1, <2>6
  <1> QED
    BY <1>3, <1>4, <1>5, <1>6, <1>7, <1>8 DEF Tracked

(* A step that takes no target and shows no other account keeps track: the     *)

(* clean-ups that are under way go on, and the tasks it adds are queued.       *)
LEMMA SteadyTracks ==
    ASSUME IInv, IInv', LInv, Follows, Serving, UseOn, Stand,
           \A u \in TaskIds' : u \notin TaskIds => tasks'[u].step = "queued",
           Fresh => Fresh',
           UNCHANGED <<account, bound, targets, admitted, key, stored, selected, reloads>>,
           locked => locked',
           draining' = draining \/ draining' > Len(tasks),
           \A v \in worker' \ worker : Serves(v) /\ ~StuckInUse,
           locked' => Works,
           OpensAdmitted'
    PROVE  Tracked'
  <1>1. Forgetful' => Forgetful
    BY DEF Follows
  <1>2. HeldIsTarget'
    <2> SUFFICES ASSUME ~Fresh', Forgetful', NEW v \in Vaults, Concerned(v)',
                        key'[v] = "active" \/ v \in worker'
                 PROVE  v \in targets
      BY DEF HeldIsTarget
    <2>1. Concerned(v) /\ ~Fresh /\ Forgetful
      BY <1>1 DEF Concerned
    <2>2. CASE key[v] = "active" \/ v \in worker
      BY <2>1, <2>2 DEF LInv, Tracked, HeldIsTarget
    <2>3. CASE v \in worker' \ worker
      <3>1. current # 0 /\ runtimes[current].vault = v /\ ~StuckInUse
        BY <2>3 DEF Serves
      <3> QED
        BY <2>1, <3>1 DEF LInv, Tracked, InUseIsTarget
    <2> QED
      BY <2>2, <2>3
  <1>3. OpenIsTarget'
    <2> SUFFICES ASSUME Open', Forgetful', Concerned(account)' PROVE account \in targets
      BY DEF OpenIsTarget
    <2>1. Open /\ Concerned(account) /\ Forgetful
      BY <1>1 DEF Open, Identity, Concerned
    <2> QED
      BY <2>1 DEF LInv, Tracked, OpenIsTarget
  <1>4. InUseIsTarget'
    <2>1. Widens
      BY DEF Widens
    <2> QED
      BY <1>1, <1>3, <2>1, InUseOn DEF LInv, Tracked
  <1>5. Cleaners'
    <2> SUFFICES ASSUME NEW u \in TaskIds', tasks'[u].kind = "teardown" PROVE Cleaner(u)'
      BY DEF Cleaners
    <2>1. CASE u \in TaskIds
      <3>1. /\ tasks[u].kind = "teardown"
            /\ tasks'[u].step = tasks[u].step /\ tasks'[u].vault = tasks[u].vault
            /\ tasks'[u].cleanup = tasks[u].cleanup /\ tasks'[u].stopping = tasks[u].stopping
        BY <2>1 DEF Stand
      <3>2. Cleaner(u)
        BY <2>1, <3>1 DEF LInv, Tracked, Cleaners
      <3>3. Works
        BY DEF IInv, Torn
      <3> QED
        BY <2>1, <3>1, <3>2, <3>3, CleanerOn
    <2>2. CASE u \notin TaskIds
      BY <2>2 DEF Cleaner
    <2> QED
      BY <2>1, <2>2
  <1>6. NothingLeft'
    <2>0. SUFFICES ASSUME draining' # 0, tasks'[draining'].step = "ended",
                          \A u \in TaskIds' : u > draining' => tasks'[u].step = "queued"
                   PROVE  targets = {} /\ locked'
      BY DEF NothingLeft
    <2>1. draining' \in TaskIds'
      <3>1. draining' \in 0..Len(tasks') /\ tasks' \in Seq(Task)
        BY DEF IInv, TypeOK
      <3>2. Len(tasks') \in Nat
        BY <3>1
      <3> QED
        BY <2>0, <3>1, <3>2 DEF TaskIds
    <2>2. draining' \in TaskIds
      BY <2>0, <2>1
    <2>3. draining' = draining
      <3>1. ~(draining' > Len(tasks))
        BY <2>2, TasksAre
      <3> QED
        BY <3>1
    <2>4. tasks[draining].step = "ended"
      BY <2>0, <2>2, <2>3 DEF Stand
    <2>5. \A u \in TaskIds : u > draining => tasks[u].step = "queued"
      BY <2>0, <2>3 DEF Stand
    <2> QED
      BY <2>0, <2>3, <2>4, <2>5 DEF LInv, Tracked, NothingLeft
  <1> QED
    BY <1>2, <1>3, <1>4, <1>5, <1>6 DEF Tracked

(* Where no lock is lifted, what opens was admitted before. *)
LEMMA OpensOn ==
    ASSUME OpensAdmitted, Forgetful' => Forgetful, locked => locked',
           storedLocked => storedLocked',
           UNCHANGED <<account, bound, admitted, privacy, reloads>>
    PROVE  OpensAdmitted'
  BY DEF OpensAdmitted

(* Tasks that are added. *)
LEMMA AddsTracks ==
    ASSUME IInv, IInv', LInv, Adds, Next, ~Reload, Follows, Serving, UseOn
    PROVE  Tracked'
  <1>1. Adding /\ Stand
    BY AddsAdding DEF Adding
  <1>2. UNCHANGED <<account, bound, targets, admitted, key, worker, stored, selected, privacy,
                    reloads>>
        /\ (locked => locked') /\ (storedLocked => storedLocked')
        /\ (draining' = draining \/ draining' > Len(tasks))
    BY <1>1 DEF Adding
  <1>3. \A u \in TaskIds' : u \notin TaskIds => tasks'[u].step = "queued"
    <2> SUFFICES ASSUME NEW u \in TaskIds', u \notin TaskIds PROVE tasks'[u].step = "queued"
      OBVIOUS
    <2>1. tasks \in Seq(Task) /\ tasks' \in Seq(Task)
      BY DEF IInv, TypeOK
    <2>2. Len(tasks) \in Nat /\ Len(tasks') \in Nat
      BY <2>1
    <2>3. u > Len(tasks)
      BY <2>2 DEF TaskIds
    <2> QED
      BY <1>1, <2>3 DEF Adding, Joins
  <1>4. Fresh => Fresh'
    <2> SUFFICES ASSUME Fresh PROVE Fresh'
      OBVIOUS
    <2>1. ~(TaskIds = {1} /\ BootRuns(1))
      <3> SUFFICES ASSUME TaskIds = {1}, BootRuns(1) PROVE FALSE
        OBVIOUS
      <3>1. Len(tasks') = Len(tasks)
        BY CommandFollows DEF CommandStep, LInv
      <3>2. Len(tasks') > Len(tasks) /\ Len(tasks) \in Nat
        BY <1>1, TasksAre DEF Adding
      <3> QED
        BY <3>1, <3>2
    <2>2. tasks = <<>> /\ Retain
      BY <2>1, FreshSteps DEF LInv
    <2> QED
      BY <2>2, RetainFresh DEF LInv
  <1>5. locked' => Works
    <2> SUFFICES ASSUME locked' PROVE Works
      OBVIOUS
    <2>1. CASE Unbound
      BY <1>2, <2>1, SameWorks DEF Unbound
    <2>2. CASE Bind(locked', account')
      <3>1. ~Open' /\ locked' \in BOOLEAN /\ account' \in MaybeVault
        BY DEF Open, Identity, IInv, TypeOK
      <3>2. UNCHANGED runtimeVars
        BY <2>2, <3>1, ServesBound DEF LInv
      <3> QED
        BY <1>2, <3>2, SameWorks DEF runtimeVars
    <2> QED
      BY <2>1, <2>2, AddsBind
  <1>6. OpensAdmitted'
    BY <1>2, OpensOn DEF Follows, LInv, Tracked
  <1> QED
    BY <1>1, <1>2, <1>3, <1>4, <1>5, <1>6, SteadyTracks

(* The signal of a Ledger command. *)
LEMMA CancelTracks ==
    ASSUME IInv, IInv', LInv, CancelLedger, Follows, Serving, UseOn
    PROVE  Tracked'
  <1>1. Stand /\ TaskIds' = TaskIds /\ ~Fresh
    BY CancelFollows DEF LInv
  <1>2. UNCHANGED <<account, bound, targets, admitted, key, worker, stored, selected, privacy,
                    reloads, locked, storedLocked, draining, runtimes>>
    BY DEF CancelLedger, sessionVars, runtimeVars, deviceVars, limits
  <1>3. Works
    BY <1>2, SameWorks
  <1>4. OpensAdmitted'
    BY <1>2, OpensOn DEF Follows, LInv, Tracked
  <1> QED
    BY <1>1, <1>2, <1>3, <1>4, SteadyTracks

(* The steps beside the tasks. *)
LEMMA BesideTracks ==
    ASSUME IInv, IInv', LInv, Beside, Follows, Serving, UseOn, targets' = targets,
           UNCHANGED <<account, bound, admitted, key, stored, selected, locked>>,
           \A v \in worker' \ worker : Serves(v) /\ ~StuckInUse,
           locked' => Works, OpensAdmitted'
    PROVE  Tracked'
  <1>1. Stand /\ TaskIds' = TaskIds /\ (Fresh => Fresh')
    BY DEF Beside, Stand, Fresh, TaskIds
  <1>2. UNCHANGED <<draining, reloads>>
    BY DEF Beside
  <1> QED
    BY <1>1, <1>2, SteadyTracks

(* A step of a runtime or of the payment. *)
LEMMA WalletTracks ==
    ASSUME IInv, IInv', LInv, Follows, Serving, UseOn,
           \/ \E r \in RuntimeIds : RuntimeStep(r)
           \/ ViewConnects \/ Review \/ LockGranted
           \/ WalletReady \/ QuoteFails \/ CancelReview \/ Quoted
    PROVE  Tracked'
  <1>1. /\ Beside
        /\ UNCHANGED <<account, bound, targets, admitted, key, stored, selected, locked,
                       storedLocked, privacy>>
    BY DEF RuntimeStep, RegistersWorker, ConnectionCreated, Retires, ViewConnects, Review,
       LockGranted, WalletReady, QuoteFails, CancelReview, Quoted, Beside, sessionVars, taskVars,
       deviceVars, limits
  <1>2. OpensAdmitted'
    BY <1>1, OpensOn DEF Follows, LInv, Tracked, Beside
  <1>3. (\A v \in worker' \ worker : Serves(v) /\ ~StuckInUse) /\ (locked' => Works)
    <2>1. CASE \E r \in RuntimeIds : RuntimeStep(r)
      BY <2>1, RuntimeWorks DEF LInv, Works
    <2>2. CASE LockGranted
      BY <2>2, GrantWorks DEF LInv, Works
    <2>3. CASE ViewConnects
      BY <1>1, <2>3 DEF ViewConnects, Open, Identity, deviceVars
    <2>4. CASE Review \/ WalletReady \/ QuoteFails \/ CancelReview \/ Quoted
      BY <2>4, SameWorks DEF Review, WalletReady, QuoteFails, CancelReview, Quoted, runtimeVars,
         deviceVars
    <2> QED
      BY <2>1, <2>2, <2>3, <2>4
  <1> QED
    BY <1>1, <1>2, <1>3, BesideTracks

(* The settings of an open account. *)
LEMMA SettingsTrack ==
    ASSUME IInv, IInv', LInv, Follows, Serving, UseOn,
           Hide \/ \E on \in BOOLEAN : SetPrivacyLock(on)
    PROVE  Tracked'
  <1>1. /\ Beside
        /\ UNCHANGED <<account, bound, targets, admitted, key, stored, selected, locked,
                       worker, runtimes>>
    BY DEF Hide, SetPrivacyLock, Beside, sessionVars, taskVars, runtimeVars, limits
  <1>2. OpensAdmitted'
    <2>1. CASE Hide
      BY <1>1, <2>1, OpensOn DEF Follows, LInv, Tracked, Beside, Hide
    <2>2. ASSUME NEW on \in BOOLEAN, SetPrivacyLock(on) PROVE OpensAdmitted'
      <3>1. ~locked /\ privacy' = storedLocked'
        BY <2>2 DEF SetPrivacyLock, Open, Identity
      <3> QED
        BY <1>1, <3>1 DEF Follows, LInv, Tracked, Beside, OpensAdmitted
    <2> QED
      BY <2>1, <2>2
  <1> QED
    BY <1>1, <1>2, SameWorks, BesideTracks

(* The account that a status shows opens only where it was admitted. *)
LEMMA StatusTracks ==
    ASSUME IInv, IInv', LInv, Follows, Serving, UseOn, StatusRefreshed
    PROVE  Tracked'
  <1>1. /\ ~locked /\ ~locked' /\ bound # NoVault /\ account' = bound
        /\ targets' = targets \cup {bound}
        /\ UNCHANGED <<bound, admitted, key, worker, stored, selected, privacy, storedLocked,
                       reloads, tasks, draining>>
    BY DEF StatusRefreshed, ShowAccount, taskVars, deviceVars, limits
  <1>2. Forgetful' => Forgetful
    BY DEF Follows
  <1>3. TaskIds' = TaskIds /\ (Fresh <=> Fresh')
    BY <1>1 DEF TaskIds, Fresh
  <1>4. HeldIsTarget'
    BY <1>1, <1>2, <1>3 DEF LInv, Tracked, HeldIsTarget, Concerned
  <1>5. OpensAdmitted'
    BY <1>1, <1>2 DEF LInv, Tracked, OpensAdmitted
  <1>6. OpenIsTarget'
    BY <1>1 DEF OpenIsTarget
  <1>7. InUseIsTarget'
    <2>1. Widens
      BY <1>1 DEF Widens
    <2> QED
      BY <1>2, <1>6, <2>1, InUseOn DEF LInv, Tracked
  <1>8. Cleaners'
    BY <1>1, NoCleaner DEF IInv, Torn
  <1>9. NothingLeft'
    BY <1>1, <1>3 DEF LInv, Tracked, NothingLeft
  <1> QED
    BY <1>4, <1>5, <1>6, <1>7, <1>8, <1>9 DEF Tracked

(* Every step but a reload keeps track. *)
LEMMA NextLInv ==
    ASSUME IInv, LInv, Next, ~Reload
    PROVE  LInv'
  <1>1. IInv'
    BY NextIInv
  <1>2. Serving /\ UseOn
    BY NextServes DEF LInv
  <1>3. Follows /\ BeforeBoot'
    BY NextFollows, BeforeBootOn DEF LInv
  <1>4. Tracked'
    <2>1. ASSUME NEW t \in TaskIds, CommandStep(t) PROVE Tracked'
      <3>1. Fresh => BootRuns(t)
        <4> SUFFICES ASSUME Fresh PROVE BootRuns(t)
          OBVIOUS
        <4>1. tasks # <<>>
          <5>1. Len(tasks) \in Nat /\ t >= 1 /\ t <= Len(tasks) /\ t \in Nat
            BY TasksAre
          <5>2. Len(tasks) # 0
            BY <5>1
          <5> QED
            BY <5>2
        <4> QED
          BY <4>1, FreshSteps DEF LInv
      <3> QED
        BY <1>2, <2>1, <3>1, CommandTracks
    <2>2. ASSUME NEW t \in TaskIds, TeardownStep(t) PROVE Tracked'
      BY <1>2, <2>2, TeardownTracks
    <2>3. CASE Adds
      BY <1>1, <1>2, <1>3, <2>3, AddsTracks
    <2>4. CASE CancelLedger
      BY <1>1, <1>2, <1>3, <2>4, CancelTracks
    <2>5. CASE \/ \E r \in RuntimeIds : RuntimeStep(r)
               \/ ViewConnects \/ Review \/ LockGranted
               \/ WalletReady \/ QuoteFails \/ CancelReview \/ Quoted
      BY <1>1, <1>2, <1>3, <2>5, WalletTracks
    <2>6. CASE Hide \/ \E on \in BOOLEAN : SetPrivacyLock(on)
      BY <1>1, <1>2, <1>3, <2>6, SettingsTrack
    <2>7. CASE StatusRefreshed
      BY <1>1, <1>2, <1>3, <2>7, StatusTracks
    <2> QED
      BY <2>1, <2>2, <2>3, <2>4, <2>5, <2>6, <2>7, NextIs
  <1> QED
    BY <1>2, <1>3, <1>4 DEF LInv, Serving, Follows

(* A page that begins has nothing to keep track of, but what the device holds. *)
LEMMA FreshLInv ==
    ASSUME locked = TRUE, account = NoVault, bound = NoVault, targets = {}, admitted = {},
           tasks = <<>>, draining = 0, mounted = FALSE, runtimes = <<>>, current = 0,
           command = NoCommand,
           reloads = 0 =>
              /\ worker = {} /\ stored = {selected} \ {NoVault} /\ ~privacy
              /\ \A v \in Vaults : key[v] = "active" => v \in stored
    PROVE  LInv
  <1>1. TaskIds = {} /\ RuntimeIds = {} /\ Fresh /\ ~Open
    BY DEF TaskIds, RuntimeIds, Fresh, Open, Identity
  <1>2. Served
    BY <1>1 DEF Served, RuntimesReplaced, CommandServed
  <1>3. BeforeBoot /\ BootsFollow /\ Commanding
    BY <1>1 DEF BeforeBoot, BootsFollow, Commanding
  <1>4. HeldIsTarget /\ OpenIsTarget /\ InUseIsTarget /\ Cleaners /\ NothingLeft
    BY <1>1 DEF HeldIsTarget, OpenIsTarget, InUseIsTarget, Cleaners, NothingLeft
  <1>5. OpensAdmitted
    BY DEF OpensAdmitted
  <1> QED
    BY <1>2, <1>3, <1>4, <1>5 DEF LInv, Tracked

(* The device before its first page. *)
LEMMA InitLInv ==
    ASSUME Init
    PROVE  LInv
  <1>1. \A v \in Vaults : key[v] = "active" => v \in stored
    BY DEF Init
  <1> QED
    BY <1>1, FreshLInv DEF Init

(* The page is closed and opened again. *)
LEMMA ReloadLInv ==
    ASSUME IInv, Reload
    PROVE  LInv'
  <1>1. reloads' # 0
    BY PartsTyped DEF Reload, LimitsTyped
  <1>2. TaskIds' = {} /\ RuntimeIds' = {} /\ Fresh' /\ ~Open'
    BY DEF Reload, TaskIds, RuntimeIds, Fresh, Open, Identity
  <1>3. Served'
    BY <1>2 DEF Reload, Served, RuntimesReplaced, CommandServed
  <1>4. BeforeBoot' /\ BootsFollow' /\ Commanding'
    BY <1>1, <1>2 DEF Reload, BeforeBoot, BootsFollow, Commanding
  <1>5. HeldIsTarget' /\ OpenIsTarget' /\ InUseIsTarget' /\ Cleaners' /\ NothingLeft'
    BY <1>2 DEF Reload, HeldIsTarget, OpenIsTarget, InUseIsTarget, Cleaners, NothingLeft
  <1>6. OpensAdmitted'
    BY <1>1 DEF OpensAdmitted
  <1> QED
    BY <1>3, <1>4, <1>5, <1>6 DEF LInv, Tracked

(* So does a step that changes nothing. *)
LEMMA StutterLInv ==
    ASSUME LInv, UNCHANGED vars
    PROVE  LInv'
  <1>1. UNCHANGED <<locked, account, bound, targets, admitted, tasks, flight, draining, mounted,
                    runtimes, current, command, review, key, worker, stored, selected, staged,
                    storedLocked, privacy, enrolled, reloads>>
    BY DEF vars, sessionVars, taskVars, runtimeVars, paymentVars, deviceVars, limits
  <1>2. TaskIds' = TaskIds /\ RuntimeIds' = RuntimeIds /\ (Fresh' <=> Fresh) /\ (Open' <=> Open)
        /\ (Forgetful' <=> Forgetful) /\ (Stuck' <=> Stuck)
    BY <1>1 DEF TaskIds, RuntimeIds, Fresh, Open, Identity, Forgetful, Stuck, Lasts
  <1>3. Served'
    BY <1>1, <1>2 DEF LInv, Served, RuntimesReplaced, CommandServed, Serves, Lasts
  <1>4. BeforeBoot' /\ BootsFollow' /\ Commanding'
    BY <1>1, <1>2 DEF LInv, BeforeBoot, BootsFollow, Commanding, Registers, Proposes
  <1>5. HeldIsTarget' /\ OpenIsTarget' /\ OpensAdmitted' /\ NothingLeft'
    BY <1>1, <1>2
       DEF LInv, Tracked, HeldIsTarget, OpenIsTarget, OpensAdmitted, NothingLeft, Concerned
  <1>6. InUseIsTarget'
    BY <1>1, <1>2 DEF LInv, Tracked, InUseIsTarget, Concerned, StuckInUse
  <1>7. Cleaners'
    BY <1>1, <1>2 DEF LInv, Tracked, Cleaners, Cleaner, StuckInUse, Serves
  <1> QED
    BY <1>3, <1>4, <1>5, <1>6, <1>7 DEF LInv, Tracked

(* What a clean-up that is over leaves. *)
LEMMA LeavesNothing ==
    ASSUME IInv, LInv
    PROVE  LockedLeavesNothing
  <1> SUFFICES ASSUME Quiet, Drained, NEW v \in Vaults, Concerned(v)
               PROVE  key[v] # "active" /\ v \notin worker
    BY DEF LockedLeavesNothing, Concerned
  <1>1. /\ draining # 0 /\ draining = Len(tasks) /\ tasks[draining].step = "ended" /\ Forgetful
    BY DEF Drained, Forgetful
  <1>2. draining \in TaskIds /\ Len(tasks) \in Nat
    <2>1. draining \in 0..Len(tasks) /\ tasks \in Seq(Task)
      BY DEF IInv, TypeOK
    <2>2. Len(tasks) \in Nat
      BY <2>1
    <2> QED
      BY <1>1, <2>1, <2>2 DEF TaskIds
  <1>3. ~Fresh
    <2>1. tasks = <<>> => Len(tasks) = 0
      OBVIOUS
    <2> QED
      BY <1>1, <2>1 DEF Fresh
  <1>4. \A u \in TaskIds : ~(u > draining)
    BY <1>1, <1>2 DEF TaskIds
  <1>5. targets = {}
    BY <1>1, <1>4 DEF LInv, Tracked, NothingLeft
  <1> QED
    BY <1>1, <1>3, <1>5 DEF LInv, Tracked, HeldIsTarget

(* A teardown that was to keep no key leaves no active key and no worker of    *)
(* the vaults this page spoke of, however its commands, its payment and its    *)

(* runtimes were interleaved with it, and whatever failed.                     *)
THEOREM LockLeavesNothing == Spec => []LockedLeavesNothing
  <1>1. Init => LInv
    BY InitLInv
  <1>2. IInv /\ LInv /\ [Next]_vars => LInv'
    <2>1. IInv /\ LInv /\ Next /\ ~Reload => LInv'
      BY NextLInv
    <2>2. IInv /\ Reload => LInv'
      BY ReloadLInv
    <2>3. LInv /\ UNCHANGED vars => LInv'
      BY StutterLInv
    <2> QED
      BY <2>1, <2>2, <2>3
  <1>3. IInv /\ LInv => LockedLeavesNothing
    BY LeavesNothing
  <1> QED
    BY <1>1, <1>2, <1>3, Invariant, PTL DEF Spec

===============================================================================
