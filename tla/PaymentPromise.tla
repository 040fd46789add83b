---------------------------- MODULE PaymentPromise ----------------------------
(* What the Spending operation owner promises its user, whatever the tabs,  *)
(* the browser, the Guardian and the Operator do: payments go out one at a  *)
(* time, a payment is sent at most once, and a payment that was dropped is  *)
(* never sent.                                                              *)
CONSTANT Ops

VARIABLE outcome    \* what became of each operation

Outcomes == {"new", "open", "sent", "settled", "dropped"}

PromiseTypeOK == outcome \in [Ops -> Outcomes]

PromiseInit == outcome = [o \in Ops |-> "new"]

Become(o, from, to) ==
    /\ outcome[o] = from
    /\ outcome' = [outcome EXCEPT ![o] = to]

(* A payment gets an operation only when no other one is under way. *)
Begin(o) ==
    /\ \A other \in Ops \ {o} : outcome[other] \notin {"open", "sent"}
    /\ Become(o, "new", "open")

SendOnce(o) == Become(o, "open", "sent")

Settle(o) == Become(o, "sent", "settled")

Drop(o) == Become(o, "open", "dropped")

PromiseNext == \E o \in Ops : Begin(o) \/ SendOnce(o) \/ Settle(o) \/ Drop(o)

PromiseSpec == PromiseInit /\ [][PromiseNext]_outcome
===============================================================================
