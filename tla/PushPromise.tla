----------------------------- MODULE PushPromise -----------------------------
(***************************************************************************)
(* What the push outbox promises about one notification, without leases,   *)
(* workers or time: the meanings the deployment guide gives to the push    *)
(* statuses (docs/production_deployment.md, section 8) as a state machine. *)
(* PushOutbox implements it.                                               *)
(***************************************************************************)
EXTENDS Integers

CONSTANTS Notifications, Devices, MaxAttempts

VARIABLES
    phase,     \* the push status, "absent" before the row, "deleted" after it
    tries,     \* attempts that had at least one device to send to
    reached    \* devices recorded as having the notification

vars == <<phase, tries, reached>>

Init ==
    /\ phase = [n \in Notifications |-> "absent"]
    /\ tries = [n \in Notifications |-> 0]
    /\ reached = [n \in Notifications |-> {}]

Keep(n) == tries'[n] = tries[n] /\ reached'[n] = reached[n]

\* Stored by a request, for the worker or for the app's list only.
Appear(n) ==
    /\ phase[n] = "absent"
    /\ phase'[n] \in {"pending", "skipped"}
    /\ Keep(n)

\* An attempt was made; each one reaches zero or more further devices.
Attempt(n) ==
    /\ phase[n] = "pending"
    /\ tries'[n] = tries[n] + 1
    /\ reached[n] \subseteq reached'[n]
    /\ \/ phase'[n] = "pending" /\ tries'[n] < MaxAttempts
       \/ phase'[n] = "sent" /\ reached'[n] # {}
       \/ phase'[n] = "failed" /\ (reached'[n] = {} \/ tries'[n] = MaxAttempts)

\* Settled without a further attempt.
Close(n) ==
    /\ phase[n] = "pending"
    /\ \/ phase'[n] \in {"skipped", "expired"}
       \/ phase'[n] = "sent" /\ reached[n] # {}
    /\ Keep(n)

\* The guardian's account was deleted.
Delete(n) ==
    /\ phase[n] \notin {"absent", "deleted"}
    /\ phase'[n] = "deleted"
    /\ Keep(n)

Same(n) == phase'[n] = phase[n] /\ Keep(n)

\* One transaction settles a batch, so several rows may move in one step.
Next ==
    /\ \A n \in Notifications :
          Appear(n) \/ Attempt(n) \/ Close(n) \/ Delete(n) \/ Same(n)
    /\ phase' \in [Notifications -> {"absent", "pending", "sent", "failed",
                                     "skipped", "expired", "deleted"}]
    /\ tries' \in [Notifications -> 0..MaxAttempts]
    /\ reached' \in [Notifications -> SUBSET Devices]

Spec == Init /\ [][Next]_vars
=============================================================================
