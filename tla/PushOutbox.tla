------------------------------ MODULE PushOutbox ------------------------------
(***************************************************************************)
(* The push outbox: notification rows are stored by requests, and worker   *)
(* processes claim them in batches under a lease, send them through        *)
(* Firebase outside any transaction, and record the results.               *)
(*                                                                         *)
(* Sources: notifications/services.py (the rows), notifications/           *)
(* push_worker.py (claim, record, loop), notifications/push_services.py    *)
(* (one attempt), the run_push_worker command, and, as the environment,    *)
(* accounts/services.py and notifications/device_services.py.              *)
(*                                                                         *)
(* A database transaction is one step.  Every timestamp a row is compared  *)
(* against "now" with is a timer that time actions move from future to     *)
(* past; between timers of different rows any order is possible, except    *)
(* that rows grow stale in creation order.                                 *)
(***************************************************************************)
EXTENDS Integers, FiniteSets

CONSTANTS
    Notifications,   \* the rows ever created
    Devices,         \* the PushDevice rows
    Guardians,       \* the recipients
    Recipient,       \* [Notifications -> Guardians]
    Workers,         \* run_push_worker processes
    Tokens,          \* lease tokens (uuid4)
    NoToken,         \* push_lease_token IS NULL
    Unregistered,    \* holder of a device row that is not active
    Removed,         \* holder of a device row that was deleted
    MaxAttempts,     \* PUSH_MAX_ATTEMPTS
    BatchSize,       \* PUSH_WORKER_BATCH_SIZE
    ExpireChunk,     \* EXPIRE_CHUNK_SIZE
    SendChunkSize,   \* PUSH_SEND_CHUNK_SIZE
    PushSettings,    \* values FIREBASE_PUSH_ENABLED takes over deployments
    LateSends,       \* may a batch take longer than PUSH_LEASE_SECONDS?
    MaxFaults        \* bound on errors, stops and kills of workers

ASSUME OutboxAssumption ==
    /\ IsFiniteSet(Notifications) /\ IsFiniteSet(Devices)
    /\ Recipient \in [Notifications -> Guardians]
    /\ NoToken \notin Tokens
    /\ Unregistered \notin Guardians /\ Removed \notin Guardians
    /\ MaxAttempts \in Nat \ {0}
    /\ BatchSize \in Nat \ {0}
    /\ ExpireChunk \in Nat \ {0}
    /\ SendChunkSize \in Nat \ {0}
    /\ PushSettings \subseteq BOOLEAN
    /\ LateSends \in BOOLEAN
    /\ MaxFaults \in Nat

VARIABLES
    \* columns of the notification rows
    status,      \* push_status; "absent", "validated" before and "deleted" after the row
    attempts,    \* push_attempts
    due,         \* push_next_attempt_at: "none" (NULL), "waiting" (future), "due"
    lock,        \* push_locked_until: "free" (NULL), "held" (future), "lapsed"
    lease,       \* push_lease_token
    delivered,   \* push_delivered_device_ids
    createdAt,   \* rank in the order of created_at, 0 before the row exists
    stale,       \* pending rows older than PUSH_MAX_AGE_HOURS
    \* rows of other tables the worker reads
    account,     \* "ok", "must_change" or "inactive" per guardian
    holder,      \* the guardian a device row is active for
    \* the worker processes
    pc, stopping,
    job,         \* the batch in a worker's memory
    faults,
    \* ghost: devices for which Firebase accepted a notification
    accepted

rows == <<status, attempts, due, lock, lease, delivered, createdAt, stale>>
world == <<account, holder>>
vars == <<rows, world, pc, stopping, job, faults, accepted>>

Settled == {"sent", "failed", "skipped", "expired"}
Exists(n) == status[n] \in Settled \cup {"pending"}

Job == [token     : Tokens \cup {NoToken},
        batch     : SUBSET Notifications,
        attempts  : [Notifications -> Nat],
        delivered : [Notifications -> SUBSET Devices],
        eligible  : SUBSET Notifications,
        attempted : SUBSET Notifications,
        targeted  : SUBSET Notifications,
        todo      : SUBSET (Notifications \X Devices),
        transient : SUBSET Notifications,
        dead      : SUBSET Devices]

\* A worker between batches holds nothing.
NoJob == [token     |-> NoToken,
          batch     |-> {},
          attempts  |-> [n \in Notifications |-> 0],
          delivered |-> [n \in Notifications |-> {}],
          eligible  |-> {},
          attempted |-> {},
          targeted  |-> {},
          todo      |-> {},
          transient |-> {},
          dead      |-> {}]

TypeOK ==
    /\ status \in [Notifications -> Settled \cup {"absent", "validated", "pending", "deleted"}]
    /\ attempts \in [Notifications -> Nat]
    /\ due \in [Notifications -> {"none", "waiting", "due"}]
    /\ lock \in [Notifications -> {"free", "held", "lapsed"}]
    /\ lease \in [Notifications -> Tokens \cup {NoToken}]
    /\ delivered \in [Notifications -> SUBSET Devices]
    /\ createdAt \in [Notifications -> Nat]
    /\ stale \in SUBSET Notifications
    /\ account \in [Guardians -> {"ok", "must_change", "inactive"}]
    /\ holder \in [Devices -> Guardians \cup {Unregistered, Removed}]
    /\ pc \in [Workers -> {"down", "idle", "claimed", "sending"}]
    /\ stopping \in [Workers -> BOOLEAN]
    /\ job \in [Workers -> Job]
    /\ faults \in Nat
    /\ accepted \in [Notifications -> SUBSET Devices]

Init ==
    /\ status = [n \in Notifications |-> "absent"]
    /\ attempts = [n \in Notifications |-> 0]
    /\ due = [n \in Notifications |-> "none"]
    /\ lock = [n \in Notifications |-> "free"]
    /\ lease = [n \in Notifications |-> NoToken]
    /\ delivered = [n \in Notifications |-> {}]
    /\ createdAt = [n \in Notifications |-> 0]
    /\ stale = {}
    /\ account \in [Guardians -> {"ok", "must_change"}]
    /\ holder \in [Devices -> Guardians \cup {Unregistered}]
    /\ pc = [w \in Workers |-> "down"]
    /\ stopping = [w \in Workers |-> FALSE]
    /\ job = [w \in Workers |-> NoJob]
    /\ faults = 0
    /\ accepted = [n \in Notifications |-> {}]
-----------------------------------------------------------------------------
(* Requests that store notifications (notifications/services.py)           *)

\* create_notification checks the recipient object its caller loaded.
ValidateNotification(n) ==
    /\ status[n] = "absent"
    /\ account[Recipient[n]] \in {"ok", "must_change"}
    /\ status' = [status EXCEPT ![n] = "validated"]
    /\ UNCHANGED <<attempts, due, lock, lease, delivered, createdAt, stale,
                   world, pc, stopping, job, faults, accepted>>

\* Mutant: a status outside PushStatus.
InitialStatusUnknown(enabled) == IF enabled THEN "queued" ELSE "skipped"

InitialStatus(enabled) == IF enabled THEN "pending" ELSE "skipped"

\* The row commits; the recipient may have changed since it was checked.
\* A row stored as skipped still gets the default push_next_attempt_at.
InsertNotification(n) ==
    /\ status[n] = "validated"
    /\ \E enabled \in PushSettings :
         status' = [status EXCEPT ![n] = InitialStatus(enabled)]
    /\ due' = [due EXCEPT ![n] = "due"]
    /\ createdAt' = [createdAt EXCEPT ![n] =
                       1 + Cardinality({m \in Notifications : createdAt[m] > 0})]
    /\ UNCHANGED <<attempts, lock, lease, delivered, stale,
                   world, pc, stopping, job, faults, accepted>>
-----------------------------------------------------------------------------
(* What the accounts and device endpoints change under the worker          *)

SetAccountActive(g) ==
    /\ \/ /\ account[g] = "inactive"
          /\ \E s \in {"ok", "must_change"} : account' = [account EXCEPT ![g] = s]
       \/ /\ account[g] \in {"ok", "must_change"}
          /\ account' = [account EXCEPT ![g] = "inactive"]
    /\ UNCHANGED <<rows, holder, pc, stopping, job, faults, accepted>>

ResetPassword(g) ==
    /\ account[g] = "ok"
    /\ account' = [account EXCEPT ![g] = "must_change"]
    /\ UNCHANGED <<rows, holder, pc, stopping, job, faults, accepted>>

ChangePassword(g) ==
    /\ account[g] = "must_change"
    /\ account' = [account EXCEPT ![g] = "ok"]
    /\ UNCHANGED <<rows, holder, pc, stopping, job, faults, accepted>>

\* A deleted guardian loses every notification row and every device row,
\* those of its inactive devices ("own": whose they were is not kept) too;
\* the account itself stays and can be activated again.
DeleteGuardian(g) ==
    /\ account' = [account EXCEPT ![g] = "inactive"]
    /\ \E own \in SUBSET {d \in Devices : holder[d] = Unregistered} :
         holder' = [d \in Devices |-> IF holder[d] = g \/ d \in own THEN Removed ELSE holder[d]]
    /\ LET lost == {n \in Notifications : Exists(n) /\ Recipient[n] = g}
       IN /\ status' = [n \in Notifications |-> IF n \in lost THEN "deleted" ELSE status[n]]
          /\ due' = [n \in Notifications |-> IF n \in lost THEN "none" ELSE due[n]]
          /\ lock' = [n \in Notifications |-> IF n \in lost THEN "free" ELSE lock[n]]
          /\ lease' = [n \in Notifications |-> IF n \in lost THEN NoToken ELSE lease[n]]
          /\ stale' = stale \ lost
    /\ UNCHANGED <<attempts, delivered, createdAt, pc, stopping, job, faults, accepted>>

\* A device row moves to whichever guardian signs in on it; the guardian's
\* devices with the same token or beyond the limit are deactivated.  The
\* guardian was authenticated earlier and may be inactive by now.
RegisterDevice(d, g) ==
    /\ holder[d] # Removed
    /\ \E dropped \in SUBSET {e \in Devices \ {d} : holder[e] = g} :
         holder' = [e \in Devices |->
                      IF e = d THEN g ELSE IF e \in dropped THEN Unregistered ELSE holder[e]]
    /\ UNCHANGED <<rows, account, pc, stopping, job, faults, accepted>>

UnregisterDevice(d) ==
    /\ holder[d] \in Guardians
    /\ holder' = [holder EXCEPT ![d] = Unregistered]
    /\ UNCHANGED <<rows, account, pc, stopping, job, faults, accepted>>
-----------------------------------------------------------------------------
(* claim_batch (notifications/push_worker.py)                              *)

\* Mutant: a token that other leases may carry.
AnyToken == Tokens

FreshTokens == Tokens \ ({lease[n] : n \in Notifications} \cup {job[w].token : w \in Workers})

LeaseFree(n) == lock[n] # "held"

\* Mutant: a row under a lapsed lease does not expire.
ExpirableIfUnlocked ==
    {n \in Notifications : status[n] = "pending" /\ lock[n] = "free" /\ n \in stale}

Expirable == {n \in Notifications : status[n] = "pending" /\ LeaseFree(n) /\ n \in stale}

\* Mutant: leases are not looked at.
DueUnderAnyLease == {n \in Notifications : status[n] = "pending" /\ due[n] = "due"}

DueNow == {n \in Notifications : status[n] = "pending" /\ LeaseFree(n) /\ due[n] = "due"}

\* ORDER BY created_at LIMIT k
Oldest(S, k) ==
    {T \in SUBSET S :
        /\ Cardinality(T) = IF Cardinality(S) < k THEN Cardinality(S) ELSE k
        /\ \A x \in T, y \in S \ T : createdAt[x] < createdAt[y]}

\* The Notification objects a claim returns, with their recipients as read.
ClaimedJob(mine, t) ==
    [NoJob EXCEPT !.token = t,
                  !.batch = mine,
                  !.attempts = [n \in Notifications |-> IF n \in mine THEN attempts[n] ELSE 0],
                  !.delivered = [n \in Notifications |-> IF n \in mine THEN delivered[n] ELSE {}],
                  !.eligible = {n \in mine : account[Recipient[n]] = "ok"}]

\* The two updates of the transaction: expire some rows, lease others.
ClaimEffect(w, gone, mine, t) ==
    /\ status' = [n \in Notifications |-> IF n \in gone THEN "expired" ELSE status[n]]
    /\ due' = [n \in Notifications |-> IF n \in gone THEN "none" ELSE due[n]]
    /\ lock' = [n \in Notifications |->
                  IF n \in gone THEN "free" ELSE IF n \in mine THEN "held" ELSE lock[n]]
    /\ lease' = [n \in Notifications |->
                  IF n \in gone THEN NoToken ELSE IF n \in mine THEN t ELSE lease[n]]
    /\ stale' = stale \ gone
    /\ job' = [job EXCEPT ![w] = IF mine = {} THEN NoJob ELSE ClaimedJob(mine, t)]
    /\ pc' = [pc EXCEPT ![w] = IF mine = {} THEN "idle" ELSE "claimed"]

\* One transaction: expire stale rows, then lease due ones.
ClaimBatch(w) ==
    /\ pc[w] = "idle" /\ ~stopping[w]
    /\ \E gone \in Oldest(Expirable, ExpireChunk), t \in FreshTokens :
       \E mine \in Oldest(DueNow \ gone, BatchSize) : ClaimEffect(w, gone, mine, t)
    /\ UNCHANGED <<attempts, delivered, createdAt, world, stopping, faults, accepted>>
-----------------------------------------------------------------------------
(* send_claimed_notifications (notifications/push_services.py)             *)

\* The deliveries of one attempt: active devices that do not have it yet.
Deliveries(j, attempted) ==
    {p \in attempted \X Devices :
        holder[p[2]] = Recipient[p[1]] /\ p[2] \notin j.delivered[p[1]]}

\* The batch after its devices were read.  When Firebase cannot be
\* initialised every notification with a delivery has a transient error.
ReadJob(j, enabled, firebaseUp) ==
    LET attempted == IF enabled THEN j.eligible ELSE {}
        deliveries == Deliveries(j, attempted)
        targeted == {p[1] : p \in deliveries}
    IN [j EXCEPT !.attempted = attempted,
                 !.targeted = targeted,
                 !.todo = IF firebaseUp THEN deliveries ELSE {},
                 !.transient = IF firebaseUp THEN {} ELSE targeted]

\* Devices are read once per batch.
ReadDevices(w) ==
    /\ pc[w] = "claimed"
    /\ \E enabled \in PushSettings, firebaseUp \in BOOLEAN :
         job' = [job EXCEPT ![w] = ReadJob(job[w], enabled, firebaseUp)]
    /\ pc' = [pc EXCEPT ![w] = "sending"]
    /\ UNCHANGED <<rows, world, stopping, faults, accepted>>

NextChunk(todo) ==
    {C \in SUBSET todo :
        Cardinality(C) = IF Cardinality(todo) < SendChunkSize
                         THEN Cardinality(todo) ELSE SendChunkSize}

\* "dead" is an unregistered token or a sender mismatch, "rejected" an
\* invalid argument, "transient" any other error; "unanswered" is one whose
\* message Firebase took.  An exception of send_each itself leaves every
\* delivery of the chunk transient or unanswered.
Answers == {"delivered", "dead", "rejected", "transient", "unanswered"}

Answered(chunk, answer, A) == {p \in chunk : answer[p] \in A}

Got(n, chunk, answer, A) == {d \in Devices : <<n, d>> \in Answered(chunk, answer, A)}

\* The batch after the answers of one send_each call.
AnsweredJob(j, chunk, answer) ==
    [j EXCEPT !.todo = @ \ chunk,
              !.delivered = [n \in Notifications |-> @[n] \cup Got(n, chunk, answer, {"delivered"})],
              !.transient = @ \cup {p[1] : p \in Answered(chunk, answer, {"transient", "unanswered"})},
              !.dead = @ \cup {p[2] : p \in Answered(chunk, answer, {"dead"})}]

SendChunk(w) ==
    /\ pc[w] = "sending" /\ job[w].todo # {}
    /\ \E chunk \in NextChunk(job[w].todo) :
       \E answer \in [chunk -> Answers] :
         /\ job' = [job EXCEPT ![w] = AnsweredJob(job[w], chunk, answer)]
         /\ accepted' = [n \in Notifications |->
                           accepted[n] \cup Got(n, chunk, answer, {"delivered", "unanswered"})]
    /\ UNCHANGED <<rows, world, pc, stopping, faults>>

\* Dead devices are disabled in one update whose database error is swallowed.
DisableDeadDevices(w) ==
    /\ pc[w] = "sending" /\ job[w].todo = {} /\ job[w].dead # {}
    /\ \/ holder' = [d \in Devices |-> IF d \in job[w].dead /\ holder[d] \in Guardians
                                       THEN Unregistered ELSE holder[d]]
       \/ UNCHANGED holder
    /\ job' = [job EXCEPT ![w].dead = {}]
    /\ UNCHANGED <<rows, account, pc, stopping, faults, accepted>>
-----------------------------------------------------------------------------
(* _result_for and record_results                                          *)

\* Mutant: an attempt without a device to send to counts.
NewAttemptsAlways(j, n) == j.attempts[n] + 1

NewAttempts(j, n) == IF n \in j.targeted THEN j.attempts[n] + 1 ELSE j.attempts[n]

\* Mutant: one attempt too many.
NewStatusOneMore(j, n) ==
    CASE n \notin j.attempted -> "skipped"
      [] n \in j.attempted \ j.targeted -> IF j.delivered[n] = {} THEN "skipped" ELSE "sent"
      [] n \in j.attempted \cap j.targeted \cap j.transient ->
            IF NewAttempts(j, n) > MaxAttempts THEN "failed" ELSE "pending"
      [] OTHER -> IF j.delivered[n] = {} THEN "failed" ELSE "sent"

\* Mutant: an attempt without transient errors counts as sent.
NewStatusNoFailure(j, n) ==
    CASE n \notin j.attempted -> "skipped"
      [] n \in j.attempted \ j.targeted -> IF j.delivered[n] = {} THEN "skipped" ELSE "sent"
      [] n \in j.attempted \cap j.targeted \cap j.transient ->
            IF NewAttempts(j, n) >= MaxAttempts THEN "failed" ELSE "pending"
      [] OTHER -> "sent"

NewStatus(j, n) ==
    CASE n \notin j.attempted -> "skipped"
      [] n \in j.attempted \ j.targeted -> IF j.delivered[n] = {} THEN "skipped" ELSE "sent"
      [] n \in j.attempted \cap j.targeted \cap j.transient ->
            IF NewAttempts(j, n) >= MaxAttempts THEN "failed" ELSE "pending"
      [] OTHER -> IF j.delivered[n] = {} THEN "failed" ELSE "sent"

\* Mutant: the token is not compared.
StillPending(j, n) == status[n] = "pending"

\* Mutant: the row is found by its key alone.
StillThere(j, n) == Exists(n)

\* The WHERE clause of the update: the row is still leased to this batch.
StillHeld(j, n) == status[n] = "pending" /\ lease[n] = j.token

RecordResults(w) ==
    /\ pc[w] = "sending" /\ job[w].todo = {} /\ job[w].dead = {}
    /\ LET j == job[w]
           stored == {n \in j.batch : StillHeld(j, n)}
       IN /\ status' = [n \in Notifications |-> IF n \in stored THEN NewStatus(j, n) ELSE status[n]]
          /\ attempts' = [n \in Notifications |-> IF n \in stored THEN NewAttempts(j, n) ELSE attempts[n]]
          /\ due' = [n \in Notifications |->
                       IF n \in stored THEN (IF NewStatus(j, n) = "pending" THEN "waiting" ELSE "none")
                                       ELSE due[n]]
          /\ delivered' = [n \in Notifications |-> IF n \in stored THEN j.delivered[n] ELSE delivered[n]]
          /\ lock' = [n \in Notifications |-> IF n \in stored THEN "free" ELSE lock[n]]
          /\ lease' = [n \in Notifications |-> IF n \in stored THEN NoToken ELSE lease[n]]
          /\ stale' = {n \in stale : n \in stored => NewStatus(j, n) = "pending"}
    /\ job' = [job EXCEPT ![w] = NoJob]
    /\ pc' = [pc EXCEPT ![w] = "idle"]
    /\ UNCHANGED <<createdAt, world, stopping, faults, accepted>>
-----------------------------------------------------------------------------
(* PushWorker.run: the loop, its error handler, SIGTERM, kill and restart  *)

\* A database or unexpected error: the batch is dropped, its leases stay.
BatchFails(w) ==
    /\ pc[w] \in {"claimed", "sending"}
    /\ faults < MaxFaults
    /\ faults' = faults + 1
    /\ pc' = [pc EXCEPT ![w] = "idle"]
    /\ job' = [job EXCEPT ![w] = NoJob]
    /\ UNCHANGED <<rows, world, stopping, accepted>>

RequestStop(w) ==
    /\ pc[w] # "down" /\ ~stopping[w]
    /\ faults < MaxFaults
    /\ faults' = faults + 1
    /\ stopping' = [stopping EXCEPT ![w] = TRUE]
    /\ UNCHANGED <<rows, world, pc, job, accepted>>

\* The stop flag is looked at between batches only.
ExitWorker(w) ==
    /\ pc[w] = "idle" /\ stopping[w]
    /\ pc' = [pc EXCEPT ![w] = "down"]
    /\ stopping' = [stopping EXCEPT ![w] = FALSE]
    /\ UNCHANGED <<rows, world, job, faults, accepted>>

KillWorker(w) ==
    /\ pc[w] # "down"
    /\ faults < MaxFaults
    /\ faults' = faults + 1
    /\ pc' = [pc EXCEPT ![w] = "down"]
    /\ stopping' = [stopping EXCEPT ![w] = FALSE]
    /\ job' = [job EXCEPT ![w] = NoJob]
    /\ UNCHANGED <<rows, world, accepted>>

StartWorker(w) ==
    /\ pc[w] = "down"
    /\ pc' = [pc EXCEPT ![w] = "idle"]
    /\ UNCHANGED <<rows, world, stopping, job, faults, accepted>>
-----------------------------------------------------------------------------
(* Time                                                                    *)

\* The retry delay is over.
BecomesDue(n) ==
    /\ status[n] = "pending" /\ due[n] = "waiting"
    /\ due' = [due EXCEPT ![n] = "due"]
    /\ UNCHANGED <<status, attempts, lock, lease, delivered, createdAt, stale,
                   world, pc, stopping, job, faults, accepted>>

\* push_locked_until passes.  With leases sized as the settings require
\* (LateSends FALSE) that never happens to a batch a worker still works on.
LeaseLapses(n) ==
    /\ lock[n] = "held"
    /\ LateSends \/ \A w \in Workers : job[w].token # lease[n]
    /\ lock' = [lock EXCEPT ![n] = "lapsed"]
    /\ UNCHANGED <<status, attempts, due, lease, delivered, createdAt, stale,
                   world, pc, stopping, job, faults, accepted>>

\* PUSH_MAX_AGE_HOURS have passed since the row was created.
GrowsStale(n) ==
    /\ status[n] = "pending" /\ n \notin stale
    /\ \A m \in Notifications :
          status[m] = "pending" /\ createdAt[m] < createdAt[n] => m \in stale
    /\ stale' = stale \cup {n}
    /\ UNCHANGED <<status, attempts, due, lock, lease, delivered, createdAt,
                   world, pc, stopping, job, faults, accepted>>
-----------------------------------------------------------------------------
Request == \E n \in Notifications : ValidateNotification(n) \/ InsertNotification(n)

World ==
    \/ \E g \in Guardians :
          SetAccountActive(g) \/ ResetPassword(g) \/ ChangePassword(g) \/ DeleteGuardian(g)
    \/ \E d \in Devices : UnregisterDevice(d) \/ \E g \in Guardians : RegisterDevice(d, g)

WorkerStep(w) ==
    \/ ClaimBatch(w) \/ ReadDevices(w) \/ SendChunk(w) \/ DisableDeadDevices(w)
    \/ RecordResults(w) \/ ExitWorker(w) \/ StartWorker(w)

Fault(w) == BatchFails(w) \/ RequestStop(w) \/ KillWorker(w)

Time == \E n \in Notifications : BecomesDue(n) \/ LeaseLapses(n) \/ GrowsStale(n)

Next ==
    \/ Request
    \/ World
    \/ \E w \in Workers : WorkerStep(w) \/ Fault(w)
    \/ Time

Spec == Init /\ [][Next]_vars

\* systemd restarts a worker (Restart=always) and its loop never ends; time
\* passes.  Requests, users and faults owe nothing.
Fairness ==
    /\ \A w \in Workers : WF_vars(WorkerStep(w))
    /\ \A n \in Notifications :
          WF_vars(BecomesDue(n)) /\ WF_vars(LeaseLapses(n)) /\ WF_vars(GrowsStale(n))

FairSpec == Spec /\ Fairness
-----------------------------------------------------------------------------
(* Properties                                                              *)

\* A worker whose token is still on a row works from that row's current
\* values: nobody else settled it, counted an attempt or recorded a delivery
\* since the claim.  It is what makes the write of record_results, which
\* stores absolute values computed from the claimed copy, safe.
HolderIsCurrent ==
    \A w \in Workers : \A n \in job[w].batch :
        lease[n] = job[w].token =>
            /\ status[n] = "pending"
            /\ lock[n] # "free"
            /\ job[w].attempts[n] = attempts[n]
            /\ delivered[n] \subseteq job[w].delivered[n]

\* A pending row can always be claimed again: it has a next attempt time, it
\* has attempts left, and a lock on it always has an end and a token.
PendingCanProceed ==
    \A n \in Notifications :
        /\ status[n] = "pending" => due[n] # "none" /\ attempts[n] < MaxAttempts
        /\ (lock[n] = "free") <=> (lease[n] = NoToken)
        /\ status[n] # "pending" => lock[n] = "free"

\* The database never claims a delivery Firebase did not accept, and a row is
\* marked sent only when some device has it.
SentWasAccepted ==
    \A n \in Notifications :
        /\ delivered[n] \subseteq accepted[n]
        /\ status[n] = "sent" => delivered[n] # {}

\* While batches finish within their lease, no device is about to receive a
\* notification it is already recorded to have, and no two workers are
\* sending the same notification (docs/production_deployment.md, lease sizing).
NoConcurrentResend ==
    /\ \A w \in Workers : \A p \in job[w].todo : p[2] \notin delivered[p[1]]
    /\ \A v, w \in Workers : \A p \in job[v].todo, q \in job[w].todo :
          p[1] = q[1] => v = w

\* The outbox keeps the meaning of every push status: it implements
\* PushPromise, where an attempt is counted once, a sent row reached a
\* device, and a failed one had no success or no attempts left.
Promise == INSTANCE PushPromise WITH
    phase <- [n \in Notifications |-> IF status[n] = "validated" THEN "absent" ELSE status[n]],
    tries <- attempts,
    reached <- delivered

ImplementsPromise == Promise!Spec

\* "expired: still pending PUSH_MAX_AGE_HOURS after creation; never sent."
ExpiredNeverSent ==
    \A n \in Notifications : status[n] = "expired" => accepted[n] = {}

\* A settled row keeps its outcome, whatever a late worker still reports.
SettledIsFinal ==
    [][\A n \in Notifications :
          status[n] \in Settled => status'[n] \in {status[n], "deleted"}]_vars

\* No result overwrites a newer one: recorded deliveries are never forgotten
\* and the attempt count never goes back or jumps.
ProgressIsKept ==
    [][\A n \in Notifications :
          /\ delivered[n] \subseteq delivered'[n]
          /\ attempts'[n] \in {attempts[n], attempts[n] + 1}]_vars

\* Every pending row is eventually settled (or deleted), however often leases
\* lapse under a slow worker, because a stale row expires at the next claim.
EventuallySettled ==
    \A n \in Notifications : status[n] = "pending" ~> status[n] # "pending"
=============================================================================
