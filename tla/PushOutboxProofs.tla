-------------------------- MODULE PushOutboxProofs --------------------------
(***************************************************************************)
(* Theorems about PushOutbox, for every set of notifications, devices,     *)
(* guardians, workers and tokens and every value of the limits.            *)
(***************************************************************************)
EXTENDS PushOutbox, FiniteSetTheorems, TLAPS

\* An idle worker's memory is a job.
LEMMA NoJobIsJob == NoJob \in Job
  BY DEF NoJob, Job

\* A claimed batch is a job, and what it holds is what the rows held.
LEMMA ClaimedJobType ==
  ASSUME TypeOK, NEW mine \in SUBSET Notifications, NEW t \in Tokens
  PROVE  /\ ClaimedJob(mine, t) \in Job
         /\ ClaimedJob(mine, t).token = t
         /\ ClaimedJob(mine, t).batch = mine
         /\ \A n \in mine : ClaimedJob(mine, t).attempts[n] = attempts[n]
         /\ \A n \in mine : ClaimedJob(mine, t).delivered[n] = delivered[n]
         /\ ClaimedJob(mine, t).eligible \subseteq mine
         /\ ClaimedJob(mine, t).attempted = {}
         /\ ClaimedJob(mine, t).targeted = {}
  BY DEF ClaimedJob, NoJob, Job, TypeOK

\* The devices read for a batch leave its identity and its copies alone.
LEMMA ReadJobType ==
  ASSUME NEW j \in Job, NEW enabled \in BOOLEAN, NEW firebaseUp \in BOOLEAN
  PROVE  /\ ReadJob(j, enabled, firebaseUp) \in Job
         /\ ReadJob(j, enabled, firebaseUp).token = j.token
         /\ ReadJob(j, enabled, firebaseUp).batch = j.batch
         /\ ReadJob(j, enabled, firebaseUp).attempts = j.attempts
         /\ ReadJob(j, enabled, firebaseUp).delivered = j.delivered
         /\ ReadJob(j, enabled, firebaseUp).targeted \subseteq ReadJob(j, enabled, firebaseUp).attempted
         /\ \A p \in ReadJob(j, enabled, firebaseUp).todo :
              p[1] \in ReadJob(j, enabled, firebaseUp).targeted
<1> DEFINE attempted == IF enabled THEN j.eligible ELSE {}
           deliveries == Deliveries(j, attempted)
           targeted == {p[1] : p \in deliveries}
<1>1. attempted \in SUBSET Notifications
  BY DEF Job
<1>2. deliveries \in SUBSET (attempted \X Devices)
  BY DEF Deliveries
<1>3. targeted \subseteq attempted
  BY <1>2
<1>4. deliveries \in SUBSET (Notifications \X Devices)
  BY <1>1, <1>2
<1> HIDE DEF attempted, deliveries, targeted
<1> DEFINE todo == IF firebaseUp THEN deliveries ELSE {}
           transient == IF firebaseUp THEN {} ELSE targeted
<1>5. ReadJob(j, enabled, firebaseUp)
        = [j EXCEPT !.attempted = attempted, !.targeted = targeted,
                    !.todo = todo, !.transient = transient]
  BY DEF ReadJob, attempted, deliveries, targeted
<1>6. /\ todo \in SUBSET (Notifications \X Devices)
      /\ transient \in SUBSET Notifications
      /\ targeted \in SUBSET Notifications
      /\ \A p \in todo : p[1] \in targeted
  BY <1>1, <1>3, <1>4 DEF targeted
<1> HIDE DEF todo, transient
<1>7. ReadJob(j, enabled, firebaseUp) \in Job
  BY <1>1, <1>5, <1>6 DEF Job
<1>8. /\ ReadJob(j, enabled, firebaseUp).token = j.token
      /\ ReadJob(j, enabled, firebaseUp).batch = j.batch
      /\ ReadJob(j, enabled, firebaseUp).attempts = j.attempts
      /\ ReadJob(j, enabled, firebaseUp).delivered = j.delivered
      /\ ReadJob(j, enabled, firebaseUp).attempted = attempted
      /\ ReadJob(j, enabled, firebaseUp).targeted = targeted
      /\ ReadJob(j, enabled, firebaseUp).todo = todo
  BY <1>5 DEF Job
<1> QED
  BY <1>3, <1>6, <1>7, <1>8

\* A chunk's answers only add deliveries to the copy of a batch.
LEMMA AnsweredJobType ==
  ASSUME NEW j \in Job, NEW chunk \in SUBSET j.todo, NEW answer \in [chunk -> Answers]
  PROVE  /\ AnsweredJob(j, chunk, answer) \in Job
         /\ AnsweredJob(j, chunk, answer).token = j.token
         /\ AnsweredJob(j, chunk, answer).batch = j.batch
         /\ AnsweredJob(j, chunk, answer).attempts = j.attempts
         /\ AnsweredJob(j, chunk, answer).attempted = j.attempted
         /\ AnsweredJob(j, chunk, answer).targeted = j.targeted
         /\ AnsweredJob(j, chunk, answer).todo \subseteq j.todo
         /\ \A n \in Notifications :
              AnsweredJob(j, chunk, answer).delivered[n]
                = j.delivered[n] \cup Got(n, chunk, answer, {"delivered"})
<1> DEFINE copies == [n \in Notifications |-> j.delivered[n] \cup Got(n, chunk, answer, {"delivered"})]
           transient == j.transient \cup
                          {p[1] : p \in Answered(chunk, answer, {"transient", "unanswered"})}
           dead == j.dead \cup {p[2] : p \in Answered(chunk, answer, {"dead"})}
<1>1. chunk \subseteq Notifications \X Devices
  BY DEF Job
<1>2. copies \in [Notifications -> SUBSET Devices]
  BY DEF Job, Got
<1>3. transient \in SUBSET Notifications /\ dead \in SUBSET Devices
  BY <1>1 DEF Answered, Job
<1>4. j.todo \ chunk \in SUBSET (Notifications \X Devices)
  BY DEF Job
<1> HIDE DEF transient, dead
<1>5. AnsweredJob(j, chunk, answer)
        = [j EXCEPT !.todo = j.todo \ chunk, !.delivered = copies,
                    !.transient = transient, !.dead = dead]
  BY DEF AnsweredJob, transient, dead, Job
<1> HIDE DEF copies
<1>6. AnsweredJob(j, chunk, answer) \in Job
  BY <1>2, <1>3, <1>4, <1>5 DEF Job
<1>7. /\ AnsweredJob(j, chunk, answer).token = j.token
      /\ AnsweredJob(j, chunk, answer).batch = j.batch
      /\ AnsweredJob(j, chunk, answer).attempts = j.attempts
      /\ AnsweredJob(j, chunk, answer).attempted = j.attempted
      /\ AnsweredJob(j, chunk, answer).targeted = j.targeted
      /\ AnsweredJob(j, chunk, answer).todo = j.todo \ chunk
      /\ AnsweredJob(j, chunk, answer).delivered = copies
  BY <1>5 DEF Job
<1> QED
  BY <1>6, <1>7 DEF copies

\* What _result_for answers, case by case.
LEMMA NewStatusCases ==
  ASSUME NEW j, NEW n
  PROVE  /\ n \notin j.attempted => NewStatus(j, n) = "skipped"
         /\ n \in j.attempted \ j.targeted =>
              NewStatus(j, n) = IF j.delivered[n] = {} THEN "skipped" ELSE "sent"
         /\ n \in j.attempted \cap j.targeted \cap j.transient =>
              NewStatus(j, n) = IF NewAttempts(j, n) >= MaxAttempts THEN "failed" ELSE "pending"
         /\ n \in (j.attempted \cap j.targeted) \ j.transient =>
              NewStatus(j, n) = IF j.delivered[n] = {} THEN "failed" ELSE "sent"
<1>1. ASSUME n \notin j.attempted PROVE NewStatus(j, n) = "skipped"
  BY <1>1 DEF NewStatus
<1>2. ASSUME n \in j.attempted \ j.targeted
      PROVE NewStatus(j, n) = IF j.delivered[n] = {} THEN "skipped" ELSE "sent"
  BY <1>2 DEF NewStatus
<1>3. ASSUME n \in j.attempted \cap j.targeted \cap j.transient
      PROVE NewStatus(j, n) = IF NewAttempts(j, n) >= MaxAttempts THEN "failed" ELSE "pending"
  BY <1>3 DEF NewStatus
<1>4. ASSUME n \in (j.attempted \cap j.targeted) \ j.transient
      PROVE NewStatus(j, n) = IF j.delivered[n] = {} THEN "failed" ELSE "sent"
  BY <1>4 DEF NewStatus
<1> QED
  BY <1>1, <1>2, <1>3, <1>4

\* _result_for never leaves the push statuses.
LEMMA NewStatusType ==
  ASSUME NEW j, NEW n
  PROVE  NewStatus(j, n) \in {"pending", "sent", "failed", "skipped"}
<1>1. CASE n \notin j.attempted
  BY <1>1, NewStatusCases
<1>2. CASE n \in j.attempted \ j.targeted
  BY <1>2, NewStatusCases
<1>3. CASE n \in j.attempted \cap j.targeted \cap j.transient
  BY <1>3, NewStatusCases
<1>4. CASE n \in (j.attempted \cap j.targeted) \ j.transient
  BY <1>4, NewStatusCases
<1> QED
  BY <1>1, <1>2, <1>3, <1>4

\* Every action of the specification preserves the type invariant.
LEMMA TypeStep ==
  ASSUME TypeOK, [Next]_vars
  PROVE  TypeOK'
<1>1. ASSUME NEW n \in Notifications, ValidateNotification(n) PROVE TypeOK'
  BY <1>1 DEF ValidateNotification, TypeOK, world, rows
<1>2. ASSUME NEW n \in Notifications, InsertNotification(n) PROVE TypeOK'
  <2>1. Cardinality({m \in Notifications : createdAt[m] > 0}) \in Nat
    BY OutboxAssumption, FS_Subset, FS_CardinalityType
  <2>2. \A e \in BOOLEAN : InitialStatus(e) \in {"pending", "skipped"}
    BY DEF InitialStatus
  <2>3. status' \in [Notifications -> Settled \cup {"absent", "validated", "pending", "deleted"}]
    BY <1>2, <2>2, OutboxAssumption DEF InsertNotification, TypeOK, Settled
  <2> QED
    BY <1>2, <2>1, <2>3 DEF InsertNotification, TypeOK, world
<1>3. ASSUME NEW g \in Guardians, SetAccountActive(g) PROVE TypeOK'
  BY <1>3 DEF SetAccountActive, TypeOK, rows
<1>4. ASSUME NEW g \in Guardians, ResetPassword(g) PROVE TypeOK'
  BY <1>4 DEF ResetPassword, TypeOK, rows
<1>5. ASSUME NEW g \in Guardians, ChangePassword(g) PROVE TypeOK'
  BY <1>5 DEF ChangePassword, TypeOK, rows
<1>6. ASSUME NEW g \in Guardians, DeleteGuardian(g) PROVE TypeOK'
  BY <1>6 DEF DeleteGuardian, TypeOK
<1>7. ASSUME NEW d \in Devices, UnregisterDevice(d) PROVE TypeOK'
  BY <1>7 DEF UnregisterDevice, TypeOK, rows
<1>8. ASSUME NEW d \in Devices, NEW g \in Guardians, RegisterDevice(d, g) PROVE TypeOK'
  BY <1>8 DEF RegisterDevice, TypeOK, rows
<1>9. ASSUME NEW w \in Workers, ClaimBatch(w) PROVE TypeOK'
  <2>1. PICK gone \in SUBSET Notifications, mine \in SUBSET Notifications, t \in Tokens :
          ClaimEffect(w, gone, mine, t)
    BY <1>9 DEF ClaimBatch, Oldest, Expirable, DueNow, FreshTokens
  <2>2. job' \in [Workers -> Job]
    BY <2>1, NoJobIsJob, ClaimedJobType DEF ClaimEffect, TypeOK
  <2> QED
    BY <2>1, <2>2, <1>9 DEF ClaimEffect, ClaimBatch, TypeOK, Settled, world
<1>10. ASSUME NEW w \in Workers, ReadDevices(w) PROVE TypeOK'
  <2>1. PICK enabled \in BOOLEAN, firebaseUp \in BOOLEAN :
          job' = [job EXCEPT ![w] = ReadJob(job[w], enabled, firebaseUp)]
    BY <1>10, OutboxAssumption DEF ReadDevices
  <2>2. job[w] \in Job
    BY DEF TypeOK
  <2>3. ReadJob(job[w], enabled, firebaseUp) \in Job
    BY <2>2, ReadJobType
  <2>4. job' \in [Workers -> Job]
    BY <2>1, <2>3 DEF TypeOK
  <2> QED
    BY <1>10, <2>4 DEF ReadDevices, TypeOK, rows, world
<1>11. ASSUME NEW w \in Workers, SendChunk(w) PROVE TypeOK'
  <2>0. PICK chunk \in SUBSET job[w].todo : \E answer \in [chunk -> Answers] :
          /\ job' = [job EXCEPT ![w] = AnsweredJob(job[w], chunk, answer)]
          /\ accepted' = [n \in Notifications |->
                            accepted[n] \cup Got(n, chunk, answer, {"delivered", "unanswered"})]
    BY <1>11 DEF SendChunk, NextChunk
  <2>1. PICK answer \in [chunk -> Answers] :
          /\ job' = [job EXCEPT ![w] = AnsweredJob(job[w], chunk, answer)]
          /\ accepted' = [n \in Notifications |->
                            accepted[n] \cup Got(n, chunk, answer, {"delivered", "unanswered"})]
    BY <2>0
  <2>2. job[w] \in Job
    BY DEF TypeOK
  <2>3. AnsweredJob(job[w], chunk, answer) \in Job
    BY <2>2, AnsweredJobType
  <2>4. job' \in [Workers -> Job] /\ accepted' \in [Notifications -> SUBSET Devices]
    BY <2>1, <2>3 DEF TypeOK, Got
  <2> QED
    BY <1>11, <2>4 DEF SendChunk, TypeOK, rows, world
<1>12. ASSUME NEW w \in Workers, DisableDeadDevices(w) PROVE TypeOK'
  <2>0. job[w] \in Job
    BY DEF TypeOK
  <2>1. [job[w] EXCEPT !.dead = {}] \in Job
    BY <2>0 DEF Job
  <2>2. job' = [job EXCEPT ![w] = [job[w] EXCEPT !.dead = {}]]
    BY <1>12 DEF DisableDeadDevices, TypeOK
  <2>3. job' \in [Workers -> Job]
    BY <2>1, <2>2 DEF TypeOK
  <2> QED
    BY <1>12, <2>3 DEF DisableDeadDevices, TypeOK, rows
<1>13. ASSUME NEW w \in Workers, RecordResults(w) PROVE TypeOK'
  <2>1. job[w] \in Job
    BY DEF TypeOK
  <2>2. \A n \in Notifications : NewStatus(job[w], n) \in Settled \cup {"pending"}
    BY NewStatusType DEF Settled
  <2>3. \A n \in Notifications : NewAttempts(job[w], n) \in Nat
    BY <2>1 DEF NewAttempts, Job
  <2> QED
    BY <1>13, <2>1, <2>2, <2>3, NoJobIsJob DEF RecordResults, TypeOK, Job, world
<1>14. ASSUME NEW w \in Workers, ExitWorker(w) \/ StartWorker(w) PROVE TypeOK'
  <2>1. CASE ExitWorker(w)
    BY <2>1 DEF ExitWorker, TypeOK, rows, world
  <2>2. CASE StartWorker(w)
    BY <2>2 DEF StartWorker, TypeOK, rows, world
  <2> QED
    BY <1>14, <2>1, <2>2
<1>15. ASSUME NEW w \in Workers, Fault(w) PROVE TypeOK'
  <2>1. CASE BatchFails(w)
    BY <2>1, NoJobIsJob DEF BatchFails, TypeOK, rows, world
  <2>2. CASE RequestStop(w)
    BY <2>2 DEF RequestStop, TypeOK, rows, world
  <2>3. CASE KillWorker(w)
    BY <2>3, NoJobIsJob DEF KillWorker, TypeOK, rows, world
  <2> QED
    BY <1>15, <2>1, <2>2, <2>3 DEF Fault
<1>16. ASSUME NEW n \in Notifications, BecomesDue(n) \/ LeaseLapses(n) \/ GrowsStale(n)
       PROVE TypeOK'
  <2>1. CASE BecomesDue(n)
    BY <2>1 DEF BecomesDue, TypeOK, world
  <2>2. CASE LeaseLapses(n)
    BY <2>2 DEF LeaseLapses, TypeOK, world
  <2>3. CASE GrowsStale(n)
    BY <2>3 DEF GrowsStale, TypeOK, world
  <2> QED
    BY <1>16, <2>1, <2>2, <2>3
<1>17. CASE UNCHANGED vars
  BY <1>17 DEF vars, rows, world, TypeOK
<1> QED
  BY <1>1, <1>2, <1>3, <1>4, <1>5, <1>6, <1>7, <1>8, <1>9, <1>10, <1>11, <1>12,
     <1>13, <1>14, <1>15, <1>16, <1>17
  DEF Next, Request, World, WorkerStep, Time

\* Every variable keeps its type: a row never leaves the push statuses, and a
\* worker's memory never names a row or a device that does not exist.
THEOREM TypeCorrect == Spec => []TypeOK
<1>1. Init => TypeOK
  BY NoJobIsJob DEF Init, TypeOK
<1>2. TypeOK /\ [Next]_vars => TypeOK'
  BY TypeStep
<1> QED
  BY <1>1, <1>2, PTL DEF Spec
-----------------------------------------------------------------------------
(***************************************************************************)
(* The lease invariant.  HolderIsCurrent is not inductive by itself: it    *)
(* needs that a busy worker's token is a real one nobody else has, that an *)
(* idle worker holds nothing, and that only pending rows are locked.       *)
(***************************************************************************)

MemoryFits ==
    \A w \in Workers :
        /\ pc[w] \in {"down", "idle"} => job[w] = NoJob
        /\ job[w].batch # {} => job[w].token # NoToken
        /\ job[w].targeted \subseteq job[w].attempted
        /\ \A n \in Notifications : job[w].delivered[n] \subseteq accepted[n]

RowsFit ==
    \A n \in Notifications :
        /\ status[n] \in {"absent", "validated"} => attempts[n] = 0 /\ delivered[n] = {}
        /\ attempts[n] <= MaxAttempts

\* A claim draws a token that no row and no other worker has, and a worker
\* gives its own up with its batch.
TokensAreExclusive ==
    \A v, w \in Workers : v # w /\ job[v].token # NoToken => job[v].token # job[w].token

LeaseInv ==
    /\ HolderIsCurrent
    /\ TokensAreExclusive
    /\ PendingCanProceed
    /\ SentWasAccepted
    /\ MemoryFits
    /\ RowsFit

IInv == TypeOK /\ LeaseInv

\* Steps that leave the rows' leases and the workers' memory alone.
LEMMA LeaseFrame ==
  ASSUME IInv, UNCHANGED <<status, attempts, lock, lease, delivered, pc, job, accepted>>,
         \A n \in Notifications : due'[n] = due[n] \/ due'[n] # "none"
  PROVE  LeaseInv'
<1>1. HolderIsCurrent' /\ TokensAreExclusive' /\ SentWasAccepted' /\ MemoryFits' /\ RowsFit'
  BY DEF IInv, LeaseInv, HolderIsCurrent, TokensAreExclusive, SentWasAccepted, MemoryFits, RowsFit
<1>2. PendingCanProceed'
  BY DEF IInv, LeaseInv, PendingCanProceed
<1> QED
  BY <1>1, <1>2 DEF LeaseInv

\* A worker that drops its batch, or has none, breaks nothing.
LEMMA DropJob ==
  ASSUME IInv, NEW w \in Workers, pc' \in [Workers -> {"down", "idle", "claimed", "sending"}],
         \A v \in Workers \ {w} : pc'[v] = pc[v],
         job' = [job EXCEPT ![w] = NoJob],
         UNCHANGED <<rows, accepted>>
  PROVE  LeaseInv'
<1>1. /\ job'[w].batch = {} /\ job'[w].token = NoToken /\ job'[w].targeted = {}
      /\ \A n \in Notifications : job'[w].delivered[n] = {}
      /\ job'[w] = NoJob
  BY DEF IInv, TypeOK, NoJob
<1>2. \A v \in Workers \ {w} : job'[v] = job[v]
  BY DEF IInv, TypeOK
<1>3. HolderIsCurrent'
  BY <1>1, <1>2 DEF IInv, LeaseInv, HolderIsCurrent, rows
<1>4. TokensAreExclusive'
  BY <1>1, <1>2 DEF IInv, LeaseInv, TokensAreExclusive
<1>5. PendingCanProceed' /\ SentWasAccepted' /\ RowsFit'
  BY DEF IInv, LeaseInv, PendingCanProceed, SentWasAccepted, RowsFit, rows
<1>6. MemoryFits'
  BY <1>1, <1>2 DEF IInv, LeaseInv, MemoryFits
<1> QED
  BY <1>3, <1>4, <1>5, <1>6 DEF LeaseInv

\* The claim: the new token is nobody's, the claimed rows carry it, and the
\* copies are the rows' values at that moment.
LEMMA ClaimKeepsLeaseInv ==
  ASSUME IInv, NEW w \in Workers, ClaimBatch(w)
  PROVE  LeaseInv'
<1>1. PICK gone \in Oldest(Expirable, ExpireChunk), t \in FreshTokens :
        \E mine \in Oldest(DueNow \ gone, BatchSize) : ClaimEffect(w, gone, mine, t)
  BY DEF ClaimBatch
<1>2. PICK mine \in Oldest(DueNow \ gone, BatchSize) : ClaimEffect(w, gone, mine, t)
  BY <1>1
<1>3. gone \subseteq Expirable /\ mine \subseteq DueNow \ gone
  BY <1>1, <1>2 DEF Oldest
<1>4. /\ \A n \in gone : n \in Notifications /\ status[n] = "pending"
      /\ \A n \in mine : n \in Notifications /\ status[n] = "pending"
      /\ gone \cap mine = {}
  BY <1>3 DEF Expirable, DueNow
<1>5. /\ t \in Tokens /\ t # NoToken
      /\ \A n \in Notifications : lease[n] # t
      /\ \A v \in Workers : job[v].token # t
  BY <1>1, OutboxAssumption DEF FreshTokens
<1> DEFINE new == IF mine = {} THEN NoJob ELSE ClaimedJob(mine, t)
<1>6. /\ mine = {} => new = NoJob /\ new.token = NoToken
      /\ mine # {} => new.token = t
      /\ new.batch = mine
      /\ \A n \in mine : new.attempts[n] = attempts[n] /\ new.delivered[n] = delivered[n]
      /\ \A n \in Notifications : new.delivered[n] \subseteq delivered[n]
      /\ new.targeted = {}
  <2>1. mine \in SUBSET Notifications
    BY <1>4
  <2>2. CASE mine = {}
    BY <2>2 DEF NoJob
  <2>3. CASE mine # {}
    <3>1. \A n \in Notifications : ClaimedJob(mine, t).delivered[n] \subseteq delivered[n]
      BY DEF ClaimedJob, NoJob
    <3>0. TypeOK /\ t \in Tokens
      BY <1>5 DEF IInv
    <3>2. /\ ClaimedJob(mine, t).token = t
          /\ ClaimedJob(mine, t).batch = mine
          /\ \A n \in mine : ClaimedJob(mine, t).attempts[n] = attempts[n]
          /\ \A n \in mine : ClaimedJob(mine, t).delivered[n] = delivered[n]
          /\ ClaimedJob(mine, t).targeted = {}
      BY <2>1, <3>0 DEF ClaimedJob, NoJob
    <3>3. new = ClaimedJob(mine, t)
      BY <2>3
    <3> HIDE DEF new
    <3> QED
      BY <2>3, <3>1, <3>2, <3>3
  <2> QED
    BY <2>2, <2>3
<1> HIDE DEF new
<1>7. /\ job'[w] = new
      /\ \A v \in Workers \ {w} : job'[v] = job[v] /\ pc'[v] = pc[v]
      /\ pc'[w] = IF mine = {} THEN "idle" ELSE "claimed"
  BY <1>2 DEF ClaimEffect, IInv, TypeOK, new
<1>8. /\ \A n \in gone : /\ status'[n] = "expired" /\ due'[n] = "none"
                         /\ lock'[n] = "free" /\ lease'[n] = NoToken
      /\ \A n \in mine : /\ status'[n] = "pending" /\ due'[n] = due[n]
                         /\ lock'[n] = "held" /\ lease'[n] = t
      /\ \A n \in Notifications \ (gone \cup mine) :
            /\ status'[n] = status[n] /\ due'[n] = due[n]
            /\ lock'[n] = lock[n] /\ lease'[n] = lease[n]
      /\ UNCHANGED <<attempts, delivered, accepted>>
  BY <1>2, <1>4 DEF ClaimEffect, ClaimBatch
<1>9. HolderIsCurrent'
  <2> SUFFICES ASSUME NEW v \in Workers, NEW n \in job'[v].batch, lease'[n] = job'[v].token
               PROVE  /\ status'[n] = "pending" /\ lock'[n] # "free"
                      /\ job'[v].attempts[n] = attempts'[n]
                      /\ delivered'[n] \subseteq job'[v].delivered[n]
    BY DEF HolderIsCurrent
  <2>1. CASE v = w
    BY <2>1, <1>6, <1>7, <1>8
  <2>2. CASE v # w
    <3>1. n \in job[v].batch /\ job[v].token # NoToken /\ job[v].token # t
      BY <2>2, <1>5, <1>7 DEF IInv, LeaseInv, MemoryFits
    <3>2. n \in Notifications
      BY <3>1 DEF IInv, TypeOK, Job
    <3>3. n \notin gone /\ n \notin mine
      BY <2>2, <3>1, <1>7, <1>8
    <3> QED
      BY <2>2, <3>1, <3>2, <3>3, <1>7, <1>8 DEF IInv, LeaseInv, HolderIsCurrent
  <2> QED
    BY <2>1, <2>2
<1>10. TokensAreExclusive'
  BY <1>5, <1>6, <1>7 DEF IInv, LeaseInv, TokensAreExclusive
<1>11. PendingCanProceed'
  BY <1>4, <1>5, <1>8 DEF IInv, LeaseInv, PendingCanProceed
<1>12. SentWasAccepted' /\ RowsFit'
  BY <1>4, <1>8 DEF IInv, LeaseInv, SentWasAccepted, RowsFit
<1>13. MemoryFits'
  <2>1. \A n \in Notifications : delivered[n] \subseteq accepted[n]
    BY DEF IInv, LeaseInv, SentWasAccepted
  <2>2. \A n \in Notifications : new.delivered[n] \subseteq accepted[n]
    BY <2>1, <1>6
  <2> QED
    BY <2>2, <1>5, <1>6, <1>7, <1>8 DEF IInv, LeaseInv, MemoryFits
<1> QED
  BY <1>9, <1>10, <1>11, <1>12, <1>13 DEF LeaseInv

\* A worker's own memory may move on while it keeps its identity, its
\* attempt counts and at least the deliveries it had.
LEMMA JobMovesOn ==
  ASSUME IInv, NEW w \in Workers, NEW new, job' = [job EXCEPT ![w] = new],
         pc[w] \in {"claimed", "sending"}, pc' = [pc EXCEPT ![w] = "sending"],
         new.token = job[w].token, new.batch = job[w].batch, new.attempts = job[w].attempts,
         new.targeted \subseteq new.attempted,
         \A n \in Notifications : /\ job[w].delivered[n] \subseteq new.delivered[n]
                                  /\ new.delivered[n] \subseteq accepted'[n]
                                  /\ accepted[n] \subseteq accepted'[n],
         UNCHANGED rows
  PROVE  LeaseInv'
<1>1. /\ job'[w] = new
      /\ \A v \in Workers \ {w} : job'[v] = job[v] /\ pc'[v] = pc[v]
      /\ pc'[w] = "sending"
  BY DEF IInv, TypeOK
<1>2. \A v \in Workers : job'[v].token = job[v].token /\ job'[v].batch = job[v].batch
  BY <1>1
<1>3. HolderIsCurrent'
  <2> SUFFICES ASSUME NEW v \in Workers, NEW n \in job'[v].batch, lease'[n] = job'[v].token
               PROVE  /\ status'[n] = "pending" /\ lock'[n] # "free"
                      /\ job'[v].attempts[n] = attempts'[n]
                      /\ delivered'[n] \subseteq job'[v].delivered[n]
    BY DEF HolderIsCurrent
  <2>1. /\ status[n] = "pending" /\ lock[n] # "free"
        /\ job[v].attempts[n] = attempts[n]
        /\ delivered[n] \subseteq job[v].delivered[n]
    BY <1>2 DEF IInv, LeaseInv, HolderIsCurrent, rows
  <2>2. n \in Notifications
    BY <1>2 DEF IInv, TypeOK, Job
  <2>3. job'[v].attempts = job[v].attempts /\ job[v].delivered[n] \subseteq job'[v].delivered[n]
    BY <1>1, <2>2
  <2> QED
    BY <2>1, <2>3 DEF rows
<1>4. TokensAreExclusive'
  BY <1>2 DEF IInv, LeaseInv, TokensAreExclusive
<1>5. PendingCanProceed' /\ RowsFit'
  BY DEF IInv, LeaseInv, PendingCanProceed, RowsFit, rows
<1>6. SentWasAccepted'
  BY DEF IInv, LeaseInv, SentWasAccepted, rows
<1>7. MemoryFits'
  BY <1>1, <1>2 DEF IInv, LeaseInv, MemoryFits
<1> QED
  BY <1>3, <1>4, <1>5, <1>6, <1>7 DEF LeaseInv

LEMMA ReadKeepsLeaseInv ==
  ASSUME IInv, NEW w \in Workers, ReadDevices(w)
  PROVE  LeaseInv'
<1>1. PICK enabled \in BOOLEAN, firebaseUp \in BOOLEAN :
        job' = [job EXCEPT ![w] = ReadJob(job[w], enabled, firebaseUp)]
  BY OutboxAssumption DEF ReadDevices
<1>2. job[w] \in Job
  BY DEF IInv, TypeOK
<1> DEFINE new == ReadJob(job[w], enabled, firebaseUp)
<1>3. /\ new.token = job[w].token /\ new.batch = job[w].batch
      /\ new.attempts = job[w].attempts /\ new.delivered = job[w].delivered
      /\ new.targeted \subseteq new.attempted
  BY <1>2, ReadJobType
<1>4. \A n \in Notifications : job[w].delivered[n] \subseteq accepted[n]
  BY DEF IInv, LeaseInv, MemoryFits
<1>5. /\ pc[w] \in {"claimed", "sending"} /\ pc' = [pc EXCEPT ![w] = "sending"]
      /\ UNCHANGED rows /\ accepted' = accepted
  BY DEF ReadDevices
<1> HIDE DEF new
<1>6. job' = [job EXCEPT ![w] = new]
  BY <1>1 DEF new
<1> QED
  BY <1>3, <1>4, <1>5, <1>6, JobMovesOn

LEMMA SendKeepsLeaseInv ==
  ASSUME IInv, NEW w \in Workers, SendChunk(w)
  PROVE  LeaseInv'
<1>1. PICK chunk \in SUBSET job[w].todo : \E answer \in [chunk -> Answers] :
        /\ job' = [job EXCEPT ![w] = AnsweredJob(job[w], chunk, answer)]
        /\ accepted' = [n \in Notifications |->
                          accepted[n] \cup Got(n, chunk, answer, {"delivered", "unanswered"})]
  BY DEF SendChunk, NextChunk
<1>2. PICK answer \in [chunk -> Answers] :
        /\ job' = [job EXCEPT ![w] = AnsweredJob(job[w], chunk, answer)]
        /\ accepted' = [n \in Notifications |->
                          accepted[n] \cup Got(n, chunk, answer, {"delivered", "unanswered"})]
  BY <1>1
<1>3. job[w] \in Job
  BY DEF IInv, TypeOK
<1> DEFINE new == AnsweredJob(job[w], chunk, answer)
<1>4. /\ new.token = job[w].token /\ new.batch = job[w].batch
      /\ new.attempts = job[w].attempts
      /\ new.attempted = job[w].attempted /\ new.targeted = job[w].targeted
      /\ \A n \in Notifications :
            new.delivered[n] = job[w].delivered[n] \cup Got(n, chunk, answer, {"delivered"})
  BY <1>3, AnsweredJobType
<1>5. \A n \in Notifications :
        Got(n, chunk, answer, {"delivered"}) \subseteq Got(n, chunk, answer, {"delivered", "unanswered"})
  BY DEF Got, Answered
<1>6. /\ \A n \in Notifications : job[w].delivered[n] \subseteq accepted[n]
      /\ job[w].targeted \subseteq job[w].attempted
  BY DEF IInv, LeaseInv, MemoryFits
<1>7. /\ pc[w] = "sending" /\ pc' = pc /\ UNCHANGED rows
  BY DEF SendChunk
<1>8. pc' = [pc EXCEPT ![w] = "sending"]
  BY <1>7 DEF IInv, TypeOK
<1> HIDE DEF new
<1>9. job' = [job EXCEPT ![w] = new]
  BY <1>2 DEF new
<1>10. \A n \in Notifications : /\ job[w].delivered[n] \subseteq new.delivered[n]
                                /\ new.delivered[n] \subseteq accepted'[n]
                                /\ accepted[n] \subseteq accepted'[n]
  BY <1>2, <1>4, <1>5, <1>6
<1> QED
  BY <1>4, <1>6, <1>7, <1>8, <1>9, <1>10, JobMovesOn

LEMMA DisableKeepsLeaseInv ==
  ASSUME IInv, NEW w \in Workers, DisableDeadDevices(w)
  PROVE  LeaseInv'
<1>1. job[w] \in Job
  BY DEF IInv, TypeOK
<1> DEFINE new == [job[w] EXCEPT !.dead = {}]
<1>2. /\ new.token = job[w].token /\ new.batch = job[w].batch
      /\ new.attempts = job[w].attempts /\ new.delivered = job[w].delivered
      /\ new.attempted = job[w].attempted /\ new.targeted = job[w].targeted
  BY <1>1 DEF Job
<1>3. job' = [job EXCEPT ![w] = new]
  BY DEF DisableDeadDevices, IInv, TypeOK
<1>4. pc[w] = "sending" /\ pc' = pc /\ UNCHANGED rows /\ accepted' = accepted
  BY DEF DisableDeadDevices
<1>5. pc' = [pc EXCEPT ![w] = "sending"]
  BY <1>4 DEF IInv, TypeOK
<1>6. /\ \A n \in Notifications : job[w].delivered[n] \subseteq accepted[n]
      /\ job[w].targeted \subseteq job[w].attempted
  BY DEF IInv, LeaseInv, MemoryFits
<1> HIDE DEF new
<1> QED
  BY <1>2, <1>3, <1>4, <1>5, <1>6, JobMovesOn

\* What record_results writes, row by row, when the invariant holds: a stored
\* row was pending with the attempts the worker claimed it with.
LEMMA RecordedRows ==
  ASSUME IInv, NEW w \in Workers, RecordResults(w), NEW n \in Notifications
  PROVE  LET j == job[w]
             stored == n \in j.batch /\ StillHeld(j, n)
         IN /\ stored => /\ status[n] = "pending" /\ lease[n] = j.token
                         /\ j.attempts[n] = attempts[n] /\ attempts[n] < MaxAttempts
                         /\ delivered[n] \subseteq j.delivered[n]
                         /\ j.delivered[n] \subseteq accepted[n]
                         /\ status'[n] = NewStatus(j, n)
                         /\ attempts'[n] = NewAttempts(j, n)
                         /\ delivered'[n] = j.delivered[n]
                         /\ due'[n] = IF NewStatus(j, n) = "pending" THEN "waiting" ELSE "none"
                         /\ lock'[n] = "free" /\ lease'[n] = NoToken
            /\ ~stored => /\ status'[n] = status[n] /\ attempts'[n] = attempts[n]
                          /\ delivered'[n] = delivered[n] /\ due'[n] = due[n]
                          /\ lock'[n] = lock[n] /\ lease'[n] = lease[n]
<1> DEFINE j == job[w]
           stored == n \in j.batch /\ StillHeld(j, n)
<1>1. ASSUME stored
      PROVE  /\ status[n] = "pending" /\ lease[n] = j.token
             /\ j.attempts[n] = attempts[n] /\ attempts[n] < MaxAttempts
             /\ delivered[n] \subseteq j.delivered[n]
             /\ j.delivered[n] \subseteq accepted[n]
  BY <1>1 DEF StillHeld, IInv, LeaseInv, HolderIsCurrent, PendingCanProceed, MemoryFits
<1>2. stored => /\ status'[n] = NewStatus(j, n)
                /\ attempts'[n] = NewAttempts(j, n)
                /\ delivered'[n] = j.delivered[n]
                /\ due'[n] = IF NewStatus(j, n) = "pending" THEN "waiting" ELSE "none"
                /\ lock'[n] = "free" /\ lease'[n] = NoToken
  BY DEF RecordResults
<1>3. ~stored => /\ status'[n] = status[n] /\ attempts'[n] = attempts[n]
                 /\ delivered'[n] = delivered[n] /\ due'[n] = due[n]
                 /\ lock'[n] = lock[n] /\ lease'[n] = lease[n]
  BY DEF RecordResults
<1> QED
  BY <1>1, <1>2, <1>3

\* The outcomes of _result_for in the terms the rows' invariants need.
LEMMA ResultFor ==
  ASSUME IInv, NEW w \in Workers, NEW n \in Notifications,
         job[w].attempts[n] < MaxAttempts
  PROVE  LET j == job[w]
         IN /\ NewStatus(j, n) \in {"pending", "sent", "failed", "skipped"}
            /\ NewAttempts(j, n) \in {j.attempts[n], j.attempts[n] + 1}
            /\ NewAttempts(j, n) <= MaxAttempts
            /\ NewStatus(j, n) = "pending" =>
                  NewAttempts(j, n) = j.attempts[n] + 1 /\ NewAttempts(j, n) < MaxAttempts
            /\ NewStatus(j, n) = "sent" => j.delivered[n] # {}
            /\ NewStatus(j, n) = "failed" =>
                  /\ NewAttempts(j, n) = j.attempts[n] + 1
                  /\ j.delivered[n] = {} \/ NewAttempts(j, n) = MaxAttempts
            /\ NewStatus(j, n) = "skipped" => NewAttempts(j, n) = j.attempts[n]
<1> DEFINE j == job[w]
<1>0. j \in Job /\ j.attempts[n] \in Nat /\ MaxAttempts \in Nat /\ j.targeted \subseteq j.attempted
  BY OutboxAssumption DEF IInv, TypeOK, LeaseInv, MemoryFits, Job
<1>1. CASE n \notin j.attempted
  <2>1. NewStatus(j, n) = "skipped"
    BY <1>1, NewStatusCases
  <2>2. NewAttempts(j, n) = j.attempts[n]
    BY <1>0, <1>1 DEF NewAttempts
  <2> QED
    BY <1>0, <2>1, <2>2
<1>2. CASE n \in j.attempted \ j.targeted
  <2>1. NewStatus(j, n) = IF j.delivered[n] = {} THEN "skipped" ELSE "sent"
    BY <1>2, NewStatusCases
  <2>2. NewAttempts(j, n) = j.attempts[n]
    BY <1>2 DEF NewAttempts
  <2> QED
    BY <1>0, <2>1, <2>2
<1>3. CASE n \in j.attempted \cap j.targeted \cap j.transient
  <2>1. NewStatus(j, n) = IF NewAttempts(j, n) >= MaxAttempts THEN "failed" ELSE "pending"
    BY <1>3, NewStatusCases
  <2>2. NewAttempts(j, n) = j.attempts[n] + 1
    BY <1>3 DEF NewAttempts
  <2> QED
    BY <1>0, <2>1, <2>2
<1>4. CASE n \in (j.attempted \cap j.targeted) \ j.transient
  <2>1. NewStatus(j, n) = IF j.delivered[n] = {} THEN "failed" ELSE "sent"
    BY <1>4, NewStatusCases
  <2>2. NewAttempts(j, n) = j.attempts[n] + 1
    BY <1>4 DEF NewAttempts
  <2> QED
    BY <1>0, <2>1, <2>2
<1> QED
  BY <1>1, <1>2, <1>3, <1>4

\* record_results: only rows the worker still holds are written, so no other
\* holder's copy becomes outdated.
LEMMA RecordKeepsLeaseInv ==
  ASSUME IInv, NEW w \in Workers, RecordResults(w)
  PROVE  LeaseInv'
<1> DEFINE j == job[w]
           stored == {n \in j.batch : StillHeld(j, n)}
<1>1. /\ job'[w] = NoJob /\ pc'[w] = "idle"
      /\ \A v \in Workers \ {w} : job'[v] = job[v] /\ pc'[v] = pc[v]
      /\ accepted' = accepted
  BY DEF RecordResults, IInv, TypeOK
<1>2. /\ NoJob.batch = {} /\ NoJob.token = NoToken /\ NoJob.targeted = {}
      /\ \A n \in Notifications : NoJob.delivered[n] = {}
  BY DEF NoJob
<1>3. HolderIsCurrent'
  <2> SUFFICES ASSUME NEW v \in Workers, NEW n \in job'[v].batch, lease'[n] = job'[v].token
               PROVE  /\ status'[n] = "pending" /\ lock'[n] # "free"
                      /\ job'[v].attempts[n] = attempts'[n]
                      /\ delivered'[n] \subseteq job'[v].delivered[n]
    BY DEF HolderIsCurrent
  <2>1. v # w
    BY <1>1, <1>2
  <2>2. job'[v] = job[v] /\ n \in job[v].batch /\ job[v].token # NoToken
    BY <2>1, <1>1 DEF IInv, LeaseInv, MemoryFits
  <2>3. n \in Notifications
    BY <2>2 DEF IInv, TypeOK, Job
  <2>4. ~(n \in job[w].batch /\ StillHeld(job[w], n))
    BY <2>2, <2>3, RecordedRows
  <2>5. /\ status'[n] = status[n] /\ attempts'[n] = attempts[n]
        /\ delivered'[n] = delivered[n] /\ lock'[n] = lock[n] /\ lease'[n] = lease[n]
    BY <2>3, <2>4, RecordedRows
  <2> QED
    BY <2>2, <2>5 DEF IInv, LeaseInv, HolderIsCurrent
<1>4. TokensAreExclusive'
  BY <1>1, <1>2 DEF IInv, LeaseInv, TokensAreExclusive
<1>5. PendingCanProceed' /\ SentWasAccepted' /\ RowsFit'
  <2> SUFFICES ASSUME NEW n \in Notifications
               PROVE  /\ status'[n] = "pending" => due'[n] # "none" /\ attempts'[n] < MaxAttempts
                      /\ (lock'[n] = "free") <=> (lease'[n] = NoToken)
                      /\ status'[n] # "pending" => lock'[n] = "free"
                      /\ delivered'[n] \subseteq accepted'[n]
                      /\ status'[n] = "sent" => delivered'[n] # {}
                      /\ status'[n] \in {"absent", "validated"} =>
                            attempts'[n] = 0 /\ delivered'[n] = {}
                      /\ attempts'[n] <= MaxAttempts
    BY DEF PendingCanProceed, SentWasAccepted, RowsFit
  <2>1. CASE n \in job[w].batch /\ StillHeld(job[w], n)
    <3>1. /\ job[w].attempts[n] < MaxAttempts
          /\ job[w].delivered[n] \subseteq accepted[n]
          /\ status'[n] = NewStatus(job[w], n)
          /\ attempts'[n] = NewAttempts(job[w], n)
          /\ delivered'[n] = job[w].delivered[n]
          /\ due'[n] = IF NewStatus(job[w], n) = "pending" THEN "waiting" ELSE "none"
          /\ lock'[n] = "free" /\ lease'[n] = NoToken
      BY <2>1, RecordedRows
    <3>2. /\ NewStatus(job[w], n) \in {"pending", "sent", "failed", "skipped"}
          /\ NewAttempts(job[w], n) <= MaxAttempts
          /\ NewStatus(job[w], n) = "pending" => NewAttempts(job[w], n) < MaxAttempts
          /\ NewStatus(job[w], n) = "sent" => job[w].delivered[n] # {}
      BY <3>1, ResultFor
    <3> QED
      BY <1>1, <3>1, <3>2
  <2>2. CASE ~(n \in job[w].batch /\ StillHeld(job[w], n))
    <3>1. /\ status'[n] = status[n] /\ attempts'[n] = attempts[n]
          /\ delivered'[n] = delivered[n] /\ due'[n] = due[n]
          /\ lock'[n] = lock[n] /\ lease'[n] = lease[n]
      BY <2>2, RecordedRows
    <3> QED
      BY <1>1, <3>1 DEF IInv, LeaseInv, PendingCanProceed, SentWasAccepted, RowsFit
  <2> QED
    BY <2>1, <2>2
<1>6. MemoryFits'
  BY <1>1, <1>2 DEF IInv, LeaseInv, MemoryFits
<1> QED
  BY <1>3, <1>4, <1>5, <1>6 DEF LeaseInv

\* Storing a row, and an account deletion that takes rows away.
LEMMA RequestKeepsLeaseInv ==
  ASSUME IInv, NEW n \in Notifications, ValidateNotification(n) \/ InsertNotification(n)
  PROVE  LeaseInv'
<1>1. /\ status[n] \in {"absent", "validated"} /\ status'[n] # "sent"
      /\ \A m \in Notifications \ {n} : status'[m] = status[m] /\ due'[m] = due[m]
      /\ status'[n] = "pending" => due'[n] = "due"
      /\ status'[n] \in {"validated", "pending", "skipped"}
      /\ UNCHANGED <<attempts, lock, lease, delivered, pc, job, accepted>>
  BY OutboxAssumption
  DEF ValidateNotification, InsertNotification, InitialStatus, IInv, TypeOK
<1>2. lock[n] = "free" /\ lease[n] = NoToken /\ attempts[n] = 0 /\ 0 < MaxAttempts
  BY <1>1, OutboxAssumption DEF IInv, LeaseInv, PendingCanProceed, RowsFit
<1>3. HolderIsCurrent'
  <2> SUFFICES ASSUME NEW v \in Workers, NEW m \in job[v].batch, lease[m] = job[v].token
               PROVE  /\ status'[m] = "pending" /\ lock[m] # "free"
                      /\ job[v].attempts[m] = attempts[m]
                      /\ delivered[m] \subseteq job[v].delivered[m]
    BY <1>1 DEF HolderIsCurrent
  <2>1. m \in Notifications /\ job[v].token # NoToken
    BY DEF IInv, TypeOK, Job, LeaseInv, MemoryFits
  <2>2. m # n /\ status'[m] = status[m]
    BY <1>1, <1>2, <2>1
  <2> QED
    BY <2>2 DEF IInv, LeaseInv, HolderIsCurrent
<1>4. TokensAreExclusive' /\ MemoryFits'
  BY <1>1 DEF IInv, LeaseInv, TokensAreExclusive, MemoryFits
<1>5. PendingCanProceed' /\ SentWasAccepted'
  BY <1>1, <1>2 DEF IInv, LeaseInv, PendingCanProceed, SentWasAccepted
<1>6. RowsFit'
  BY <1>1, <1>2 DEF IInv, LeaseInv, RowsFit
<1> QED
  BY <1>3, <1>4, <1>5, <1>6 DEF LeaseInv

LEMMA DeleteKeepsLeaseInv ==
  ASSUME IInv, NEW g \in Guardians, DeleteGuardian(g)
  PROVE  LeaseInv'
<1>1. \A n \in Notifications :
        \/ /\ status'[n] = "deleted" /\ lock'[n] = "free" /\ lease'[n] = NoToken
        \/ /\ status'[n] = status[n] /\ lock'[n] = lock[n] /\ lease'[n] = lease[n]
           /\ due'[n] = due[n]
  BY DEF DeleteGuardian
<1>2. UNCHANGED <<attempts, delivered, pc, job, accepted>>
  BY DEF DeleteGuardian
<1>3. HolderIsCurrent'
  <2> SUFFICES ASSUME NEW v \in Workers, NEW n \in job[v].batch, lease'[n] = job[v].token
               PROVE  /\ status'[n] = "pending" /\ lock'[n] # "free"
                      /\ job[v].attempts[n] = attempts[n]
                      /\ delivered[n] \subseteq job[v].delivered[n]
    BY <1>2 DEF HolderIsCurrent
  <2>1. n \in Notifications /\ job[v].token # NoToken
    BY DEF IInv, TypeOK, Job, LeaseInv, MemoryFits
  <2>2. status'[n] = status[n] /\ lock'[n] = lock[n] /\ lease'[n] = lease[n]
    BY <1>1, <2>1
  <2> QED
    BY <2>2 DEF IInv, LeaseInv, HolderIsCurrent
<1>4. TokensAreExclusive' /\ MemoryFits'
  BY <1>2 DEF IInv, LeaseInv, TokensAreExclusive, MemoryFits
<1>5. PendingCanProceed'
  BY <1>1, <1>2 DEF IInv, LeaseInv, PendingCanProceed
<1>6. SentWasAccepted' /\ RowsFit'
  BY <1>1, <1>2 DEF IInv, LeaseInv, SentWasAccepted, RowsFit
<1> QED
  BY <1>3, <1>4, <1>5, <1>6 DEF LeaseInv

\* A lease that passes its end still has its token.
LEMMA LapseKeepsLeaseInv ==
  ASSUME IInv, NEW n \in Notifications, LeaseLapses(n)
  PROVE  LeaseInv'
<1>1. /\ lock[n] = "held" /\ lock'[n] = "lapsed"
      /\ \A m \in Notifications \ {n} : lock'[m] = lock[m]
      /\ UNCHANGED <<status, attempts, due, lease, delivered, pc, job, accepted>>
  BY DEF LeaseLapses, IInv, TypeOK
<1>2. HolderIsCurrent'
  <2> SUFFICES ASSUME NEW v \in Workers, NEW m \in job[v].batch, lease[m] = job[v].token
               PROVE  /\ status[m] = "pending" /\ lock'[m] # "free"
                      /\ job[v].attempts[m] = attempts[m]
                      /\ delivered[m] \subseteq job[v].delivered[m]
    BY <1>1 DEF HolderIsCurrent
  <2>1. m \in Notifications
    BY DEF IInv, TypeOK, Job
  <2> QED
    BY <2>1, <1>1 DEF IInv, LeaseInv, HolderIsCurrent
<1>3. TokensAreExclusive' /\ MemoryFits' /\ SentWasAccepted' /\ RowsFit'
  BY <1>1 DEF IInv, LeaseInv, TokensAreExclusive, MemoryFits, SentWasAccepted, RowsFit
<1>4. PendingCanProceed'
  BY <1>1 DEF IInv, LeaseInv, PendingCanProceed
<1> QED
  BY <1>2, <1>3, <1>4 DEF LeaseInv

LEMMA LeaseStep ==
  ASSUME IInv, [Next]_vars
  PROVE  LeaseInv'
<1>1. ASSUME NEW n \in Notifications, ValidateNotification(n) \/ InsertNotification(n)
      PROVE LeaseInv'
  BY <1>1, RequestKeepsLeaseInv
<1>2. ASSUME NEW g \in Guardians, SetAccountActive(g) \/ ResetPassword(g) \/ ChangePassword(g)
      PROVE LeaseInv'
  BY <1>2, LeaseFrame DEF SetAccountActive, ResetPassword, ChangePassword, rows
<1>3. ASSUME NEW g \in Guardians, DeleteGuardian(g) PROVE LeaseInv'
  BY <1>3, DeleteKeepsLeaseInv
<1>4. ASSUME NEW d \in Devices, UnregisterDevice(d) \/ \E g \in Guardians : RegisterDevice(d, g)
      PROVE LeaseInv'
  BY <1>4, LeaseFrame DEF UnregisterDevice, RegisterDevice, rows
<1>5. ASSUME NEW w \in Workers, ClaimBatch(w) PROVE LeaseInv'
  BY <1>5, ClaimKeepsLeaseInv
<1>6. ASSUME NEW w \in Workers, ReadDevices(w) PROVE LeaseInv'
  BY <1>6, ReadKeepsLeaseInv
<1>7. ASSUME NEW w \in Workers, SendChunk(w) PROVE LeaseInv'
  BY <1>7, SendKeepsLeaseInv
<1>8. ASSUME NEW w \in Workers, DisableDeadDevices(w) PROVE LeaseInv'
  BY <1>8, DisableKeepsLeaseInv
<1>9. ASSUME NEW w \in Workers, RecordResults(w) PROVE LeaseInv'
  BY <1>9, RecordKeepsLeaseInv
<1>10. ASSUME NEW w \in Workers, ExitWorker(w) \/ StartWorker(w) \/ Fault(w) PROVE LeaseInv'
  <2>1. TypeOK'
    BY TypeStep DEF IInv
  <2>2. CASE RequestStop(w)
    BY <2>2, LeaseFrame DEF RequestStop, rows
  <2>3. CASE ExitWorker(w) \/ StartWorker(w) \/ BatchFails(w) \/ KillWorker(w)
    <3>1. job' = [job EXCEPT ![w] = NoJob]
      <4>1. CASE ExitWorker(w) \/ StartWorker(w)
        <5>1. job' = job /\ job[w] = NoJob
          BY <4>1 DEF ExitWorker, StartWorker, IInv, LeaseInv, MemoryFits
        <5> QED
          BY <5>1 DEF IInv, TypeOK
      <4>2. CASE BatchFails(w) \/ KillWorker(w)
        BY <4>2 DEF BatchFails, KillWorker
      <4> QED
        BY <2>3, <4>1, <4>2
    <3>2. UNCHANGED <<rows, accepted>>
      BY <2>3 DEF ExitWorker, StartWorker, BatchFails, KillWorker
    <3>3. \A v \in Workers \ {w} : pc'[v] = pc[v]
      BY <2>3 DEF ExitWorker, StartWorker, BatchFails, KillWorker, IInv, TypeOK
    <3>4. pc' \in [Workers -> {"down", "idle", "claimed", "sending"}]
      BY <2>1 DEF TypeOK
    <3> QED
      BY <3>1, <3>2, <3>3, <3>4, DropJob
  <2> QED
    BY <1>10, <2>2, <2>3 DEF Fault
<1>11. ASSUME NEW n \in Notifications, BecomesDue(n) \/ GrowsStale(n) PROVE LeaseInv'
  BY <1>11, LeaseFrame DEF BecomesDue, GrowsStale, IInv, TypeOK
<1>12. ASSUME NEW n \in Notifications, LeaseLapses(n) PROVE LeaseInv'
  BY <1>12, LapseKeepsLeaseInv
<1>13. CASE UNCHANGED vars
  BY <1>13, LeaseFrame DEF vars, rows
<1> QED
  BY <1>1, <1>2, <1>3, <1>4, <1>5, <1>6, <1>7, <1>8, <1>9, <1>10, <1>11, <1>12, <1>13
  DEF Next, Request, World, WorkerStep, Time

\* The inductive invariant holds throughout.
THEOREM LeaseInvariant == Spec => []IInv
<1>1. Init => TypeOK
  BY NoJobIsJob DEF Init, TypeOK
<1>2. Init => LeaseInv
  <2> SUFFICES ASSUME Init PROVE LeaseInv
    OBVIOUS
  <2>1. /\ NoJob.batch = {} /\ NoJob.token = NoToken
        /\ NoJob.targeted = {} /\ NoJob.attempted = {}
        /\ \A n \in Notifications : NoJob.delivered[n] = {}
    BY DEF NoJob
  <2>2. \A w \in Workers : job[w] = NoJob
    BY DEF Init
  <2>3. HolderIsCurrent /\ TokensAreExclusive
    BY <2>1, <2>2 DEF HolderIsCurrent, TokensAreExclusive
  <2>4. MemoryFits
    BY <2>1, <2>2 DEF MemoryFits, Init
  <2>5. PendingCanProceed /\ SentWasAccepted /\ RowsFit
    BY OutboxAssumption DEF Init, PendingCanProceed, SentWasAccepted, RowsFit
  <2> QED
    BY <2>3, <2>4, <2>5 DEF LeaseInv
<1>3. IInv /\ [Next]_vars => IInv'
  BY TypeStep, LeaseStep DEF IInv
<1> QED
  BY <1>1, <1>2, <1>3, PTL DEF Spec, IInv

\* A worker whose token is still on a row works from that row's current values.
THEOREM HolderStaysCurrent == Spec => []HolderIsCurrent
  BY LeaseInvariant, PTL DEF IInv, LeaseInv

\* A pending row can be claimed again and has attempts left.
THEOREM PendingNeverStuck == Spec => []PendingCanProceed
  BY LeaseInvariant, PTL DEF IInv, LeaseInv

\* The database never records a delivery Firebase did not accept.
THEOREM SentIsTrue == Spec => []SentWasAccepted
  BY LeaseInvariant, PTL DEF IInv, LeaseInv
-----------------------------------------------------------------------------
(***************************************************************************)
(* No concurrent resend.  While batches finish within their lease          *)
(* (LateSends FALSE) a claimed row stays under its worker's lease until    *)
(* the worker has recorded it, unless the row is deleted; so batches are   *)
(* disjoint, nobody else records a delivery of their rows, and what a      *)
(* worker is about to send is new to the row as well as to its own copy.   *)
(***************************************************************************)

\* The rows of a batch are leased to it.
BatchHeld(w) ==
    \A n \in job[w].batch : status[n] # "deleted" => lease[n] = job[w].token /\ lock[n] = "held"

\* A worker's copy has every recorded delivery of its batch.
CopiesCover(w) == \A n \in job[w].batch : delivered[n] \subseteq job[w].delivered[n]

\* What is left to send is of the batch and not delivered according to the copy.
TodoIsNew(w) ==
    /\ job[w].eligible \subseteq job[w].batch
    /\ \A p \in job[w].todo : p[1] \in job[w].batch /\ p[2] \notin job[w].delivered[p[1]]

BatchesDisjoint == \A v, w \in Workers : v # w => job[v].batch \cap job[w].batch = {}

ResendInv ==
    /\ \A w \in Workers : BatchHeld(w) /\ CopiesCover(w) /\ TodoIsNew(w)
    /\ BatchesDisjoint

\* What a step may do to a row of a batch that is not its own: delete it.
RowKept(n) ==
    /\ delivered'[n] = delivered[n]
    /\ \/ status'[n] = "deleted"
       \/ status'[n] = status[n] /\ lease'[n] = lease[n] /\ lock'[n] = lock[n]

\* A step of the workers in W, or of nobody, that leaves the batches of the
\* others and, but for deletion, their rows alone.
LEMMA ResendFrame ==
  ASSUME ResendInv, NEW W \in SUBSET Workers,
         \A v \in Workers \ W : job'[v] = job[v] /\ \A n \in job[v].batch : RowKept(n),
         \A w \in W : BatchHeld(w)' /\ CopiesCover(w)' /\ TodoIsNew(w)',
         \A w \in W : \A v \in Workers \ {w} : job'[v].batch \cap job'[w].batch = {}
  PROVE  ResendInv'
<1>1. ASSUME NEW v \in Workers \ W
      PROVE  BatchHeld(v)' /\ CopiesCover(v)' /\ TodoIsNew(v)'
  <2>1. job'[v] = job[v] /\ \A n \in job[v].batch : RowKept(n)
    OBVIOUS
  <2>2. BatchHeld(v) /\ CopiesCover(v) /\ TodoIsNew(v)
    BY DEF ResendInv
  <2> QED
    BY <2>1, <2>2 DEF BatchHeld, CopiesCover, TodoIsNew, RowKept
<1>2. ASSUME NEW v \in Workers, NEW w \in Workers, v # w
      PROVE  job'[v].batch \cap job'[w].batch = {}
  <2>1. CASE v \in W \/ w \in W
    BY <2>1, <1>2
  <2>2. CASE v \notin W /\ w \notin W
    BY <2>2, <1>2 DEF ResendInv, BatchesDisjoint
  <2> QED
    BY <2>1, <2>2
<1> QED
  BY <1>1, <1>2 DEF ResendInv, BatchesDisjoint

\* The same for a step of one worker.
LEMMA ResendFrameOne ==
  ASSUME ResendInv, NEW w \in Workers,
         \A v \in Workers \ {w} : job'[v] = job[v] /\ \A n \in job[v].batch : RowKept(n),
         BatchHeld(w)' /\ CopiesCover(w)' /\ TodoIsNew(w)',
         \A v \in Workers \ {w} : job'[v].batch \cap job'[w].batch = {}
  PROVE  ResendInv'
<1>1. PICK W \in SUBSET Workers : W = {w}
  OBVIOUS
<1>2. \A v \in W : v = w
  BY <1>1
<1>3. \A v \in W : BatchHeld(v)' /\ CopiesCover(v)' /\ TodoIsNew(v)'
  BY <1>2
<1>4. \A v \in Workers \ W : job'[v] = job[v] /\ \A n \in job[v].batch : RowKept(n)
  BY <1>1
<1>5. \A x \in W : \A v \in Workers \ {x} : job'[v].batch \cap job'[x].batch = {}
  BY <1>2
<1> QED
  BY <1>3, <1>4, <1>5, ResendFrame

\* A worker without a batch has nothing to send.
LEMMA ResendDrop ==
  ASSUME IInv, ResendInv, NEW w \in Workers, job' = [job EXCEPT ![w] = NoJob],
         \A v \in Workers \ {w} : \A n \in job[v].batch : RowKept(n)
  PROVE  ResendInv'
<1>1. job'[w] = NoJob /\ \A v \in Workers \ {w} : job'[v] = job[v]
  BY DEF IInv, TypeOK
<1>2. NoJob.batch = {} /\ NoJob.todo = {} /\ NoJob.eligible = {}
  BY DEF NoJob
<1>3. BatchHeld(w)' /\ CopiesCover(w)' /\ TodoIsNew(w)'
  BY <1>1, <1>2 DEF BatchHeld, CopiesCover, TodoIsNew
<1>4. \A v \in Workers \ {w} : job'[v].batch \cap job'[w].batch = {}
  BY <1>1, <1>2
<1> QED
  BY <1>1, <1>3, <1>4, ResendFrameOne

\* A step of one worker on its own memory that keeps its batch.
LEMMA ResendMovesOn ==
  ASSUME IInv, ResendInv, NEW w \in Workers, NEW new, job' = [job EXCEPT ![w] = new],
         new.token = job[w].token, new.batch = job[w].batch, new.eligible = job[w].eligible,
         \A n \in job[w].batch : job[w].delivered[n] \subseteq new.delivered[n],
         \A p \in new.todo : p[1] \in new.batch /\ p[2] \notin new.delivered[p[1]],
         UNCHANGED rows
  PROVE  ResendInv'
<1>1. job'[w] = new /\ \A v \in Workers \ {w} : job'[v] = job[v]
  BY DEF IInv, TypeOK
<1>2. BatchHeld(w) /\ CopiesCover(w) /\ TodoIsNew(w)
  BY DEF ResendInv
<1>3. BatchHeld(w)' /\ CopiesCover(w)' /\ TodoIsNew(w)'
  BY <1>1, <1>2 DEF BatchHeld, CopiesCover, TodoIsNew, rows
<1>4. \A v \in Workers \ {w} : job'[v].batch \cap job'[w].batch = {}
  BY <1>1 DEF ResendInv, BatchesDisjoint
<1>5. \A v \in Workers \ {w} : job'[v] = job[v] /\ \A n \in job[v].batch : RowKept(n)
  BY <1>1 DEF RowKept, rows
<1> QED
  BY <1>3, <1>4, <1>5, ResendFrameOne

\* A claim takes rows of no other batch: those are held, or deleted.
LEMMA ClaimKeepsResendInv ==
  ASSUME IInv, ResendInv, NEW w \in Workers, ClaimBatch(w)
  PROVE  ResendInv'
<1>1. PICK gone \in Oldest(Expirable, ExpireChunk), t \in FreshTokens :
        \E mine \in Oldest(DueNow \ gone, BatchSize) : ClaimEffect(w, gone, mine, t)
  BY DEF ClaimBatch
<1>2. PICK mine \in Oldest(DueNow \ gone, BatchSize) : ClaimEffect(w, gone, mine, t)
  BY <1>1
<1>3. /\ \A n \in gone \cup mine : n \in Notifications /\ status[n] = "pending" /\ lock[n] # "held"
      /\ gone \cap mine = {}
  BY <1>1, <1>2 DEF Oldest, Expirable, DueNow, LeaseFree
<1>4. \A v \in Workers : \A n \in job[v].batch : n \in Notifications /\ n \notin gone \cup mine
  BY <1>3 DEF ResendInv, BatchHeld, IInv, TypeOK, Job
<1>5. UNCHANGED delivered
  BY DEF ClaimBatch
<1>6. \A v \in Workers \ {w} : \A n \in job[v].batch : RowKept(n)
  BY <1>2, <1>4, <1>5 DEF ClaimEffect, RowKept
<1>7. CASE mine = {}
  <2>1. job' = [job EXCEPT ![w] = NoJob]
    BY <1>2, <1>7 DEF ClaimEffect
  <2> QED
    BY <1>6, <2>1, ResendDrop
<1>8. CASE mine # {}
  <2>1. job' = [job EXCEPT ![w] = ClaimedJob(mine, t)]
    BY <1>2, <1>8 DEF ClaimEffect
  <2>2. job'[w] = ClaimedJob(mine, t) /\ \A v \in Workers \ {w} : job'[v] = job[v]
    BY <2>1 DEF IInv, TypeOK
  <2>3. mine \in SUBSET Notifications /\ t \in Tokens /\ TypeOK
    BY <1>1, <1>3 DEF FreshTokens, IInv
  <2>4. /\ ClaimedJob(mine, t).token = t /\ ClaimedJob(mine, t).batch = mine
        /\ \A n \in mine : ClaimedJob(mine, t).delivered[n] = delivered[n]
        /\ ClaimedJob(mine, t).eligible \subseteq mine
        /\ ClaimedJob(mine, t).todo = {}
    BY <2>3, ClaimedJobType DEF ClaimedJob, NoJob
  <2>5. \A n \in mine : lease'[n] = t /\ lock'[n] = "held"
    BY <1>2, <1>3 DEF ClaimEffect
  <2>6. BatchHeld(w)' /\ CopiesCover(w)' /\ TodoIsNew(w)'
    BY <1>5, <2>2, <2>4, <2>5 DEF BatchHeld, CopiesCover, TodoIsNew
  <2>7. \A v \in Workers \ {w} : job'[v].batch \cap job'[w].batch = {}
    BY <1>4, <2>2, <2>4
  <2> QED
    BY <1>6, <2>2, <2>6, <2>7, ResendFrameOne
<1> QED
  BY <1>7, <1>8

\* The devices read for a batch are those its copies do not name yet.
LEMMA ReadKeepsResendInv ==
  ASSUME IInv, ResendInv, NEW w \in Workers, ReadDevices(w)
  PROVE  ResendInv'
<1>1. PICK enabled \in BOOLEAN, firebaseUp \in BOOLEAN :
        job' = [job EXCEPT ![w] = ReadJob(job[w], enabled, firebaseUp)]
  BY OutboxAssumption DEF ReadDevices
<1>2. job[w] \in Job
  BY DEF IInv, TypeOK
<1>3. job[w].eligible \subseteq job[w].batch
  BY DEF ResendInv, TodoIsNew
<1>4. PICK new : new = ReadJob(job[w], enabled, firebaseUp)
  OBVIOUS
<1>5. /\ new.token = job[w].token /\ new.batch = job[w].batch
      /\ new.delivered = job[w].delivered
  BY <1>2, <1>4, ReadJobType
<1>6. /\ new.eligible = job[w].eligible
      /\ new.todo \subseteq Deliveries(job[w], job[w].eligible)
  BY <1>2, <1>4 DEF ReadJob, Job, Deliveries
<1>7. \A p \in new.todo : p[1] \in new.batch /\ p[2] \notin new.delivered[p[1]]
  BY <1>3, <1>5, <1>6 DEF Deliveries
<1>8. job' = [job EXCEPT ![w] = new] /\ UNCHANGED rows
  BY <1>1, <1>4 DEF ReadDevices
<1> QED
  BY <1>5, <1>6, <1>7, <1>8, ResendMovesOn

\* What a chunk delivered is no longer to be sent.
LEMMA SendKeepsResendInv ==
  ASSUME IInv, ResendInv, NEW w \in Workers, SendChunk(w)
  PROVE  ResendInv'
<1>1. PICK chunk \in SUBSET job[w].todo : \E answer \in [chunk -> Answers] :
        job' = [job EXCEPT ![w] = AnsweredJob(job[w], chunk, answer)]
  BY DEF SendChunk, NextChunk
<1>2. PICK answer \in [chunk -> Answers] :
        job' = [job EXCEPT ![w] = AnsweredJob(job[w], chunk, answer)]
  BY <1>1
<1>3. job[w] \in Job
  BY DEF IInv, TypeOK
<1>4. PICK new : new = AnsweredJob(job[w], chunk, answer)
  OBVIOUS
<1>5. /\ new.token = job[w].token /\ new.batch = job[w].batch
      /\ \A n \in Notifications :
            new.delivered[n] = job[w].delivered[n] \cup Got(n, chunk, answer, {"delivered"})
  BY <1>3, <1>4, AnsweredJobType
<1>6. new.eligible = job[w].eligible /\ new.todo = job[w].todo \ chunk
  BY <1>3, <1>4 DEF AnsweredJob, Job
<1>7. job[w].batch \subseteq Notifications
  BY <1>3 DEF Job
<1>8. ASSUME NEW p \in new.todo
      PROVE  p[1] \in new.batch /\ p[2] \notin new.delivered[p[1]]
  <2>1. p \in job[w].todo /\ p \notin chunk
    BY <1>6
  <2>2. p[1] \in job[w].batch /\ p[2] \notin job[w].delivered[p[1]]
    BY <2>1 DEF ResendInv, TodoIsNew
  <2>3. p = <<p[1], p[2]>>
    BY <2>1, <1>3 DEF Job
  <2>4. p[2] \notin Got(p[1], chunk, answer, {"delivered"})
    BY <2>1, <2>3 DEF Got, Answered
  <2> QED
    BY <1>5, <1>7, <2>2, <2>4
<1>9. \A n \in job[w].batch : job[w].delivered[n] \subseteq new.delivered[n]
  BY <1>5, <1>7
<1>10. job' = [job EXCEPT ![w] = new] /\ UNCHANGED rows
  BY <1>2, <1>4 DEF SendChunk
<1> QED
  BY <1>5, <1>6, <1>8, <1>9, <1>10, ResendMovesOn

LEMMA DisableKeepsResendInv ==
  ASSUME IInv, ResendInv, NEW w \in Workers, DisableDeadDevices(w)
  PROVE  ResendInv'
<1>1. job[w] \in Job
  BY DEF IInv, TypeOK
<1>2. PICK new : new = [job[w] EXCEPT !.dead = {}]
  OBVIOUS
<1>3. /\ new.token = job[w].token /\ new.batch = job[w].batch
      /\ new.eligible = job[w].eligible /\ new.delivered = job[w].delivered
      /\ new.todo = job[w].todo
  BY <1>1, <1>2 DEF Job
<1>4. \A p \in new.todo : p[1] \in new.batch /\ p[2] \notin new.delivered[p[1]]
  BY <1>3 DEF ResendInv, TodoIsNew
<1>5. job' = [job EXCEPT ![w] = new] /\ UNCHANGED rows
  BY <1>2 DEF DisableDeadDevices, IInv, TypeOK
<1> QED
  BY <1>3, <1>4, <1>5, ResendMovesOn

\* A worker records only rows of its own batch.
LEMMA RecordKeepsResendInv ==
  ASSUME IInv, ResendInv, NEW w \in Workers, RecordResults(w)
  PROVE  ResendInv'
<1>1. ASSUME NEW v \in Workers \ {w}, NEW n \in job[v].batch
      PROVE  RowKept(n)
  <2>1. n \in Notifications /\ n \notin job[w].batch
    BY DEF ResendInv, BatchesDisjoint, IInv, TypeOK, Job
  <2> QED
    BY <2>1, RecordedRows DEF RowKept
<1>2. job' = [job EXCEPT ![w] = NoJob]
  BY DEF RecordResults
<1> QED
  BY <1>1, <1>2, ResendDrop

\* Steps that touch no batch and, of the rows in batches, only delete some.
LEMMA ResendKept ==
  ASSUME ResendInv, job' = job,
         \A v \in Workers : \A n \in job[v].batch : RowKept(n)
  PROVE  ResendInv'
  BY ResendFrame

LEMMA ResendStep ==
  ASSUME IInv, ~LateSends, ResendInv, [Next]_vars
  PROVE  ResendInv'
<1>0. \A v \in Workers : \A n \in job[v].batch :
        /\ n \in Notifications
        /\ \/ status[n] = "deleted"
           \/ lease[n] = job[v].token /\ lock[n] = "held" /\ status[n] = "pending"
  BY DEF ResendInv, BatchHeld, IInv, TypeOK, Job, LeaseInv, HolderIsCurrent
<1>1. ASSUME NEW n \in Notifications, ValidateNotification(n) \/ InsertNotification(n)
      PROVE ResendInv'
  <2>1. \A v \in Workers : n \notin job[v].batch
    BY <1>0, <1>1 DEF ValidateNotification, InsertNotification
  <2>2. \A v \in Workers : \A m \in job[v].batch : RowKept(m)
    BY <1>0, <1>1, <2>1 DEF ValidateNotification, InsertNotification, RowKept, IInv, TypeOK
  <2> QED
    BY <1>1, <2>2, ResendKept DEF ValidateNotification, InsertNotification
<1>2. ASSUME NEW g \in Guardians, SetAccountActive(g) \/ ResetPassword(g) \/ ChangePassword(g)
      PROVE ResendInv'
  BY <1>2, ResendKept DEF SetAccountActive, ResetPassword, ChangePassword, rows, RowKept
<1>3. ASSUME NEW g \in Guardians, DeleteGuardian(g) PROVE ResendInv'
  <2>1. \A n \in Notifications : RowKept(n)
    BY <1>3 DEF DeleteGuardian, RowKept
  <2> QED
    BY <1>0, <1>3, <2>1, ResendKept DEF DeleteGuardian
<1>4. ASSUME NEW d \in Devices, UnregisterDevice(d) \/ \E g \in Guardians : RegisterDevice(d, g)
      PROVE ResendInv'
  BY <1>4, ResendKept DEF UnregisterDevice, RegisterDevice, rows, RowKept
<1>5. ASSUME NEW w \in Workers, ClaimBatch(w) PROVE ResendInv'
  BY <1>5, ClaimKeepsResendInv
<1>6. ASSUME NEW w \in Workers, ReadDevices(w) PROVE ResendInv'
  BY <1>6, ReadKeepsResendInv
<1>7. ASSUME NEW w \in Workers, SendChunk(w) PROVE ResendInv'
  BY <1>7, SendKeepsResendInv
<1>8. ASSUME NEW w \in Workers, DisableDeadDevices(w) PROVE ResendInv'
  BY <1>8, DisableKeepsResendInv
<1>9. ASSUME NEW w \in Workers, RecordResults(w) PROVE ResendInv'
  BY <1>9, RecordKeepsResendInv
<1>10. ASSUME NEW w \in Workers, ExitWorker(w) \/ StartWorker(w) \/ RequestStop(w)
       PROVE ResendInv'
  BY <1>10, ResendKept DEF ExitWorker, StartWorker, RequestStop, rows, RowKept
<1>11. ASSUME NEW w \in Workers, BatchFails(w) \/ KillWorker(w) PROVE ResendInv'
  BY <1>11, ResendDrop DEF BatchFails, KillWorker, rows, RowKept
<1>12. ASSUME NEW n \in Notifications, BecomesDue(n) \/ GrowsStale(n) PROVE ResendInv'
  BY <1>12, ResendKept DEF BecomesDue, GrowsStale, RowKept
<1>13. ASSUME NEW n \in Notifications, LeaseLapses(n) PROVE ResendInv'
  <2>1. \A w \in Workers : job[w].token # lease[n]
    BY <1>13 DEF LeaseLapses
  <2>2. \A v \in Workers : \A m \in job[v].batch :
          m # n \/ status[m] = "deleted"
    BY <1>0, <2>1
  <2>3. \A v \in Workers : \A m \in job[v].batch : RowKept(m)
    BY <1>0, <1>13, <2>2 DEF LeaseLapses, RowKept, IInv, TypeOK
  <2> QED
    BY <1>13, <2>3, ResendKept DEF LeaseLapses
<1>14. CASE UNCHANGED vars
  BY <1>14, ResendKept DEF vars, rows, RowKept
<1> QED
  BY <1>1, <1>2, <1>3, <1>4, <1>5, <1>6, <1>7, <1>8, <1>9, <1>10, <1>11, <1>12, <1>13, <1>14
  DEF Next, Request, World, WorkerStep, Fault, Time

\* While batches finish within their lease, no device is about to receive a
\* notification it is recorded to have, and no two workers send the same
\* notification, however many workers and rows there are and wherever they
\* are killed.
THEOREM NothingIsResent ==
  ASSUME ~LateSends
  PROVE  Spec => []NoConcurrentResend
<1>1. Init => ResendInv
  <2>1. NoJob.batch = {} /\ NoJob.todo = {} /\ NoJob.eligible = {}
    BY DEF NoJob
  <2> QED
    BY <2>1 DEF Init, ResendInv, BatchHeld, CopiesCover, TodoIsNew, BatchesDisjoint
<1>2. IInv /\ ResendInv /\ [Next]_vars => ResendInv'
  BY ResendStep
<1>3. IInv /\ ResendInv => NoConcurrentResend
  <2> SUFFICES ASSUME IInv, ResendInv PROVE NoConcurrentResend
    OBVIOUS
  <2>1. \A w \in Workers : \A p \in job[w].todo :
          p[1] \in job[w].batch /\ p[2] \notin delivered[p[1]]
    BY DEF ResendInv, TodoIsNew, CopiesCover
  <2> QED
    BY <2>1 DEF NoConcurrentResend, ResendInv, BatchesDisjoint
<1> QED
  BY <1>1, <1>2, <1>3, LeaseInvariant, PTL DEF Spec
-----------------------------------------------------------------------------
(***************************************************************************)
(* The action properties and the refinement of PushPromise follow from     *)
(* the lease invariant: a row is only changed by its holder.               *)
(***************************************************************************)

Phase == [n \in Notifications |-> IF status[n] = "validated" THEN "absent" ELSE status[n]]

\* How one step may change one row: the promise of PushPromise, with the
\* validation of a row as a step of its own.
RowStep(n) ==
    \/ /\ status'[n] = status[n] /\ attempts'[n] = attempts[n] /\ delivered'[n] = delivered[n]
    \/ /\ status[n] = "absent" /\ status'[n] = "validated"
       /\ attempts'[n] = attempts[n] /\ delivered'[n] = delivered[n]
    \/ /\ status[n] = "validated" /\ status'[n] \in {"pending", "skipped"}
       /\ attempts'[n] = attempts[n] /\ delivered'[n] = delivered[n]
    \/ /\ Exists(n) /\ status'[n] = "deleted"
       /\ attempts'[n] = attempts[n] /\ delivered'[n] = delivered[n]
    \/ /\ status[n] = "pending" /\ status'[n] \in {"skipped", "expired"}
       /\ attempts'[n] = attempts[n] /\ delivered'[n] = delivered[n]
    \/ /\ status[n] = "pending" /\ status'[n] = "sent" /\ attempts'[n] = attempts[n]
       /\ delivered'[n] = delivered[n] /\ delivered[n] # {}
    \/ /\ status[n] = "pending" /\ attempts'[n] = attempts[n] + 1
       /\ delivered[n] \subseteq delivered'[n]
       /\ \/ status'[n] = "pending" /\ attempts'[n] < MaxAttempts
          \/ status'[n] = "sent" /\ delivered'[n] # {}
          \/ status'[n] = "failed" /\ (delivered'[n] = {} \/ attempts'[n] = MaxAttempts)

\* A row no device was contacted for in this attempt has, in its holder's
\* memory, exactly the deliveries that are recorded.
CopiesAreExact ==
    \A w \in Workers :
        /\ pc[w] = "claimed" => job[w].targeted = {}
        /\ \A p \in job[w].todo : p[1] \in job[w].targeted
        /\ \A n \in job[w].batch \ job[w].targeted :
              lease[n] = job[w].token => job[w].delivered[n] = delivered[n]

\* It is enough that no worker's job changed and that rows still held kept
\* their recorded deliveries.
LEMMA CopiesFrame ==
  ASSUME IInv, CopiesAreExact, NEW w \in Workers,
         \A v \in Workers \ {w} : job'[v] = job[v] /\ pc'[v] = pc[v],
         \A v \in Workers \ {w} : \A n \in job[v].batch :
            lease'[n] = job[v].token => lease[n] = lease'[n] /\ delivered'[n] = delivered[n],
         pc'[w] = "claimed" => job'[w].targeted = {},
         \A p \in job'[w].todo : p[1] \in job'[w].targeted,
         \A n \in job'[w].batch \ job'[w].targeted :
            lease'[n] = job'[w].token => job'[w].delivered[n] = delivered'[n]
  PROVE  CopiesAreExact'
<1> SUFFICES ASSUME NEW v \in Workers
             PROVE  /\ pc'[v] = "claimed" => job'[v].targeted = {}
                    /\ \A p \in job'[v].todo : p[1] \in job'[v].targeted
                    /\ \A n \in job'[v].batch \ job'[v].targeted :
                          lease'[n] = job'[v].token => job'[v].delivered[n] = delivered'[n]
  BY DEF CopiesAreExact
<1>1. CASE v = w
  BY <1>1
<1>2. CASE v # w
  <2>1. job'[v] = job[v] /\ pc'[v] = pc[v]
    BY <1>2
  <2>2. ASSUME NEW n \in job'[v].batch \ job'[v].targeted, lease'[n] = job'[v].token
        PROVE job'[v].delivered[n] = delivered'[n]
    BY <1>2, <2>1, <2>2 DEF CopiesAreExact
  <2> QED
    BY <2>1, <2>2 DEF CopiesAreExact
<1> QED
  BY <1>1, <1>2

LEMMA CopiesStep ==
  ASSUME IInv, CopiesAreExact, [Next]_vars
  PROVE  CopiesAreExact'
<1>0. /\ NoJob.batch = {} /\ NoJob.targeted = {} /\ NoJob.todo = {}
  BY DEF NoJob
<1>1. ASSUME UNCHANGED <<pc, job, lease, delivered>> PROVE CopiesAreExact'
  BY <1>1 DEF CopiesAreExact
<1>2. ASSUME NEW g \in Guardians, DeleteGuardian(g) PROVE CopiesAreExact'
  <2>1. UNCHANGED <<pc, job, delivered>>
    BY <1>2 DEF DeleteGuardian
  <2>2. ASSUME NEW v \in Workers, NEW n \in job[v].batch, lease'[n] = job[v].token
        PROVE lease[n] = lease'[n]
    <3>1. n \in Notifications /\ job[v].token # NoToken
      BY DEF IInv, TypeOK, Job, LeaseInv, MemoryFits
    <3> QED
      BY <3>1, <2>2, <1>2 DEF DeleteGuardian
  <2> QED
    BY <2>1, <2>2 DEF CopiesAreExact
<1>3. ASSUME NEW w \in Workers, ClaimBatch(w) PROVE CopiesAreExact'
  <2>1. PICK gone \in SUBSET Notifications, mine \in SUBSET Notifications, t \in FreshTokens :
          ClaimEffect(w, gone, mine, t)
    BY <1>3 DEF ClaimBatch, Oldest, Expirable, DueNow
  <2>2. /\ \A v \in Workers \ {w} : job'[v] = job[v] /\ pc'[v] = pc[v]
        /\ job'[w] = IF mine = {} THEN NoJob ELSE ClaimedJob(mine, t)
        /\ delivered' = delivered
    BY <1>3, <2>1 DEF ClaimEffect, ClaimBatch, IInv, TypeOK
  <2>3. /\ ClaimedJob(mine, t).targeted = {} /\ ClaimedJob(mine, t).todo = {}
        /\ ClaimedJob(mine, t).batch = mine
        /\ \A n \in mine : ClaimedJob(mine, t).delivered[n] = delivered[n]
    BY DEF ClaimedJob, NoJob
  <2>4. ASSUME NEW v \in Workers \ {w}, NEW n \in job[v].batch, lease'[n] = job[v].token
        PROVE lease[n] = lease'[n]
    <3>1. n \in Notifications /\ job[v].token # NoToken /\ job[v].token # t
      BY DEF IInv, TypeOK, Job, LeaseInv, MemoryFits, FreshTokens
    <3> QED
      BY <3>1, <2>1, <2>4 DEF ClaimEffect
  <2>5. /\ job'[w].targeted = {} /\ job'[w].todo = {}
        /\ \A n \in job'[w].batch : job'[w].delivered[n] = delivered[n]
    BY <2>2, <2>3, <1>0
  <2> QED
    BY <2>2, <2>4, <2>5, CopiesFrame
<1>4. ASSUME NEW w \in Workers, ReadDevices(w) PROVE CopiesAreExact'
  <2>1. PICK enabled \in BOOLEAN, firebaseUp \in BOOLEAN :
          job' = [job EXCEPT ![w] = ReadJob(job[w], enabled, firebaseUp)]
    BY <1>4, OutboxAssumption DEF ReadDevices
  <2>2. job[w] \in Job
    BY DEF IInv, TypeOK
  <2>3. /\ job'[w].token = job[w].token /\ job'[w].batch = job[w].batch
        /\ job'[w].delivered = job[w].delivered
        /\ \A p \in job'[w].todo : p[1] \in job'[w].targeted
    <3>1. job'[w] = ReadJob(job[w], enabled, firebaseUp)
      BY <2>1 DEF IInv, TypeOK
    <3> QED
      BY <3>1, <2>2, ReadJobType
  <2>4. /\ pc'[w] = "sending" /\ lease' = lease /\ delivered' = delivered
        /\ \A v \in Workers \ {w} : job'[v] = job[v] /\ pc'[v] = pc[v]
    BY <1>4, <2>1 DEF ReadDevices, rows, IInv, TypeOK
  <2>5. job[w].targeted = {}
    BY <1>4 DEF ReadDevices, CopiesAreExact
  <2>6. \A n \in job'[w].batch \ job'[w].targeted :
          lease'[n] = job'[w].token => job'[w].delivered[n] = delivered'[n]
    BY <2>3, <2>4, <2>5 DEF CopiesAreExact
  <2> QED
    BY <2>3, <2>4, <2>6, CopiesFrame
<1>5. ASSUME NEW w \in Workers, SendChunk(w) PROVE CopiesAreExact'
  <2>1. PICK chunk \in SUBSET job[w].todo : \E answer \in [chunk -> Answers] :
          job' = [job EXCEPT ![w] = AnsweredJob(job[w], chunk, answer)]
    BY <1>5 DEF SendChunk, NextChunk
  <2>2. PICK answer \in [chunk -> Answers] :
          job' = [job EXCEPT ![w] = AnsweredJob(job[w], chunk, answer)]
    BY <2>1
  <2>3. job[w] \in Job
    BY DEF IInv, TypeOK
  <2>4. /\ job'[w].token = job[w].token /\ job'[w].batch = job[w].batch
        /\ job'[w].targeted = job[w].targeted /\ job'[w].todo \subseteq job[w].todo
        /\ \A n \in Notifications :
              job'[w].delivered[n] = job[w].delivered[n] \cup Got(n, chunk, answer, {"delivered"})
    <3>1. job'[w] = AnsweredJob(job[w], chunk, answer)
      BY <2>2 DEF IInv, TypeOK
    <3> QED
      BY <3>1, <2>3, AnsweredJobType
  <2>5. /\ pc' = pc /\ lease' = lease /\ delivered' = delivered
        /\ \A v \in Workers \ {w} : job'[v] = job[v] /\ pc'[v] = pc[v]
        /\ pc[w] = "sending"
    BY <1>5, <2>2 DEF SendChunk, rows, IInv, TypeOK
  <2>6. ASSUME NEW n \in job'[w].batch \ job'[w].targeted, lease'[n] = job'[w].token
        PROVE job'[w].delivered[n] = delivered'[n]
    <3>1. n \in Notifications /\ job[w].delivered[n] = delivered[n]
      BY <2>3, <2>4, <2>5, <2>6 DEF CopiesAreExact, Job
    <3>2. \A d \in Devices : <<n, d>> \notin chunk
      <4> SUFFICES ASSUME NEW d \in Devices, <<n, d>> \in job[w].todo PROVE FALSE
        BY <2>1
      <4>1. <<n, d>>[1] \in job[w].targeted
        BY DEF CopiesAreExact
      <4> QED
        BY <4>1, <2>4
    <3>3. Got(n, chunk, answer, {"delivered"}) = {}
      BY <3>2 DEF Got, Answered
    <3> QED
      BY <3>1, <3>3, <2>4, <2>5
  <2>7. \A p \in job'[w].todo : p[1] \in job'[w].targeted
    BY <2>4 DEF CopiesAreExact
  <2> QED
    BY <2>5, <2>6, <2>7, CopiesFrame
<1>6. ASSUME NEW w \in Workers, DisableDeadDevices(w) PROVE CopiesAreExact'
  <2>1. job[w] \in Job
    BY DEF IInv, TypeOK
  <2>2. job' = [job EXCEPT ![w] = [job[w] EXCEPT !.dead = {}]]
    BY <1>6 DEF DisableDeadDevices, IInv, TypeOK
  <2>3. \A v \in Workers : /\ job'[v].token = job[v].token /\ job'[v].batch = job[v].batch
                           /\ job'[v].delivered = job[v].delivered
                           /\ job'[v].targeted = job[v].targeted /\ job'[v].todo = job[v].todo
    BY <2>1, <2>2 DEF IInv, TypeOK, Job
  <2>4. pc' = pc /\ lease' = lease /\ delivered' = delivered
    BY <1>6 DEF DisableDeadDevices, rows
  <2> QED
    BY <2>3, <2>4 DEF CopiesAreExact
<1>7. ASSUME NEW w \in Workers, RecordResults(w) PROVE CopiesAreExact'
  <2>1. /\ job'[w] = NoJob /\ pc'[w] = "idle"
        /\ \A v \in Workers \ {w} : job'[v] = job[v] /\ pc'[v] = pc[v]
    BY <1>7 DEF RecordResults, IInv, TypeOK
  <2>2. ASSUME NEW v \in Workers \ {w}, NEW n \in job[v].batch, lease'[n] = job[v].token
        PROVE lease[n] = lease'[n] /\ delivered'[n] = delivered[n]
    <3>1. n \in Notifications /\ job[v].token # NoToken
      BY DEF IInv, TypeOK, Job, LeaseInv, MemoryFits
    <3>2. ~(n \in job[w].batch /\ StillHeld(job[w], n))
      BY <1>7, <2>2, <3>1, RecordedRows
    <3> QED
      BY <1>7, <3>1, <3>2, RecordedRows
  <2> QED
    BY <2>1, <2>2, <1>0, CopiesFrame
<1>8. ASSUME NEW w \in Workers, BatchFails(w) \/ KillWorker(w) PROVE CopiesAreExact'
  <2>1. /\ job'[w] = NoJob /\ lease' = lease /\ delivered' = delivered
        /\ \A v \in Workers \ {w} : job'[v] = job[v] /\ pc'[v] = pc[v]
    BY <1>8 DEF BatchFails, KillWorker, rows, IInv, TypeOK
  <2> QED
    BY <2>1, <1>0, CopiesFrame
<1>9. ASSUME NEW w \in Workers, ExitWorker(w) \/ StartWorker(w) PROVE CopiesAreExact'
  <2>1. /\ pc'[w] # "claimed" /\ job' = job /\ lease' = lease /\ delivered' = delivered
        /\ \A v \in Workers \ {w} : pc'[v] = pc[v]
    BY <1>9 DEF ExitWorker, StartWorker, rows, IInv, TypeOK
  <2> QED
    BY <2>1 DEF CopiesAreExact
<1> QED
  BY <1>1, <1>2, <1>3, <1>4, <1>5, <1>6, <1>7, <1>8, <1>9
  DEF Next, Request, World, WorkerStep, Fault, Time, vars, rows,
      ValidateNotification, InsertNotification, SetAccountActive, ResetPassword, ChangePassword,
      UnregisterDevice, RegisterDevice, RequestStop, BecomesDue, LeaseLapses, GrowsStale

\* The copies of untouched rows stay exact.
THEOREM CopiesInvariant == Spec => []CopiesAreExact
<1>1. Init => CopiesAreExact
  BY DEF Init, CopiesAreExact, NoJob
<1>2. IInv /\ CopiesAreExact /\ [Next]_vars => CopiesAreExact'
  BY CopiesStep
<1> QED
  BY <1>1, <1>2, LeaseInvariant, PTL DEF Spec

\* Every step changes every row only in a way the promise allows.
LEMMA RowStepHolds ==
  ASSUME IInv, CopiesAreExact, [Next]_vars, NEW n \in Notifications
  PROVE  RowStep(n)
<1>1. ASSUME UNCHANGED <<status, attempts, delivered>> PROVE RowStep(n)
  BY <1>1 DEF RowStep
<1>2. ASSUME NEW m \in Notifications, ValidateNotification(m) \/ InsertNotification(m)
      PROVE RowStep(n)
  BY <1>2, OutboxAssumption
  DEF ValidateNotification, InsertNotification, InitialStatus, RowStep, IInv, TypeOK
<1>3. ASSUME NEW g \in Guardians, DeleteGuardian(g) PROVE RowStep(n)
  BY <1>3 DEF DeleteGuardian, RowStep
<1>4. ASSUME NEW w \in Workers, ClaimBatch(w) PROVE RowStep(n)
  <2>1. PICK gone \in SUBSET Expirable :
          status' = [m \in Notifications |-> IF m \in gone THEN "expired" ELSE status[m]]
    BY <1>4 DEF ClaimBatch, ClaimEffect, Oldest
  <2>2. attempts' = attempts /\ delivered' = delivered
    BY <1>4 DEF ClaimBatch
  <2> QED
    BY <2>1, <2>2 DEF RowStep, Expirable
<1>5. ASSUME NEW w \in Workers, RecordResults(w) PROVE RowStep(n)
  <2>1. CASE ~(n \in job[w].batch /\ StillHeld(job[w], n))
    BY <1>5, <2>1, RecordedRows DEF RowStep
  <2>2. CASE n \in job[w].batch /\ StillHeld(job[w], n)
    <3>1. /\ status[n] = "pending" /\ lease[n] = job[w].token
          /\ job[w].attempts[n] = attempts[n] /\ attempts[n] < MaxAttempts
          /\ delivered[n] \subseteq job[w].delivered[n]
          /\ status'[n] = NewStatus(job[w], n)
          /\ attempts'[n] = NewAttempts(job[w], n)
          /\ delivered'[n] = job[w].delivered[n]
      BY <1>5, <2>2, RecordedRows
    <3>2. CASE n \in job[w].targeted
      <4>1. attempts'[n] = attempts[n] + 1
        BY <3>1, <3>2 DEF NewAttempts
      <4>2. attempts[n] \in Nat
        BY DEF IInv, TypeOK
      <4>3. /\ status'[n] \in {"pending", "sent", "failed", "skipped"}
            /\ status'[n] = "pending" => attempts'[n] < MaxAttempts
            /\ status'[n] = "sent" => delivered'[n] # {}
            /\ status'[n] = "failed" => delivered'[n] = {} \/ attempts'[n] = MaxAttempts
            /\ status'[n] = "skipped" => attempts'[n] = attempts[n]
        BY <3>1, ResultFor
      <4>4. status'[n] # "skipped"
        BY <4>1, <4>2, <4>3
      <4> QED
        BY <3>1, <4>1, <4>3, <4>4 DEF RowStep
    <3>3. CASE n \notin job[w].targeted
      <4>1. attempts'[n] = attempts[n]
        BY <3>1, <3>3 DEF NewAttempts
      <4>2. delivered'[n] = delivered[n]
        BY <2>2, <3>1, <3>3 DEF CopiesAreExact
      <4>3. n \notin job[w].attempted \/ n \in job[w].attempted \ job[w].targeted
        BY <3>3
      <4>4. status'[n] = "skipped" \/ (status'[n] = "sent" /\ job[w].delivered[n] # {})
        BY <3>1, <4>3, NewStatusCases
      <4> QED
        BY <3>1, <4>1, <4>2, <4>4 DEF RowStep
    <3> QED
      BY <3>2, <3>3
  <2> QED
    BY <2>1, <2>2
<1> QED
  BY <1>1, <1>2, <1>3, <1>4, <1>5
  DEF Next, Request, World, WorkerStep, Fault, Time, vars, rows,
      SetAccountActive, ResetPassword, ChangePassword, UnregisterDevice, RegisterDevice,
      ReadDevices, SendChunk, DisableDeadDevices, BatchFails, RequestStop, KillWorker,
      ExitWorker, StartWorker, BecomesDue, LeaseLapses, GrowsStale

\* A settled row keeps its outcome, whatever a late worker still reports.
THEOREM OutcomesAreFinal == Spec => SettledIsFinal
<1>1. IInv /\ CopiesAreExact /\ [Next]_vars
        => [\A n \in Notifications :
               status[n] \in Settled => status'[n] \in {status[n], "deleted"}]_vars
  BY RowStepHolds DEF RowStep, Settled, Exists
<1> QED
  BY <1>1, LeaseInvariant, CopiesInvariant, PTL DEF Spec, SettledIsFinal

\* Recorded deliveries are never forgotten and attempts count up by one.
THEOREM ProgressSurvives == Spec => ProgressIsKept
<1>1. IInv /\ CopiesAreExact /\ [Next]_vars
        => [\A n \in Notifications :
               /\ delivered[n] \subseteq delivered'[n]
               /\ attempts'[n] \in {attempts[n], attempts[n] + 1}]_vars
  BY RowStepHolds DEF RowStep
<1> QED
  BY <1>1, LeaseInvariant, CopiesInvariant, PTL DEF Spec, ProgressIsKept

\* The outbox implements the promise: what a push status means to a reader of
\* the deployment guide holds whatever workers, leases and faults do.
THEOREM OutboxKeepsPromise == Spec => ImplementsPromise
<1>1. Init => Promise!Init
  BY DEF Init, Promise!Init
<1>2. IInv /\ IInv' /\ CopiesAreExact /\ [Next]_vars => [Promise!Next]_(Promise!vars)
  <2> SUFFICES ASSUME IInv, IInv', CopiesAreExact, [Next]_vars
               PROVE  Promise!Next
    OBVIOUS
  <2>1. ASSUME NEW n \in Notifications
        PROVE  Promise!Appear(n) \/ Promise!Attempt(n) \/ Promise!Close(n)
                 \/ Promise!Delete(n) \/ Promise!Same(n)
    <3>1. RowStep(n)
      BY RowStepHolds
    <3> QED
      BY <3>1 DEF RowStep, Settled, Exists, Promise!Appear, Promise!Attempt, Promise!Close,
                  Promise!Delete, Promise!Same, Promise!Keep
  <2>2. \A n \in Notifications :
           status'[n] \in {"absent", "validated", "pending", "sent", "failed", "skipped",
                           "expired", "deleted"}
    BY DEF IInv, TypeOK, Settled
  <2>3. attempts' \in [Notifications -> 0..MaxAttempts]
    BY OutboxAssumption DEF IInv, TypeOK, LeaseInv, RowsFit
  <2>4. delivered' \in [Notifications -> SUBSET Devices]
    BY DEF IInv, TypeOK
  <2> QED
    BY <2>1, <2>2, <2>3, <2>4 DEF Promise!Next
<1> QED
  BY <1>1, <1>2, LeaseInvariant, CopiesInvariant, PTL DEF Spec, ImplementsPromise, Promise!Spec

=============================================================================
