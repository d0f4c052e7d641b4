-------------------------- MODULE StudentImportProofs --------------------------
(***************************************************************************)
(* Proofs about StudentImport: leases and locks let each row settle once,  *)
(* counters agree with the rows, and the import keeps ImportPromise.       *)
(***************************************************************************)
EXTENDS StudentImport, FiniteSetTheorems, TLAPS

Started == {"processing"} \cup Finished
Busy == {"revalidate", "place", "guardian", "insert", "create"}
Counting == {"counted", "closing"}

Done(j, s) == Cardinality(InStatus(j, {s}))
AllSettled(j) == \A r \in RowsOf(j) : rows[r].status \in Settled

RowOK(r) ==
    /\ students[r] = IF rows[r].status = "succeeded" THEN 1 ELSE 0
    /\ rows[r].status \in {"processing"} \cup Settled => jobs[r.job].status \in Started
    /\ jobs[r.job].status \in Started => rows[r].status \in {"ready", "processing"} \cup Settled
    /\ jobs[r.job].status \in Finished => rows[r].status \in Settled

JobOK(j) ==
    /\ jobs[j].succeeded <= Done(j, "succeeded") /\ jobs[j].failed <= Done(j, "failed")
    /\ jobs[j].status \in Finished =>
          jobs[j].succeeded = Done(j, "succeeded") /\ jobs[j].failed = Done(j, "failed")

\* What a request knows between counting the rows and saving the job.
CountsOK(w, j) ==
    /\ lock[JobLock(j)] = w
    /\ jobs[j].succeeded <= work[w].succeeded /\ work[w].succeeded <= Done(j, "succeeded")
    /\ jobs[j].failed <= work[w].failed /\ work[w].failed <= Done(j, "failed")
    /\ ~work[w].open => /\ AllSettled(j)
                        /\ work[w].succeeded = Done(j, "succeeded")
                        /\ work[w].failed = Done(j, "failed")
    /\ jobs[j].status \in Finished => ~work[w].open

WorkerOK(w) ==
    /\ pc[w] # "idle" => work[w].job \in Jobs /\ jobs[work[w].job].status \in Started
    /\ pc[w] \in Busy => /\ work[w].source \in Rows
                         /\ lock[RowLock(work[w].source)] = w
                         /\ rows[work[w].source].status = "processing"
    /\ pc[w] \in {"guardian", "insert", "create"} => lock[YearLock] = w /\ yearOpen
    /\ pc[w] = "insert" => Guardian(w) # None
    /\ pc[w] \in Counting => CountsOK(w, work[w].job)

ClerkOK(c) ==
    /\ pc[c] \in {"idle", "guardian", "insert", "create"}
    /\ pc[c] # "idle" => work[c].source \in Forms
    /\ pc[c] = "insert" => Guardian(c) # None

ImportInv ==
    /\ TypeOK
    /\ \A r \in Rows : RowOK(r)
    /\ \A j \in Jobs : JobOK(j)
    /\ \A w \in Workers : WorkerOK(w)
    /\ \A c \in Clerks : ClerkOK(c)
-----------------------------------------------------------------------------
(* What a step of process p may do to what the others rely on.             *)

Forward ==
    /\ \A r \in Rows : rows[r].status \in Settled => rows'[r].status = rows[r].status
    /\ \A j \in Jobs : jobs[j].status \in Started => jobs'[j].status \in Started

Courteous(p) ==
    /\ Forward
    /\ \A x \in Items : lock[x] \notin {p, Nobody} => lock'[x] = lock[x]
    /\ \A r \in Rows : lock[RowLock(r)] \notin {p, Nobody} /\ rows[r].status = "processing" =>
                          rows'[r].status = "processing"
    /\ \A j \in Jobs : lock[JobLock(j)] \notin {p, Nobody} /\ jobs[j].status \in Started =>
                          jobs'[j] = jobs[j]
    /\ lock[YearLock] \notin {p, Nobody} => yearOpen' = yearOpen
    /\ \A q \in Processes : q # p => pc'[q] = pc[q] /\ work'[q] = work[q]

LEMMA ItemFacts ==
    /\ \A r \in Rows : RowLock(r) \in Items
    /\ \A j \in Jobs : JobLock(j) \in Items
    /\ \A i \in Ids : IdLock(i) \in Items
    /\ YearLock \in Items
    /\ \A r \in Rows, j \in Jobs, i \in Ids :
          /\ RowLock(r) # JobLock(j) /\ RowLock(r) # IdLock(i) /\ RowLock(r) # YearLock
          /\ JobLock(j) # IdLock(i) /\ JobLock(j) # YearLock /\ IdLock(i) # YearLock
    /\ \A r, q \in Rows : RowLock(r) = RowLock(q) => r = q
    /\ \A j, k \in Jobs : JobLock(j) = JobLock(k) => j = k
PROOF BY DEF RowLock, JobLock, IdLock, YearLock, Items

LEMMA ProcessFacts ==
    /\ Nobody \notin Processes
    /\ Workers \subseteq Processes /\ Clerks \subseteq Processes
    /\ Workers \cap Clerks = {} /\ Rows \cap Forms = {}
    /\ None \notin Jobs /\ None \notin Sources
    /\ \A r \in Rows : r.job \in Jobs /\ r \in RowsOf(r.job)
    /\ \A j \in Jobs : \A r \in RowsOf(j) : r \in Rows /\ r.job = j
PROOF BY ImportAssumption DEF Processes, Sources, RowsOf

LEMMA DoneFinite ==
    ASSUME NEW j, NEW S
    PROVE  IsFiniteSet(InStatus(j, S)) /\ Cardinality(InStatus(j, S)) \in Nat
PROOF
<1>1. InStatus(j, S) \in SUBSET Rows /\ IsFiniteSet(Rows)
  BY ImportAssumption DEF InStatus, RowsOf
<1> QED BY <1>1, FS_Subset, FS_CardinalityType

\* Settled rows stay settled, so their number grows, and it is final when all
\* rows of the job are settled.
LEMMA CountsGrow ==
    ASSUME Forward, NEW j, NEW s \in Settled
    PROVE  /\ Done(j, s) \in Nat /\ Done(j, s)' \in Nat
           /\ Done(j, s) <= Done(j, s)'
           /\ AllSettled(j) => AllSettled(j)' /\ Done(j, s)' = Done(j, s)
PROOF
<1> DEFINE new == {r \in RowsOf(j) : rows'[r].status \in {s}}
<1>1. InStatus(j, {s})' = new
  BY DEF InStatus
<1>2. InStatus(j, {s}) \in SUBSET new
  BY DEF InStatus, RowsOf, Forward
<1>3. IsFiniteSet(new) /\ Cardinality(new) \in Nat
  <2>1. new \in SUBSET Rows /\ IsFiniteSet(Rows)
    BY ImportAssumption DEF RowsOf
  <2> QED BY <2>1, FS_Subset, FS_CardinalityType
<1>4. Cardinality(InStatus(j, {s})) \in Nat
  BY DoneFinite
<1>5. Cardinality(InStatus(j, {s})) <= Cardinality(new)
  BY <1>2, <1>3, FS_Subset
<1>6. AllSettled(j) => AllSettled(j)'
  BY DEF AllSettled, RowsOf, Forward
<1>7. AllSettled(j) => new = InStatus(j, {s})
  BY DEF AllSettled, InStatus, RowsOf, Forward
<1> HIDE DEF new
<1> QED BY <1>1, <1>3, <1>4, <1>5, <1>6, <1>7 DEF Done

\* The counters of a job nobody saves stay right.
LEMMA JobKept ==
    ASSUME Forward, NEW j \in Jobs, JobOK(j), jobs \in [Jobs -> Job],
           \A r \in Rows : RowOK(r), jobs'[j] = jobs[j]
    PROVE  JobOK(j)'
PROOF
<1>1. jobs[j].status \in Finished => AllSettled(j)
  BY DEF RowOK, AllSettled, RowsOf
<1>2. "succeeded" \in Settled /\ "failed" \in Settled
  BY DEF Settled
<1>3. jobs[j].succeeded \in Nat /\ jobs[j].failed \in Nat
  BY DEF Job
<1>4. /\ Done(j, "succeeded") \in Nat /\ Done(j, "succeeded")' \in Nat
      /\ Done(j, "succeeded") <= Done(j, "succeeded")'
      /\ AllSettled(j) => Done(j, "succeeded")' = Done(j, "succeeded")
  BY <1>2, CountsGrow
<1>5. /\ Done(j, "failed") \in Nat /\ Done(j, "failed")' \in Nat
      /\ Done(j, "failed") <= Done(j, "failed")'
      /\ AllSettled(j) => Done(j, "failed")' = Done(j, "failed")
  BY <1>2, CountsGrow
<1> QED BY <1>1, <1>3, <1>4, <1>5 DEF JobOK

\* A courteous step of one process leaves another request as it should be.
LEMMA Bystander ==
    ASSUME ImportInv, NEW p \in Processes \cup {Nobody}, Courteous(p),
           NEW w \in Workers, w # p
    PROVE  WorkerOK(w)'
PROOF
<1>0. /\ WorkerOK(w) /\ TypeOK /\ Forward
      /\ pc'[w] = pc[w] /\ work'[w] = work[w]
      /\ w # Nobody /\ w \in Processes
      /\ \A x \in Items : lock[x] = w => lock'[x] = w
  BY ProcessFacts DEF ImportInv, Courteous
<1>1. (pc[w] # "idle" => work[w].job \in Jobs /\ jobs[work[w].job].status \in Started)'
  BY <1>0 DEF WorkerOK, Forward
<1>2. (pc[w] \in Busy => /\ work[w].source \in Rows
                         /\ lock[RowLock(work[w].source)] = w
                         /\ rows[work[w].source].status = "processing")'
  BY <1>0, ItemFacts DEF WorkerOK, Courteous
<1>3. (pc[w] \in {"guardian", "insert", "create"} => lock[YearLock] = w /\ yearOpen)'
  BY <1>0, ItemFacts DEF WorkerOK, Courteous
<1>4. (pc[w] \in Counting => CountsOK(w, work[w].job))'
  <2> SUFFICES ASSUME pc[w] \in Counting PROVE CountsOK(w, work[w].job)'
    BY <1>0
  <2> DEFINE j == work[w].job
  <2>1. /\ j \in Jobs /\ jobs[j].status \in Started /\ CountsOK(w, j)
        /\ work'[w].job = j
    BY <1>0 DEF WorkerOK, Counting
  <2>2. lock'[JobLock(j)] = w /\ jobs'[j] = jobs[j]
    BY <1>0, <2>1, ItemFacts DEF Courteous, CountsOK
  <2>3. /\ work[w].succeeded \in Nat /\ work[w].failed \in Nat
        /\ jobs[j].succeeded \in Nat /\ jobs[j].failed \in Nat
    BY <1>0, <2>1 DEF TypeOK, Work, Job
  <2>4. "succeeded" \in Settled /\ "failed" \in Settled
    BY DEF Settled
  <2>5. /\ Done(j, "succeeded") \in Nat /\ Done(j, "succeeded")' \in Nat
        /\ Done(j, "succeeded") <= Done(j, "succeeded")'
        /\ AllSettled(j) => AllSettled(j)' /\ Done(j, "succeeded")' = Done(j, "succeeded")
    BY <1>0, <2>4, CountsGrow
  <2>6. /\ Done(j, "failed") \in Nat /\ Done(j, "failed")' \in Nat
        /\ Done(j, "failed") <= Done(j, "failed")'
        /\ AllSettled(j) => Done(j, "failed")' = Done(j, "failed")
    BY <1>0, <2>4, CountsGrow
  <2> QED BY <1>0, <2>1, <2>2, <2>3, <2>5, <2>6 DEF CountsOK
<1>5. (pc[w] = "insert" => Guardian(w) # None)'
  BY <1>0 DEF WorkerOK, Guardian
<1> QED BY <1>1, <1>2, <1>3, <1>4, <1>5 DEF WorkerOK
-----------------------------------------------------------------------------
(* What a lemma about a step of process p has to show.                     *)

GoodStep(p) ==
    /\ TypeOK'
    /\ Courteous(p)
    /\ \A r \in Rows : RowOK(r)'
    /\ \A j \in Jobs : JobOK(j)'
    /\ p \in Workers => WorkerOK(p)'
    /\ p \in Clerks => ClerkOK(p)'

LEMMA GoodStepKeepsInv ==
    ASSUME ImportInv, NEW p \in Processes \cup {Nobody}, GoodStep(p)
    PROVE  ImportInv'
PROOF
<1>1. \A w \in Workers : WorkerOK(w)'
  BY Bystander DEF GoodStep
<1>2. ASSUME NEW c \in Clerks PROVE ClerkOK(c)'
  <2>1. CASE c = p
    BY <2>1 DEF GoodStep
  <2>2. CASE c # p
    BY <2>2, ProcessFacts DEF GoodStep, Courteous, ImportInv, ClerkOK, Guardian
  <2> QED BY <2>1, <2>2
<1> QED BY <1>1, <1>2 DEF ImportInv, GoodStep

\* A step that leaves the database alone.
LEMMA DatabaseKept ==
    ASSUME ImportInv, UNCHANGED database
    PROVE  /\ Forward
           /\ \A r \in Rows : RowOK(r)'
           /\ \A j \in Jobs : JobOK(j)'
           /\ \A r \in Rows : rows'[r].status = rows[r].status
           /\ \A j \in Jobs : jobs'[j] = jobs[j]
           /\ yearOpen' = yearOpen
PROOF
<1>1. jobs' = jobs /\ rows' = rows /\ students' = students /\ yearOpen' = yearOpen
  BY DEF database
<1>2. Forward
  BY <1>1 DEF Forward
<1>3. \A r \in Rows : RowOK(r)'
  BY <1>1 DEF ImportInv, RowOK
<1>4. \A j \in Jobs : JobOK(j)'
  BY <1>1, <1>2, JobKept DEF ImportInv, TypeOK
<1> QED BY <1>1, <1>2, <1>3, <1>4

LEMMA ReleaseType ==
    ASSUME TypeOK, NEW p \in Processes
    PROVE  /\ Release(p) \in [Items -> Processes \cup {Nobody}]
           /\ \A x \in Items : lock[x] \notin {p, Nobody} => Release(p)[x] = lock[x]
PROOF BY DEF TypeOK, Release

LEMMA SourceTypes ==
    /\ Rows \subseteq Sources /\ Forms \subseteq Sources
    /\ \A r \in Rows : r.guardian \in Ids \cup {None}
    /\ \A f \in Forms : f.guardian \in Ids \cup {None}
PROOF BY ImportAssumption DEF Sources

LEMMA StartRegistrationGood ==
    ASSUME ImportInv, NEW c \in Clerks, NEW f \in Forms, StartRegistration(c, f)
    PROVE  GoodStep(c)
PROOF
<1>1. TypeOK /\ c \in Processes /\ c \notin Workers /\ f \in Sources
  BY ProcessFacts, SourceTypes DEF ImportInv
<1>2. TypeOK'
  <2>1. [NoWork EXCEPT !.source = f] \in Work
    BY <1>1 DEF NoWork, Work
  <2> QED BY <1>1, <2>1 DEF TypeOK, StartRegistration, database
<1>3. Courteous(c)
  BY <1>1, DatabaseKept DEF Courteous, StartRegistration, TypeOK
<1>4. ClerkOK(c)'
  BY <1>1 DEF ClerkOK, StartRegistration, TypeOK, NoWork
<1> QED BY <1>1, <1>2, <1>3, <1>4, DatabaseKept DEF GoodStep, StartRegistration

\* A step of a process that only ends it: abort, or refused registration.
LEMMA EndGood ==
    ASSUME ImportInv, NEW p \in Processes,
           pc' = [pc EXCEPT ![p] = "idle"], work' = [work EXCEPT ![p] = NoWork],
           lock' = Release(p), faults' \in 0..MaxFaults, UNCHANGED database
    PROVE  GoodStep(p)
PROOF
<1>1. TypeOK
  BY DEF ImportInv
<1>2. TypeOK'
  <2>1. NoWork \in Work
    BY DEF NoWork, Work
  <2> QED BY <1>1, <2>1, ReleaseType DEF TypeOK, database
<1>3. Courteous(p)
  BY <1>1, DatabaseKept, ReleaseType DEF Courteous, TypeOK
<1>4. WorkerOK(p)' /\ ClerkOK(p)'
  BY <1>1 DEF WorkerOK, ClerkOK, TypeOK, Busy, Counting
<1> QED BY <1>2, <1>3, <1>4, DatabaseKept DEF GoodStep

LEMMA AbortGood ==
    ASSUME ImportInv, NEW p \in Processes, Abort(p)
    PROVE  GoodStep(p)
PROOF
<1>1. faults' \in 0..MaxFaults
  BY ImportAssumption DEF ImportInv, TypeOK, Abort
<1> QED BY <1>1, EndGood DEF Abort

LEMMA TakeRowGood ==
    ASSUME ImportInv, NEW w \in Workers, TakeRow(w)
    PROVE  GoodStep(w)
PROOF
<1>1. TypeOK /\ w \in Processes /\ w \notin Clerks /\ WorkerOK(w) /\ pc[w] = "next"
  BY ProcessFacts DEF ImportInv, TakeRow
<1>2. UNCHANGED database /\ faults' = faults
  BY DEF TakeRow
<1>3. PICK c \in work[w].claims :
        /\ Free(RowLock(c.row))
        /\ \/ /\ HoldsLease(c)
              /\ lock' = [lock EXCEPT ![RowLock(c.row)] = w]
              /\ pc' = [pc EXCEPT ![w] = "revalidate"]
              /\ work' = [work EXCEPT ![w] = [work[w] EXCEPT !.claims = @ \ {c}, !.source = c.row]]
           \/ /\ ~HoldsLease(c)
              /\ pc' = [pc EXCEPT ![w] = "refresh"]
              /\ work' = [work EXCEPT ![w].claims = @ \ {c}]
              /\ UNCHANGED lock
  BY DEF TakeRow
<1>4. c.row \in Rows /\ c.row \in Sources /\ work[w] \in Work
  BY <1>1, SourceTypes DEF TypeOK, Work, Claim
<1>5. CASE HoldsLease(c)
  <2>1. /\ lock' = [lock EXCEPT ![RowLock(c.row)] = w]
        /\ pc' = [pc EXCEPT ![w] = "revalidate"]
        /\ work' = [work EXCEPT ![w] = [work[w] EXCEPT !.claims = @ \ {c}, !.source = c.row]]
    BY <1>3, <1>5
  <2> DEFINE new == [work[w] EXCEPT !.claims = @ \ {c}, !.source = c.row]
  <2>2. new \in Work
    BY <1>4 DEF Work
  <2>7. work' = [work EXCEPT ![w] = new]
    BY <2>1
  <2>3. TypeOK'
    <3> HIDE DEF new
    <3>1. lock' \in [Items -> Processes \cup {Nobody}]
      BY <1>1, <1>4, <2>1, ItemFacts DEF TypeOK
    <3>2. work' \in [Processes -> Work]
      BY <1>1, <2>2, <2>7 DEF TypeOK
    <3> QED BY <1>1, <1>2, <2>1, <3>1, <3>2 DEF TypeOK, database
  <2>4. Courteous(w)
    BY <1>1, <1>2, <1>3, <1>4, <2>1, DatabaseKept, ItemFacts DEF Courteous, TypeOK, Free
  <2>5. /\ work'[w].source = c.row /\ work'[w].job = work[w].job /\ pc'[w] = "revalidate"
        /\ lock'[RowLock(c.row)] = w
    BY <1>1, <1>4, <2>1, ItemFacts DEF TypeOK, Work
  <2>6. WorkerOK(w)'
    BY <1>1, <1>2, <1>4, <1>5, <2>5, DatabaseKept DEF WorkerOK, Counting, HoldsLease
  <2> QED BY <1>1, <1>2, <2>3, <2>4, <2>6, DatabaseKept DEF GoodStep
<1>6. CASE ~HoldsLease(c)
  <2>1. /\ lock' = lock
        /\ pc' = [pc EXCEPT ![w] = "refresh"]
        /\ work' = [work EXCEPT ![w].claims = @ \ {c}]
    BY <1>3, <1>6
  <2>2. TypeOK'
    BY <1>1, <1>2, <1>4, <2>1 DEF TypeOK, database, Work
  <2>3. Courteous(w)
    BY <1>1, <1>2, <2>1, DatabaseKept DEF Courteous, TypeOK
  <2>4. work'[w].job = work[w].job /\ pc'[w] = "refresh"
    BY <1>1, <1>4, <2>1 DEF TypeOK, Work
  <2>5. WorkerOK(w)'
    BY <1>1, <1>2, <2>4, DatabaseKept DEF WorkerOK, Counting, Busy
  <2> QED BY <1>1, <1>2, <2>2, <2>3, <2>5, DatabaseKept DEF GoodStep
<1> QED BY <1>5, <1>6

\* A process goes on to another stage of its transaction.
LEMMA AdvanceGood ==
    ASSUME ImportInv, NEW p \in Processes, NEW stage \in Busy,
           pc[p] \in Busy, Advance(p, stage), faults' = faults,
           p \in Clerks => stage \in {"insert", "create"},
           stage = "insert" => Guardian(p) # None,
           lock' \in [Items -> Processes \cup {Nobody}],
           \A x \in Items : lock[x] # Nobody => lock'[x] = lock[x],
           p \in Workers /\ stage \in {"guardian", "insert", "create"} =>
              lock'[YearLock] = p /\ yearOpen
    PROVE  GoodStep(p)
PROOF
<1>1. TypeOK /\ p # Nobody
  BY ProcessFacts DEF ImportInv
<1>2. pc' = [pc EXCEPT ![p] = stage] /\ work' = work /\ UNCHANGED database
  BY DEF Advance
<1>3. TypeOK'
  BY <1>1, <1>2 DEF TypeOK, database, Busy
<1>4. Courteous(p)
  BY <1>1, <1>2, DatabaseKept DEF Courteous, TypeOK
<1>5. ASSUME p \in Workers PROVE WorkerOK(p)'
  <2>1. WorkerOK(p) /\ pc'[p] = stage /\ pc[p] # "idle" /\ stage \notin Counting
    BY <1>1, <1>2, <1>5 DEF ImportInv, TypeOK, Busy, Counting
  <2>2. /\ work[p].source \in Rows /\ lock[RowLock(work[p].source)] = p
        /\ rows[work[p].source].status = "processing"
        /\ work[p].job \in Jobs /\ jobs[work[p].job].status \in Started
    BY <2>1 DEF WorkerOK
  <2>3. lock'[RowLock(work[p].source)] = p
    BY <1>1, <2>2, ItemFacts
  <2>4. rows' = rows /\ jobs' = jobs /\ yearOpen' = yearOpen /\ work' = work
    BY <1>2 DEF database
  <2>5. stage \in {"guardian", "insert", "create"} => lock'[YearLock] = p /\ yearOpen
    BY <1>5
  <2> QED BY <2>1, <2>2, <2>3, <2>4, <2>5 DEF WorkerOK, Guardian
<1>6. ASSUME p \in Clerks PROVE ClerkOK(p)'
  BY <1>1, <1>2, <1>6 DEF ImportInv, ClerkOK, TypeOK, Busy, Guardian
<1> QED BY <1>2, <1>3, <1>4, <1>5, <1>6, DatabaseKept DEF GoodStep

\* The row a request is working on settles.
LEMMA SettleGood ==
    ASSUME ImportInv, NEW w \in Workers, pc[w] \in Busy, NEW s \in Settled,
           SettleRow(work[w].source, s), EndRow(w),
           UNCHANGED <<jobs, yearOpen, faults>>,
           accounts' \in [Ids -> {"none", "guardian", "staff"}],
           students' = IF s = "succeeded"
                       THEN [students EXCEPT ![work[w].source] = @ + 1] ELSE students
    PROVE  GoodStep(w)
PROOF
<1>0. work[w].source \in Rows
  BY DEF ImportInv, WorkerOK
<1> PICK r \in Rows : r = work[w].source
  BY <1>0
<1> DEFINE new == [rows[r] EXCEPT !.status = s, !.token = 0, !.lapsed = FALSE]
<1>1. /\ TypeOK /\ w \in Processes /\ w \notin Clerks /\ w # Nobody /\ WorkerOK(w)
      /\ \A q \in Rows : RowOK(q)
  BY ProcessFacts DEF ImportInv
<1>2. /\ r \in Rows /\ r \in Sources /\ lock[RowLock(r)] = w /\ rows[r].status = "processing"
      /\ work[w].job \in Jobs /\ jobs[work[w].job].status \in Started
  BY <1>1, SourceTypes DEF WorkerOK, Busy
<1>3. new \in Row /\ new.status = s
  <2>1. rows[r] \in RowState
    BY <1>1, <1>2 DEF TypeOK, Row
  <2>2. new \in RowState /\ new.status = s /\ new.token = 0
    BY <2>1 DEF RowState, Settled
  <2> QED BY <2>2 DEF Row, Settled
<1>4. rows' = [rows EXCEPT ![r] = new]
  BY DEF SettleRow
<1> HIDE DEF new
<1>5. /\ rows' \in [Rows -> Row] /\ rows'[r].status = s
      /\ \A q \in Rows : q # r => rows'[q] = rows[q]
  BY <1>1, <1>2, <1>3, <1>4 DEF TypeOK
<1>6. Forward
  BY <1>2, <1>5 DEF Forward, Settled
<1>7. students' \in [Sources -> Nat] /\ \A q \in Rows : RowOK(q)'
  <2>1. students[r] = 0 /\ jobs[r.job].status \in Started
    BY <1>1, <1>2 DEF RowOK
  <2>2. students' \in [Sources -> Nat]
    BY <1>1, <1>2 DEF TypeOK
  <2>3. students'[r] = (IF s = "succeeded" THEN 1 ELSE 0)
    BY <1>1, <1>2, <2>1 DEF TypeOK
  <2>4. \A q \in Rows : q # r => students'[q] = students[q]
    BY <1>1, <1>2, SourceTypes DEF TypeOK
  <2>5. RowOK(r)'
    BY <1>5, <2>1, <2>3 DEF RowOK, Settled
  <2>6. ASSUME NEW q \in Rows, q # r PROVE RowOK(q)'
    BY <1>1, <1>5, <2>4, <2>6 DEF RowOK
  <2> QED BY <2>2, <2>5, <2>6
<1>8. \A j \in Jobs : JobOK(j)'
  BY <1>1, <1>6, JobKept DEF ImportInv, TypeOK
<1>9. /\ lock' = Release(w) /\ pc' = [pc EXCEPT ![w] = "refresh"]
      /\ work' = [work EXCEPT ![w].source = None]
  BY DEF EndRow
<1>10. Courteous(w)
  <2>1. \A q \in Rows : lock[RowLock(q)] \notin {w, Nobody} => rows'[q].status = rows[q].status
    BY <1>2, <1>5
  <2> QED BY <1>1, <1>6, <1>9, <2>1, ReleaseType DEF Courteous, TypeOK
<1>11. TypeOK'
  <2>1. work' \in [Processes -> Work]
    <3> DEFINE next == [work[w] EXCEPT !.source = None]
    <3>1. next \in Work /\ work' = [work EXCEPT ![w] = next]
      BY <1>1, <1>9 DEF TypeOK, Work
    <3> HIDE DEF next
    <3> QED BY <1>1, <3>1 DEF TypeOK
  <2>2. lock' \in [Items -> Processes \cup {Nobody}]
    BY <1>1, <1>9, ReleaseType
  <2> QED BY <1>1, <1>5, <1>7, <1>9, <2>1, <2>2 DEF TypeOK
<1>12. WorkerOK(w)'
  <2>1. pc'[w] = "refresh" /\ work'[w].job = work[w].job
    BY <1>1, <1>9 DEF TypeOK, Work
  <2> QED BY <1>2, <2>1 DEF WorkerOK, Busy, Counting
<1> QED BY <1>1, <1>7, <1>8, <1>10, <1>11, <1>12 DEF GoodStep

LEMMA FailRowGood ==
    ASSUME ImportInv, NEW w \in Workers, pc[w] \in Busy, FailRow(w), faults' = faults
    PROVE  GoodStep(w)
PROOF
<1>1. "failed" \in Settled /\ "failed" # "succeeded"
  BY DEF Settled
<1>2. accounts' \in [Ids -> {"none", "guardian", "staff"}]
  BY DEF ImportInv, TypeOK, FailRow
<1> QED BY <1>1, <1>2, SettleGood DEF FailRow

LEMMA RevalidateGood ==
    ASSUME ImportInv, NEW w \in Workers, Revalidate(w)
    PROVE  GoodStep(w)
PROOF
<1>1. TypeOK /\ w \in Processes /\ w \notin Clerks /\ pc[w] \in Busy
  BY ProcessFacts DEF ImportInv, Revalidate, Busy
<1>2. CASE FailRow(w)
  BY <1>1, <1>2, FailRowGood DEF Revalidate
<1>3. CASE Advance(w, "place") /\ UNCHANGED lock
  <2>1. "place" \in Busy
    BY DEF Busy
  <2> QED BY <1>1, <1>3, <2>1, AdvanceGood DEF Revalidate, TypeOK
<1> QED BY <1>2, <1>3 DEF Revalidate

LEMMA LockYearGood ==
    ASSUME ImportInv, NEW w \in Workers, LockYear(w)
    PROVE  GoodStep(w)
PROOF
<1>1. TypeOK /\ w \in Processes /\ w \notin Clerks /\ pc[w] \in Busy
  BY ProcessFacts DEF ImportInv, LockYear, Busy
<1>2. CASE FailRow(w)
  BY <1>1, <1>2, FailRowGood DEF LockYear
<1>3. CASE yearOpen /\ lock' = [lock EXCEPT ![YearLock] = w] /\ Advance(w, "guardian")
  <2>1. "guardian" \in Busy
    BY DEF Busy
  <2>2. /\ lock' \in [Items -> Processes \cup {Nobody}] /\ lock'[YearLock] = w
        /\ \A x \in Items : lock[x] # Nobody => lock'[x] = lock[x]
    BY <1>1, <1>3, ItemFacts DEF TypeOK, LockYear, Free
  <2> QED BY <1>1, <1>3, <2>1, <2>2, AdvanceGood DEF LockYear
<1> QED BY <1>2, <1>3 DEF LockYear

\* A refusal inside register_student.
LEMMA RefuseGood ==
    ASSUME ImportInv, NEW p \in Processes, pc[p] \in Busy, Refuse(p), faults' = faults
    PROVE  GoodStep(p)
PROOF
<1>1. CASE p \in Workers /\ FailRow(p)
  BY <1>1, FailRowGood
<1>2. CASE p \in Clerks /\ EndRegistration(p) /\ UNCHANGED database
  <2>1. faults' \in 0..MaxFaults
    BY DEF ImportInv, TypeOK
  <2> QED BY <1>2, <2>1, EndGood DEF EndRegistration
<1> QED BY <1>1, <1>2 DEF Refuse

\* What holds of a process inside register_student.
LEMMA Registering ==
    ASSUME ImportInv, NEW p \in Processes, pc[p] \in {"guardian", "insert", "create"}
    PROVE  /\ TypeOK /\ pc[p] \in Busy
           /\ work[p].source \in Sources
           /\ Guardian(p) \in Ids \cup {None}
           /\ p \in Workers => lock[YearLock] = p /\ yearOpen
           /\ pc[p] = "insert" => Guardian(p) # None
PROOF
<1>1. p \in Workers \/ p \in Clerks
  BY DEF Processes
<1>2. TypeOK /\ pc[p] \in Busy
  BY DEF ImportInv, Busy
<1>3. CASE p \in Workers
  BY <1>2, <1>3, SourceTypes DEF ImportInv, WorkerOK, Guardian
<1>4. CASE p \in Clerks
  BY <1>2, <1>4, SourceTypes, ProcessFacts DEF ImportInv, ClerkOK, Guardian
<1> QED BY <1>1, <1>2, <1>3, <1>4, ProcessFacts

LEMMA FindGuardianGood ==
    ASSUME ImportInv, NEW p \in Processes, FindGuardian(p)
    PROVE  GoodStep(p)
PROOF
<1>1. /\ TypeOK /\ pc[p] \in Busy /\ faults' = faults
      /\ p \in Workers => lock[YearLock] = p /\ yearOpen
  BY Registering DEF FindGuardian
<1>2. CASE Refuse(p)
  BY <1>1, <1>2, RefuseGood
<1>3. ASSUME NEW stage \in {"insert", "create"}, Advance(p, stage), UNCHANGED lock,
             stage = "insert" => Guardian(p) # None
      PROVE  GoodStep(p)
  <2>1. stage \in Busy
    BY DEF Busy
  <2> QED BY <1>1, <1>3, <2>1, AdvanceGood DEF TypeOK
<1> QED BY <1>2, <1>3 DEF FindGuardian

LEMMA InsertGuardianGood ==
    ASSUME ImportInv, NEW p \in Processes, InsertGuardian(p)
    PROVE  GoodStep(p)
PROOF
<1>1. /\ TypeOK /\ pc[p] \in Busy /\ faults' = faults
      /\ p \in Workers => lock[YearLock] = p /\ yearOpen
  BY Registering DEF InsertGuardian
<1>2. CASE Refuse(p)
  BY <1>1, <1>2, RefuseGood
<1>3. ASSUME Advance(p, "create"), lock' = lock \/ lock' = [lock EXCEPT ![IdLock(Guardian(p))] = p]
      PROVE  GoodStep(p)
  <2>1. "create" \in Busy
    BY DEF Busy
  <2>2. /\ lock' \in [Items -> Processes \cup {Nobody}]
        /\ \A x \in Items : lock[x] # Nobody => lock'[x] = lock[x]
    BY <1>1, <1>3 DEF TypeOK, InsertGuardian, Free
  <2>3. p \in Workers => lock'[YearLock] = p /\ yearOpen
    BY <1>1, <2>2, ProcessFacts, ItemFacts
  <2> QED BY <1>1, <1>3, <2>1, <2>2, <2>3, AdvanceGood
<1> QED BY <1>2, <1>3 DEF InsertGuardian

LEMMA CommitRowGood ==
    ASSUME ImportInv, NEW w \in Workers, CommitRow(w)
    PROVE  GoodStep(w)
PROOF
<1>1. pc[w] \in Busy /\ "succeeded" \in Settled
  BY DEF CommitRow, Busy, Settled
<1>2. accounts' \in [Ids -> {"none", "guardian", "staff"}]
  BY DEF ImportInv, TypeOK, CommitRow, Create
<1> QED BY <1>1, <1>2, SettleGood DEF CommitRow, Create

LEMMA CommitRegistrationGood ==
    ASSUME ImportInv, NEW c \in Clerks, CommitRegistration(c)
    PROVE  GoodStep(c)
PROOF
<1>1. TypeOK /\ c \in Processes /\ c \notin Workers /\ pc[c] = "create"
  BY ProcessFacts DEF ImportInv, CommitRegistration
<1>2. work[c].source \in Forms /\ work[c].source \in Sources
  BY <1>1, SourceTypes DEF ImportInv, ClerkOK
<1>3. /\ students' = [students EXCEPT ![work[c].source] = @ + 1]
      /\ UNCHANGED <<jobs, rows, yearOpen, faults>>
      /\ accounts' \in [Ids -> {"none", "guardian", "staff"}]
  BY <1>1 DEF CommitRegistration, Create, TypeOK
<1>4. /\ pc' = [pc EXCEPT ![c] = "idle"] /\ work' = [work EXCEPT ![c] = NoWork]
      /\ lock' = Release(c)
  BY DEF CommitRegistration, EndRegistration
<1>5. TypeOK'
  <2>1. NoWork \in Work
    BY DEF NoWork, Work
  <2>2. students' \in [Sources -> Nat]
    BY <1>1, <1>2, <1>3 DEF TypeOK
  <2> QED BY <1>1, <1>3, <1>4, <2>1, <2>2, ReleaseType DEF TypeOK
<1>6. Forward
  BY <1>3 DEF Forward
<1>7. Courteous(c)
  BY <1>1, <1>3, <1>4, <1>6, ReleaseType DEF Courteous, TypeOK
<1>8. \A r \in Rows : RowOK(r)'
  BY <1>1, <1>2, <1>3, ProcessFacts, SourceTypes DEF ImportInv, RowOK, TypeOK
<1>9. \A j \in Jobs : JobOK(j)'
  BY <1>1, <1>3, <1>6, JobKept DEF ImportInv, TypeOK
<1>10. ClerkOK(c)'
  BY <1>1, <1>4 DEF ClerkOK, TypeOK
<1> QED BY <1>1, <1>5, <1>7, <1>8, <1>9, <1>10 DEF GoodStep

\* The request has the job's lock, so what it counted is still what it saves.
LEMMA CountRowsGood ==
    ASSUME ImportInv, NEW w \in Workers, CountRows(w)
    PROVE  GoodStep(w)
PROOF
<1>1. TypeOK /\ w \in Processes /\ w \notin Clerks /\ w # Nobody /\ WorkerOK(w)
  BY ProcessFacts DEF ImportInv
<1> PICK j \in Jobs : j = work[w].job
  BY <1>1 DEF WorkerOK, CountRows
<1> DEFINE next == [work[w] EXCEPT !.succeeded = Cardinality(InStatus(j, {"succeeded"})),
                                   !.failed = Cardinality(InStatus(j, {"failed"})),
                                   !.open = InStatus(j, {"ready", "processing"}) # {}]
           stage == IF pc[w] = "refresh" THEN "counted" ELSE "closing"
<1>2. /\ Free(JobLock(j)) /\ lock' = [lock EXCEPT ![JobLock(j)] = w]
      /\ work' = [work EXCEPT ![w] = next] /\ pc' = [pc EXCEPT ![w] = stage]
      /\ UNCHANGED database /\ faults' = faults /\ pc[w] # "idle"
  BY DEF CountRows
<1>3. /\ next \in Work /\ next.job = j
      /\ next.succeeded = Done(j, "succeeded") /\ next.failed = Done(j, "failed")
      /\ ~next.open <=> InStatus(j, {"ready", "processing"}) = {}
  <2>1. work[w] \in Work
    BY <1>1 DEF TypeOK
  <2>2. /\ Cardinality(InStatus(j, {"succeeded"})) \in Nat
        /\ Cardinality(InStatus(j, {"failed"})) \in Nat
    BY DoneFinite
  <2> QED BY <2>1, <2>2 DEF Work, Done
<1>4. stage \in Counting /\ stage \notin Busy
  BY DEF Counting, Busy
<1> HIDE DEF next, stage
<1>5. TypeOK'
  <2>1. lock' \in [Items -> Processes \cup {Nobody}]
    BY <1>1, <1>2, ItemFacts DEF TypeOK
  <2> QED BY <1>1, <1>2, <1>3, <1>4, <2>1 DEF TypeOK, database, Counting
<1>6. Courteous(w)
  BY <1>1, <1>2, DatabaseKept, ItemFacts DEF Courteous, TypeOK, Free
<1>7. WorkerOK(w)'
  <2>1. pc'[w] = stage /\ work'[w] = next /\ lock'[JobLock(j)] = w /\ jobs' = jobs /\ rows' = rows
    BY <1>1, <1>2, ItemFacts DEF TypeOK, database
  <2>2. jobs[j].status \in Started /\ JobOK(j) /\ jobs[j] \in Job
    BY <1>1, <1>2 DEF WorkerOK, ImportInv, TypeOK
  <2>3. \A r \in RowsOf(j) :
          /\ rows[r].status \in {"ready", "processing"} \cup Settled
          /\ jobs[j].status \in Finished => rows[r].status \in Settled
    BY <2>2 DEF ImportInv, RowOK, RowsOf
  <2>4. ~next.open <=> AllSettled(j)
    BY <1>3, <2>3 DEF InStatus, AllSettled, Settled
  <2>5. jobs[j].status \in Finished => AllSettled(j)
    BY <2>3 DEF AllSettled
  <2>6. Done(j, "succeeded") \in Nat /\ Done(j, "failed") \in Nat
    BY DoneFinite DEF Done
  <2>7. /\ Done(j, "succeeded")' = Done(j, "succeeded") /\ Done(j, "failed")' = Done(j, "failed")
        /\ AllSettled(j)' <=> AllSettled(j)
    BY <2>1 DEF Done, InStatus, AllSettled
  <2>8. CountsOK(w, j)'
    BY <1>3, <2>1, <2>2, <2>4, <2>5, <2>6, <2>7 DEF CountsOK, JobOK, Job
  <2>9. CountsOK(w, work[w].job)'
    BY <1>3, <2>1, <2>8 DEF CountsOK
  <2> QED BY <1>3, <1>4, <2>1, <2>2, <2>9 DEF WorkerOK, Busy, Counting
<1> QED BY <1>1, <1>2, <1>5, <1>6, <1>7, DatabaseKept DEF GoodStep

LEMMA SaveJobGood ==
    ASSUME ImportInv, NEW w \in Workers, SaveJob(w)
    PROVE  GoodStep(w)
PROOF
<1>1. TypeOK /\ w \in Processes /\ w \notin Clerks /\ w # Nobody /\ WorkerOK(w)
      /\ pc[w] \in Counting /\ pc[w] # "idle"
  BY ProcessFacts DEF ImportInv, SaveJob, Counting
<1> PICK j \in Jobs : j = work[w].job
  BY <1>1 DEF WorkerOK
<1> PICK s \in Work : s = work[w]
  BY <1>1 DEF TypeOK
<1> DEFINE final == IF s.failed > 0 THEN "completed_with_errors" ELSE "completed"
           status == IF jobs[j].status = "processing" /\ ~s.open THEN final ELSE jobs[j].status
           new == [status |-> status, succeeded |-> s.succeeded, failed |-> s.failed]
<1>2. /\ jobs' = [jobs EXCEPT ![j] = new]
      /\ pc' = [pc EXCEPT ![w] = IF @ = "counted" THEN "next" ELSE "idle"]
      /\ work' = [work EXCEPT ![w] = IF pc[w] = "counted" THEN @ ELSE NoWork]
      /\ lock' = Release(w)
      /\ UNCHANGED <<rows, students, accounts, yearOpen, faults>>
  BY DEF SaveJob
<1>3. CountsOK(w, j) /\ jobs[j].status \in Started /\ jobs[j] \in Job /\ s.job = j
  BY <1>1 DEF WorkerOK, TypeOK
<1>4. /\ new \in Job /\ new.status = status /\ new.succeeded = s.succeeded /\ new.failed = s.failed
      /\ status \in Started
      /\ status \in Finished => ~s.open
      /\ jobs[j].status \in Finished => status = jobs[j].status
  BY <1>3 DEF Job, Work, Started, Finished, CountsOK
<1> HIDE DEF new, status
<1>5. /\ jobs'[j] = new /\ jobs' \in [Jobs -> Job]
      /\ \A k \in Jobs : k # j => jobs'[k] = jobs[k]
  BY <1>1, <1>2, <1>4 DEF TypeOK
<1>6. Forward
  BY <1>2, <1>4, <1>5 DEF Forward
<1>7. \A r \in Rows : RowOK(r)'
  <2> SUFFICES ASSUME NEW r \in Rows PROVE RowOK(r)'
    OBVIOUS
  <2>1. RowOK(r) /\ r.job \in Jobs
    BY ProcessFacts DEF ImportInv
  <2>2. CASE r.job # j
    BY <1>2, <1>5, <2>1, <2>2 DEF RowOK
  <2>3. CASE r.job = j
    <3>1. status \in Finished => rows[r].status \in Settled
      BY <1>3, <1>4, <2>3, ProcessFacts DEF CountsOK, AllSettled
    <3> QED BY <1>2, <1>3, <1>4, <1>5, <2>1, <2>3, <3>1 DEF RowOK
  <2> QED BY <2>2, <2>3
<1>8. \A k \in Jobs : JobOK(k)'
  <2>1. ASSUME NEW k \in Jobs, k # j PROVE JobOK(k)'
    BY <1>1, <1>5, <1>6, <2>1, JobKept DEF ImportInv, TypeOK
  <2>2. Done(j, "succeeded")' = Done(j, "succeeded") /\ Done(j, "failed")' = Done(j, "failed")
    BY <1>2 DEF Done, InStatus
  <2>3. JobOK(j)'
    BY <1>3, <1>4, <1>5, <2>2 DEF JobOK, CountsOK
  <2> QED BY <2>1, <2>3
<1>9. TypeOK'
  <2>1. NoWork \in Work
    BY DEF NoWork, Work
  <2> QED BY <1>1, <1>2, <1>5, <2>1, ReleaseType DEF TypeOK
<1>10. Courteous(w)
  <2>1. \A k \in Jobs : lock[JobLock(k)] \notin {w, Nobody} => jobs'[k] = jobs[k]
    BY <1>3, <1>5 DEF CountsOK
  <2> QED BY <1>1, <1>2, <1>6, <2>1, ReleaseType DEF Courteous, TypeOK
<1>11. WorkerOK(w)'
  <2>1. \/ pc'[w] = "next" /\ work'[w] = work[w]
        \/ pc'[w] = "idle"
    BY <1>1, <1>2 DEF TypeOK
  <2> QED BY <1>4, <1>5, <2>1 DEF WorkerOK, Busy, Counting
<1> QED BY <1>1, <1>7, <1>8, <1>9, <1>10, <1>11 DEF GoodStep

LEMMA ClaimRowsGood ==
    ASSUME ImportInv, NEW w \in Workers, NEW j \in Jobs, ClaimRows(w, j)
    PROVE  GoodStep(w)
PROOF
<1>1. TypeOK /\ w \in Processes /\ w \notin Clerks /\ w # Nobody
  BY ProcessFacts DEF ImportInv
<1> PICK batch \in SUBSET Rows : batch = Batch(j)
  BY DEF Batch, Eligible, RowsOf
<1> DEFINE claimed(r) == [status |-> "processing", attempts |-> rows[r].attempts + 1,
                          token |-> rows[r].attempts + 1, lapsed |-> FALSE]
           claims == {[row |-> r, token |-> rows[r].attempts + 1] : r \in batch}
           next == [NoWork EXCEPT !.job = j, !.claims = claims]
           status == IF jobs[j].status \in Finished THEN jobs[j].status ELSE "processing"
           new == [jobs[j] EXCEPT !.status = status]
<1>2. /\ Free(JobLock(j)) /\ Processable(j)
      /\ jobs' = [jobs EXCEPT ![j].status = IF @ \in Finished THEN @ ELSE "processing"]
      /\ rows' = [r \in Rows |-> IF r \in batch THEN claimed(r) ELSE rows[r]]
      /\ pc' = [pc EXCEPT ![w] = "next"] /\ work' = [work EXCEPT ![w] = next]
      /\ UNCHANGED <<students, accounts, yearOpen, lock, faults>>
  BY DEF ClaimRows
<1>3. \A r \in batch : /\ r \in Rows /\ r.job = j /\ Free(RowLock(r))
                       /\ rows[r].status \in {"ready", "processing"}
                       /\ rows[r] \in RowState
  BY <1>1 DEF Batch, Eligible, RowsOf, TypeOK, Row
<1>4. jobs[j] \in Job /\ new \in Job /\ new.status = status /\ jobs' = [jobs EXCEPT ![j] = new]
      /\ new.succeeded = jobs[j].succeeded /\ new.failed = jobs[j].failed
  BY <1>1, <1>2 DEF TypeOK, Job, Finished
<1>5. /\ status \in Started
      /\ status \in Finished => jobs[j].status \in Finished
      /\ jobs[j].status \in Started => status = jobs[j].status
  BY DEF Started, Finished
<1>6. \A r \in batch : claimed(r) \in Row /\ claimed(r).status = "processing"
  <2> SUFFICES ASSUME NEW r \in batch PROVE claimed(r) \in Row /\ claimed(r).status = "processing"
    OBVIOUS
  <2>1. rows[r].attempts + 1 \in Nat /\ rows[r].attempts + 1 # 0
    BY <1>3 DEF RowState
  <2> QED BY <2>1 DEF Row, RowState
<1>7. next \in Work /\ next.job = j
  <2>1. claims \in SUBSET Claim
    BY <1>3 DEF Claim, RowState
  <2> HIDE DEF claims
  <2> QED BY <2>1 DEF NoWork, Work
<1> HIDE DEF claimed, claims, next, status, new
<1>8. /\ jobs'[j] = new /\ jobs' \in [Jobs -> Job]
      /\ \A k \in Jobs : k # j => jobs'[k] = jobs[k]
  BY <1>1, <1>4 DEF TypeOK
<1>9. /\ rows' \in [Rows -> Row]
      /\ \A r \in batch : rows'[r].status = "processing"
      /\ \A r \in Rows : r \notin batch => rows'[r] = rows[r]
  BY <1>1, <1>2, <1>6 DEF TypeOK
<1>10. Forward
  BY <1>3, <1>4, <1>5, <1>8, <1>9 DEF Forward, Settled
<1>11. \A r \in Rows : RowOK(r)'
  <2> SUFFICES ASSUME NEW r \in Rows PROVE RowOK(r)'
    OBVIOUS
  <2>1. RowOK(r) /\ r.job \in Jobs /\ students' = students
    BY <1>2, ProcessFacts DEF ImportInv
  <2>2. CASE r.job # j
    BY <1>3, <1>8, <1>9, <2>1, <2>2 DEF RowOK
  <2>3. CASE r.job = j
    <3>1. r \in RowsOf(j)
      BY <2>3 DEF RowsOf
    <3>2. rows[r].status \in {"ready", "processing"} \cup Settled
      BY <1>2, <2>1, <2>3, <3>1 DEF Processable, InStatus, RowOK, Started
    <3>3. r \in batch => jobs[j].status \notin Finished
      BY DEF Batch, Eligible
    <3>4. CASE r \in batch
      <4>1. rows'[r].status = "processing" /\ rows[r].status \in {"ready", "processing"}
        BY <1>3, <1>9, <3>4
      <4> QED BY <1>4, <1>5, <1>8, <2>1, <2>3, <3>3, <3>4, <4>1 DEF RowOK, Settled
    <3>5. CASE r \notin batch
      BY <1>4, <1>5, <1>8, <1>9, <2>1, <2>3, <3>2, <3>5 DEF RowOK
    <3> QED BY <3>4, <3>5
  <2> QED BY <2>2, <2>3
<1>12. \A k \in Jobs : JobOK(k)'
  <2>1. ASSUME NEW k \in Jobs, k # j PROVE JobOK(k)'
    BY <1>1, <1>8, <1>10, <2>1, JobKept DEF ImportInv, TypeOK
  <2>2. CASE jobs[j].status \in Finished
    <3>1. new = jobs[j]
      BY <1>4, <2>2 DEF new, status, Job
    <3> QED BY <1>1, <1>8, <1>10, <2>1, <3>1, JobKept DEF ImportInv, TypeOK
  <2>3. CASE jobs[j].status \notin Finished
    <3>1. new.status \notin Finished /\ JobOK(j)
      BY <1>4, <1>5, <2>3 DEF ImportInv
    <3>2. "succeeded" \in Settled /\ "failed" \in Settled
      BY DEF Settled
    <3>3. /\ Done(j, "succeeded") \in Nat /\ Done(j, "succeeded")' \in Nat
          /\ Done(j, "succeeded") <= Done(j, "succeeded")'
      BY <1>10, <3>2, CountsGrow
    <3>4. /\ Done(j, "failed") \in Nat /\ Done(j, "failed")' \in Nat
          /\ Done(j, "failed") <= Done(j, "failed")'
      BY <1>10, <3>2, CountsGrow
    <3>5. JobOK(j)'
      BY <1>4, <1>8, <3>1, <3>3, <3>4 DEF JobOK, Job
    <3> QED BY <2>1, <3>5
  <2> QED BY <2>2, <2>3
<1>13. TypeOK'
  BY <1>1, <1>2, <1>7, <1>8, <1>9 DEF TypeOK
<1>14. Courteous(w)
  <2>1. \A r \in Rows : lock[RowLock(r)] \notin {w, Nobody} => rows'[r].status = rows[r].status
    BY <1>3, <1>9 DEF Free
  <2>2. \A k \in Jobs : lock[JobLock(k)] \notin {w, Nobody} => jobs'[k] = jobs[k]
    BY <1>2, <1>8 DEF Free
  <2> QED BY <1>1, <1>2, <1>10, <2>1, <2>2 DEF Courteous, TypeOK
<1>15. WorkerOK(w)'
  <2>1. pc'[w] = "next" /\ work'[w].job = j
    BY <1>1, <1>2, <1>7 DEF TypeOK
  <2> QED BY <1>4, <1>5, <1>8, <2>1 DEF WorkerOK, Busy, Counting
<1> QED BY <1>1, <1>11, <1>12, <1>13, <1>14, <1>15 DEF GoodStep

LEMMA UploadGood ==
    ASSUME ImportInv, NEW j \in Jobs, Upload(j)
    PROVE  GoodStep(Nobody)
PROOF
<1>1. TypeOK /\ Nobody \notin Workers /\ Nobody \notin Clerks
  BY ProcessFacts DEF ImportInv
<1>2. PICK status \in {"ready", "validation_failed"} :
        /\ jobs[j].status = "none"
        /\ jobs' = [jobs EXCEPT ![j].status = status]
        /\ rows' = [r \in Rows |-> IF r \in RowsOf(j)
                                   THEN [rows[r] EXCEPT !.status = RowStatus(r, RowsOf(j))]
                                   ELSE rows[r]]
        /\ UNCHANGED <<students, accounts, yearOpen, lock, pc, work, faults>>
  BY DEF Upload
<1> DEFINE new == [jobs[j] EXCEPT !.status = status]
<1>3. /\ new \in Job /\ new.status = status /\ jobs' = [jobs EXCEPT ![j] = new]
      /\ new.succeeded = jobs[j].succeeded /\ new.failed = jobs[j].failed
  BY <1>1, <1>2 DEF TypeOK, Job
<1> HIDE DEF new
<1>4. /\ jobs'[j] = new /\ jobs' \in [Jobs -> Job]
      /\ \A k \in Jobs : k # j => jobs'[k] = jobs[k]
  BY <1>1, <1>3 DEF TypeOK
<1>5. \A r \in RowsOf(j) : /\ r \in Rows /\ r.job = j
                           /\ rows[r] \in Row
                           /\ rows[r].status \notin {"processing"} \cup Settled
                           /\ RowStatus(r, RowsOf(j)) \in {"ready", "review_required", "invalid"}
  BY <1>1, <1>2 DEF RowsOf, RowStatus, ImportInv, RowOK, TypeOK, Started, Finished
<1>6. \A r \in RowsOf(j) : /\ rows'[r] \in Row
                           /\ rows'[r].status \in {"ready", "review_required", "invalid"}
  <2> SUFFICES ASSUME NEW r \in RowsOf(j)
               PROVE  rows'[r] \in Row /\ rows'[r].status \in {"ready", "review_required", "invalid"}
    OBVIOUS
  <2> PICK s \in {"ready", "review_required", "invalid"} : s = RowStatus(r, RowsOf(j))
    BY <1>5
  <2> DEFINE row == [rows[r] EXCEPT !.status = s]
  <2>1. rows'[r] = row
    BY <1>2, <1>5
  <2>2. rows[r] \in RowState /\ rows[r].token = 0
    BY <1>5 DEF Row
  <2>3. row \in RowState /\ row.status = s /\ row.token = 0
    BY <2>2 DEF RowState
  <2> QED BY <2>1, <2>3 DEF Row
<1>7. \A r \in Rows : r \notin RowsOf(j) => rows'[r] = rows[r]
  BY <1>2
<1>8. rows' \in [Rows -> Row]
  BY <1>1, <1>2, <1>6, <1>7 DEF TypeOK
<1>9. Forward
  BY <1>2, <1>4, <1>5, <1>7 DEF Forward, Started, Finished
<1>10. \A r \in Rows : RowOK(r)'
  <2> SUFFICES ASSUME NEW r \in Rows PROVE RowOK(r)'
    OBVIOUS
  <2>1. RowOK(r) /\ students' = students /\ r.job \in Jobs
    BY <1>2, ProcessFacts DEF ImportInv
  <2>2. CASE r \in RowsOf(j)
    <3>1. students[r] = 0
      BY <1>5, <2>1, <2>2 DEF RowOK, Settled
    <3> QED BY <1>3, <1>4, <1>5, <1>6, <2>1, <2>2, <3>1 DEF RowOK, Settled, Started, Finished
  <2>3. CASE r \notin RowsOf(j)
    BY <1>4, <1>7, <2>1, <2>3 DEF RowOK, RowsOf
  <2> QED BY <2>2, <2>3
<1>11. \A k \in Jobs : JobOK(k)'
  <2>1. ASSUME NEW k \in Jobs, k # j PROVE JobOK(k)'
    BY <1>1, <1>4, <1>9, <2>1, JobKept DEF ImportInv, TypeOK
  <2>2. "succeeded" \in Settled /\ "failed" \in Settled
    BY DEF Settled
  <2>3. /\ Done(j, "succeeded") \in Nat /\ Done(j, "succeeded")' \in Nat
        /\ Done(j, "succeeded") <= Done(j, "succeeded")'
    BY <1>9, <2>2, CountsGrow
  <2>4. /\ Done(j, "failed") \in Nat /\ Done(j, "failed")' \in Nat
        /\ Done(j, "failed") <= Done(j, "failed")'
    BY <1>9, <2>2, CountsGrow
  <2>5. JobOK(j) /\ jobs[j] \in Job
    BY <1>1 DEF ImportInv, TypeOK
  <2>6. JobOK(j)'
    BY <1>3, <1>4, <2>3, <2>4, <2>5 DEF JobOK, Job, Finished
  <2> QED BY <2>1, <2>6
<1>12. TypeOK'
  BY <1>1, <1>2, <1>4, <1>8 DEF TypeOK
<1>13. Courteous(Nobody)
  <2>1. \A r \in Rows : rows[r].status = "processing" => rows'[r].status = "processing"
    BY <1>5, <1>7
  <2> QED BY <1>2, <1>4, <1>9, <2>1 DEF Courteous, Started, Finished
<1> QED BY <1>1, <1>10, <1>11, <1>12, <1>13 DEF GoodStep

LEMMA LeaseLapsesGood ==
    ASSUME ImportInv, NEW r \in Rows, LeaseLapses(r)
    PROVE  GoodStep(Nobody)
PROOF
<1>1. TypeOK /\ Nobody \notin Workers /\ Nobody \notin Clerks
  BY ProcessFacts DEF ImportInv
<1> DEFINE new == [rows[r] EXCEPT !.lapsed = TRUE]
<1>2. /\ rows' = [rows EXCEPT ![r] = new]
      /\ UNCHANGED <<jobs, students, accounts, yearOpen, lock, pc, work>>
  BY DEF LeaseLapses
<1>3. new \in Row /\ new.status = rows[r].status
  <2>1. rows[r] \in RowState /\ rows[r] \in Row
    BY <1>1 DEF TypeOK, Row
  <2>2. new \in RowState /\ new.status = rows[r].status /\ new.token = rows[r].token
    BY <2>1 DEF RowState
  <2> QED BY <2>1, <2>2 DEF Row
<1> HIDE DEF new
<1>4. rows' \in [Rows -> Row] /\ \A q \in Rows : rows'[q].status = rows[q].status
  BY <1>1, <1>2, <1>3 DEF TypeOK
<1>5. Forward
  BY <1>2, <1>4 DEF Forward
<1>6. faults' \in 0..MaxFaults
  BY <1>1, ImportAssumption DEF TypeOK, LeaseLapses
<1>7. TypeOK'
  BY <1>1, <1>2, <1>4, <1>6 DEF TypeOK
<1>8. Courteous(Nobody)
  BY <1>2, <1>4, <1>5 DEF Courteous
<1>9. \A q \in Rows : RowOK(q)'
  BY <1>2, <1>4 DEF ImportInv, RowOK
<1>10. \A j \in Jobs : JobOK(j)'
  BY <1>1, <1>2, <1>5, JobKept DEF ImportInv, TypeOK
<1> QED BY <1>1, <1>7, <1>8, <1>9, <1>10 DEF GoodStep

\* The year changes, or a member of staff gets a national id.
LEMMA OfficeGood ==
    ASSUME ImportInv, UNCHANGED <<jobs, rows, students, lock, pc, work, faults>>,
           yearOpen' \in BOOLEAN, lock[YearLock] # Nobody => yearOpen' = yearOpen,
           accounts' \in [Ids -> {"none", "guardian", "staff"}]
    PROVE  GoodStep(Nobody)
PROOF
<1>1. TypeOK /\ Nobody \notin Workers /\ Nobody \notin Clerks
  BY ProcessFacts DEF ImportInv
<1>2. Forward
  BY DEF Forward
<1>3. TypeOK'
  BY <1>1 DEF TypeOK
<1>4. Courteous(Nobody)
  BY <1>2 DEF Courteous
<1>5. \A r \in Rows : RowOK(r)'
  BY DEF ImportInv, RowOK
<1>6. \A j \in Jobs : JobOK(j)'
  BY <1>1, <1>2, JobKept DEF ImportInv, TypeOK
<1> QED BY <1>1, <1>3, <1>4, <1>5, <1>6 DEF GoodStep

LEMMA ChangeYearGood ==
    ASSUME ImportInv, ChangeYear
    PROVE  GoodStep(Nobody)
PROOF
<1>1. accounts' \in [Ids -> {"none", "guardian", "staff"}] /\ yearOpen' \in BOOLEAN
  BY DEF ImportInv, TypeOK, ChangeYear
<1> QED BY <1>1, OfficeGood DEF ChangeYear, Free

LEMMA CreateStaffGood ==
    ASSUME ImportInv, NEW i \in Ids, CreateStaff(i)
    PROVE  GoodStep(Nobody)
PROOF
<1>1. accounts' \in [Ids -> {"none", "guardian", "staff"}] /\ yearOpen' \in BOOLEAN
  BY DEF ImportInv, TypeOK, CreateStaff
<1> QED BY <1>1, OfficeGood DEF CreateStaff
-----------------------------------------------------------------------------
(* The invariant, and what follows from it.                                *)

LEMMA InitInv ==
    ASSUME Init
    PROVE  ImportInv
PROOF
<1>1. TypeOK
  BY ImportAssumption, ProcessFacts
     DEF Init, TypeOK, Job, Row, RowState, NoWork, Work, Settled, Finished
<1>2. \A r \in Rows : RowOK(r)
  BY ProcessFacts, SourceTypes DEF Init, RowOK, Started, Finished, Settled
<1>3. ASSUME NEW j \in Jobs PROVE JobOK(j)
  <2>1. Done(j, "succeeded") \in Nat /\ Done(j, "failed") \in Nat
    BY DoneFinite DEF Done
  <2> QED BY <2>1 DEF Init, JobOK, Finished
<1>4. \A w \in Workers : WorkerOK(w)
  BY ProcessFacts DEF Init, WorkerOK, Busy, Counting
<1>5. \A c \in Clerks : ClerkOK(c)
  BY ProcessFacts DEF Init, ClerkOK
<1> QED BY <1>1, <1>2, <1>3, <1>4, <1>5 DEF ImportInv

LEMMA StepInv ==
    ASSUME ImportInv, [Next]_vars
    PROVE  ImportInv'
PROOF
<1> USE ProcessFacts, GoodStepKeepsInv
<1>1. ASSUME NEW j \in Jobs, Upload(j) PROVE ImportInv'
  BY <1>1, UploadGood
<1>2. ASSUME NEW j \in Jobs, NEW w \in Workers, ClaimRows(w, j) PROVE ImportInv'
  BY <1>2, ClaimRowsGood
<1>3. ASSUME NEW w \in Workers, WorkerStep(w) PROVE ImportInv'
  <2>1. TakeRow(w) \/ Revalidate(w) \/ LockYear(w) => GoodStep(w)
    BY TakeRowGood, RevalidateGood, LockYearGood
  <2>2. FindGuardian(w) \/ InsertGuardian(w) \/ CommitRow(w) => GoodStep(w)
    BY FindGuardianGood, InsertGuardianGood, CommitRowGood
  <2>3. CountRows(w) \/ SaveJob(w) => GoodStep(w)
    BY CountRowsGood, SaveJobGood
  <2> QED BY <1>3, <2>1, <2>2, <2>3 DEF WorkerStep
<1>4. ASSUME NEW c \in Clerks, ClerkStep(c) PROVE ImportInv'
  BY <1>4, FindGuardianGood, InsertGuardianGood, CommitRegistrationGood DEF ClerkStep
<1>5. ASSUME NEW c \in Clerks, NEW f \in Forms, StartRegistration(c, f) PROVE ImportInv'
  BY <1>5, StartRegistrationGood
<1>6. ASSUME NEW p \in Processes, Abort(p) PROVE ImportInv'
  BY <1>6, AbortGood
<1>7. ASSUME NEW r \in Rows, LeaseLapses(r) PROVE ImportInv'
  BY <1>7, LeaseLapsesGood
<1>8. ASSUME NEW i \in Ids, CreateStaff(i) PROVE ImportInv'
  BY <1>8, CreateStaffGood
<1>9. CASE ChangeYear
  BY <1>9, ChangeYearGood
<1>10. CASE UNCHANGED vars
  <2>1. UNCHANGED <<jobs, rows, students, lock, pc, work, faults>> /\ accounts' = accounts /\ yearOpen' = yearOpen
    BY <1>10 DEF vars, database
  <2>2. accounts' \in [Ids -> {"none", "guardian", "staff"}] /\ yearOpen' \in BOOLEAN
    BY <2>1 DEF ImportInv, TypeOK
  <2> QED BY <2>1, <2>2, OfficeGood
<1> QED BY <1>1, <1>2, <1>3, <1>4, <1>5, <1>6, <1>7, <1>8, <1>9, <1>10 DEF Next

LEMMA Invariance == Spec => []ImportInv
PROOF
<1>1. ImportInv /\ [Next]_vars => ImportInv'
  BY StepInv
<1> QED BY <1>1, InitInv, PTL DEF Spec

\* Types, and a lease exactly on the rows being processed, whatever requests,
\* crashes and lapsed leases there are (_claim_rows, _execute_claimed_row).
THEOREM TypeCorrect == Spec => []TypeOK
PROOF
<1>1. ImportInv => TypeOK
  BY DEF ImportInv
<1> QED BY <1>1, Invariance, PTL

\* The counters of a finished job are those of its rows (_refresh_job), for any
\* number of requests that count and save.
THEOREM CountersAreExact == Spec => []FinalCountersExact
PROOF
<1>1. ImportInv => FinalCountersExact
  BY DEF ImportInv, JobOK, Done, FinalCountersExact
<1> QED BY <1>1, Invariance, PTL
-----------------------------------------------------------------------------
(* What a step may do to rows, students and jobs.                          *)

Imported(r) ==
    /\ rows[r].status = "processing" /\ yearOpen
    /\ SettleRow(r, "succeeded")
    /\ students' = [students EXCEPT ![r] = @ + 1]
    /\ jobs' = jobs

Refused(r) ==
    /\ rows[r].status = "processing"
    /\ HasIssues(r) \/ StudentExists(r.signature)
    /\ SettleRow(r, "failed")
    /\ UNCHANGED <<students, jobs>>

Registered(f) ==
    /\ students' = [students EXCEPT ![f] = @ + 1]
    /\ UNCHANGED <<rows, jobs>>

Quiet ==
    /\ students' = students
    /\ \A r \in Rows : \/ rows'[r].status = rows[r].status
                       \/ rows[r].status \notin Settled /\ rows'[r].status \notin Settled
    /\ \A j \in Jobs :
          /\ jobs'[j].succeeded = jobs[j].succeeded /\ jobs'[j].failed = jobs[j].failed
          /\ \/ jobs'[j].status = jobs[j].status
             \/ jobs[j].status \notin Finished /\ jobs'[j].status \notin Finished

LEMMA SourceOfWorker ==
    ASSUME ImportInv, NEW w \in Workers, pc[w] \in Busy
    PROVE  work[w].source \in Rows /\ rows[work[w].source].status = "processing"
PROOF BY DEF ImportInv, WorkerOK

LEMMA Refusal ==
    ASSUME ImportInv, NEW w \in Workers, pc[w] \in Busy, FailRow(w),
           HasIssues(work[w].source) \/ StudentExists(work[w].source.signature)
    PROVE  \E r \in Rows : Refused(r)
PROOF
<1>1. Refused(work[w].source)
  BY SourceOfWorker DEF Refused, FailRow
<1> QED BY <1>1, SourceOfWorker

LEMMA RefusalOrQuiet ==
    ASSUME ImportInv, NEW p \in Processes, pc[p] \in Busy, Refuse(p),
           Guardian(p) # None, accounts[Guardian(p)] = "staff"
    PROVE  (\E r \in Rows : Refused(r)) \/ Quiet
PROOF
<1>1. CASE p \in Workers /\ FailRow(p)
  <2>1. HasIssues(work[p].source)
    BY DEF HasIssues, Guardian
  <2> QED BY <1>1, <2>1, Refusal
<1>2. CASE UNCHANGED database
  BY <1>2 DEF database, Quiet
<1> QED BY <1>1, <1>2 DEF Refuse

LEMMA WorkerEffects ==
    ASSUME ImportInv, NEW w \in Workers, WorkerStep(w)
    PROVE  \/ \E r \in Rows : Imported(r) \/ Refused(r)
           \/ SaveJob(w)
           \/ Quiet
PROOF
<1>1. UNCHANGED database => Quiet
  BY DEF database, Quiet
<1>2. CASE TakeRow(w) \/ CountRows(w)
  BY <1>1, <1>2 DEF TakeRow, CountRows
<1>3. CASE Revalidate(w)
  <2>1. pc[w] \in Busy
    BY <1>3 DEF Revalidate, Busy
  <2>2. CASE RowStatus(work[w].source, {work[w].source}) = "ready"
    BY <1>1, <1>3, <2>2 DEF Revalidate, Advance
  <2>3. CASE RowStatus(work[w].source, {work[w].source}) # "ready"
    <3>1. FailRow(w)
      BY <1>3, <2>3 DEF Revalidate
    <3>2. HasIssues(work[w].source) \/ StudentExists(work[w].source.signature)
      BY <2>3 DEF RowStatus
    <3> QED BY <2>1, <3>1, <3>2, Refusal
  <2> QED BY <2>2, <2>3
<1>4. CASE LockYear(w)
  <2>1. pc[w] \in Busy
    BY <1>4 DEF LockYear, Busy
  <2>2. CASE yearOpen
    BY <1>1, <1>4, <2>2 DEF LockYear, Advance
  <2>3. CASE ~yearOpen
    BY <1>4, <2>1, <2>3, Refusal DEF LockYear, HasIssues
  <2> QED BY <2>2, <2>3
<1>5. CASE FindGuardian(w)
  BY <1>1, <1>5, RefusalOrQuiet, ProcessFacts, Registering DEF FindGuardian, Advance
<1>6. CASE InsertGuardian(w)
  <2>1. Guardian(w) # None
    BY <1>6, Registering, ProcessFacts DEF InsertGuardian
  <2> QED BY <1>1, <1>6, <2>1, RefusalOrQuiet, ProcessFacts, Registering DEF InsertGuardian, Advance
<1>7. CASE CommitRow(w)
  <2>1. pc[w] \in Busy
    BY <1>7 DEF CommitRow, Busy
  <2>2. yearOpen
    BY <1>7 DEF ImportInv, WorkerOK, CommitRow
  <2>3. Imported(work[w].source)
    BY <1>7, <2>1, <2>2, SourceOfWorker DEF CommitRow, Create, Imported
  <2> QED BY <2>1, <2>3, SourceOfWorker
<1> QED BY <1>2, <1>3, <1>4, <1>5, <1>6, <1>7 DEF WorkerStep

LEMMA ClaimQuiet ==
    ASSUME ImportInv, NEW w \in Workers, NEW j \in Jobs, ClaimRows(w, j)
    PROVE  Quiet
PROOF
<1>1. TypeOK
  BY DEF ImportInv
<1>2. \A r \in Batch(j) : rows[r].status \in {"ready", "processing"}
  BY DEF Batch, Eligible
<1> PICK batch : batch = Batch(j)
  OBVIOUS
<1>5. rows' = [r \in Rows |-> IF r \in batch
                             THEN [status |-> "processing", attempts |-> rows[r].attempts + 1,
                                   token |-> rows[r].attempts + 1, lapsed |-> FALSE]
                             ELSE rows[r]]
  BY DEF ClaimRows
<1>3. \A r \in Rows : \/ rows'[r].status = rows[r].status
                      \/ rows[r].status \notin Settled /\ rows'[r].status \notin Settled
  <2>1. \A r \in Rows : r \in batch => rows'[r].status = "processing"
    BY <1>5
  <2>2. \A r \in Rows : r \notin batch => rows'[r] = rows[r]
    BY <1>5
  <2>3. \A r \in batch : rows[r].status \in {"ready", "processing"}
    BY <1>2
  <2> QED BY <2>1, <2>2, <2>3 DEF Settled
<1>4. \A k \in Jobs :
        /\ jobs'[k].succeeded = jobs[k].succeeded /\ jobs'[k].failed = jobs[k].failed
        /\ \/ jobs'[k].status = jobs[k].status
           \/ jobs[k].status \notin Finished /\ jobs'[k].status \notin Finished
  BY <1>1 DEF ClaimRows, TypeOK, Job, Finished
<1> QED BY <1>3, <1>4 DEF Quiet, ClaimRows

LEMMA UploadQuiet ==
    ASSUME ImportInv, NEW j \in Jobs, Upload(j)
    PROVE  Quiet
PROOF
<1>1. TypeOK /\ jobs[j].status = "none" /\ jobs[j].status \notin Started
  BY DEF ImportInv, Upload, Started, Finished
<1>2. \A r \in RowsOf(j) : /\ r \in Rows /\ rows[r] \in RowState
                           /\ rows[r].status \notin Settled
                           /\ RowStatus(r, RowsOf(j)) \notin Settled
  BY <1>1 DEF RowsOf, ImportInv, RowOK, RowStatus, Settled, TypeOK, Row
<1>5. rows' = [r \in Rows |-> IF r \in RowsOf(j)
                             THEN [rows[r] EXCEPT !.status = RowStatus(r, RowsOf(j))]
                             ELSE rows[r]]
  BY DEF Upload
<1>3. \A r \in Rows : \/ rows'[r].status = rows[r].status
                      \/ rows[r].status \notin Settled /\ rows'[r].status \notin Settled
  <2>2. \A r \in Rows : r \notin RowsOf(j) => rows'[r] = rows[r]
    BY <1>5, Zenon
  <2> SUFFICES ASSUME NEW r \in RowsOf(j) PROVE rows'[r].status \notin Settled
    BY <1>2, <2>2
  <2> PICK s : s = RowStatus(r, RowsOf(j))
    OBVIOUS
  <2>1. rows'[r] = [rows[r] EXCEPT !.status = s]
    BY <1>2, <1>5
  <2> QED BY <1>2, <2>1 DEF RowState
<1>4. \A k \in Jobs :
        /\ jobs'[k].succeeded = jobs[k].succeeded /\ jobs'[k].failed = jobs[k].failed
        /\ \/ jobs'[k].status = jobs[k].status
           \/ jobs[k].status \notin Finished /\ jobs'[k].status \notin Finished
  <2> PICK s \in {"ready", "validation_failed"} : jobs' = [jobs EXCEPT ![j].status = s]
    BY DEF Upload
  <2> QED BY <1>1 DEF TypeOK, Job, Finished
<1> QED BY <1>3, <1>4 DEF Quiet, Upload

LEMMA Effects ==
    ASSUME ImportInv, [Next]_vars
    PROVE  \/ \E r \in Rows : Imported(r) \/ Refused(r)
           \/ \E f \in Forms : Registered(f)
           \/ \E w \in Workers : SaveJob(w)
           \/ Quiet
PROOF
<1>1. UNCHANGED <<jobs, rows, students>> => Quiet
  BY DEF Quiet
<1>2. ASSUME NEW j \in Jobs, Upload(j) PROVE Quiet
  BY <1>2, UploadQuiet
<1>3. ASSUME NEW j \in Jobs, NEW w \in Workers, ClaimRows(w, j) PROVE Quiet
  BY <1>3, ClaimQuiet
<1>4. ASSUME NEW w \in Workers, WorkerStep(w)
      PROVE  (\E r \in Rows : Imported(r) \/ Refused(r)) \/ SaveJob(w) \/ Quiet
  BY <1>4, WorkerEffects
<1>5. ASSUME NEW c \in Clerks, ClerkStep(c)
      PROVE  (\E r \in Rows : Refused(r)) \/ (\E f \in Forms : Registered(f)) \/ Quiet
  <2>1. CASE CommitRegistration(c)
    <3>1. work[c].source \in Forms
      BY <2>1 DEF ImportInv, ClerkOK, CommitRegistration
    <3>2. Registered(work[c].source)
      BY <2>1 DEF CommitRegistration, Create, Registered
    <3> QED BY <3>1, <3>2
  <2>2. CASE FindGuardian(c)
    BY <1>1, <2>2, RefusalOrQuiet, ProcessFacts, Registering DEF FindGuardian, Advance, database
  <2>3. CASE InsertGuardian(c)
    BY <1>1, <2>3, RefusalOrQuiet, ProcessFacts, Registering DEF InsertGuardian, Advance, database
  <2> QED BY <1>5, <2>1, <2>2, <2>3 DEF ClerkStep
<1>6. ASSUME NEW c \in Clerks, NEW f \in Forms, StartRegistration(c, f) PROVE Quiet
  BY <1>1, <1>6 DEF StartRegistration, database
<1>7. ASSUME NEW p \in Processes, Abort(p) PROVE Quiet
  BY <1>1, <1>7 DEF Abort, database
<1>8. ASSUME NEW r \in Rows, LeaseLapses(r) PROVE Quiet
  <2>1. \A q \in Rows : rows'[q].status = rows[q].status
    BY <1>8 DEF LeaseLapses, ImportInv, TypeOK, Row, RowState
  <2> QED BY <1>8, <2>1 DEF LeaseLapses, Quiet
<1>9. ASSUME NEW i \in Ids, CreateStaff(i) PROVE Quiet
  BY <1>1, <1>9 DEF CreateStaff
<1>10. CASE ChangeYear
  BY <1>1, <1>10 DEF ChangeYear
<1>11. CASE UNCHANGED vars
  BY <1>1, <1>11 DEF vars, database
<1> QED BY <1>2, <1>3, <1>4, <1>5, <1>6, <1>7, <1>8, <1>9, <1>10, <1>11 DEF Next

LEMMA SettledFacts ==
    ASSUME TypeOK, NEW r \in Rows, NEW s \in Settled, SettleRow(r, s)
    PROVE  /\ rows'[r].status = s
           /\ \A q \in Rows : q # r => rows'[q] = rows[q]
PROOF
<1> DEFINE new == [rows[r] EXCEPT !.status = s, !.token = 0, !.lapsed = FALSE]
<1>1. rows[r] \in RowState
  BY DEF TypeOK, Row
<1>2. new.status = s
  BY <1>1 DEF RowState
<1>3. rows' = [rows EXCEPT ![r] = new]
  BY DEF SettleRow
<1> HIDE DEF new
<1> QED BY <1>2, <1>3 DEF TypeOK

LEMMA StudentsAfter ==
    ASSUME TypeOK, NEW s \in Sources, students' = [students EXCEPT ![s] = @ + 1]
    PROVE  \A r \in Sources : students'[r] = IF r = s THEN students[r] + 1 ELSE students[r]
PROOF BY DEF TypeOK

\* No row is imported into a closed year (the lock and the second look at
\* student_import_row_execution.py:106-124).
THEOREM ClosedYearsStayClosed == Spec => NoneInClosedYear
PROOF
<1>1. ImportInv /\ [Next]_vars =>
        [\A r \in Rows : students'[r] > students[r] => yearOpen]_vars
  <2> SUFFICES ASSUME ImportInv, [Next]_vars, NEW r \in Rows, students'[r] > students[r]
               PROVE  yearOpen
    OBVIOUS
  <2>1. TypeOK /\ students[r] \in Nat /\ r \in Sources
    BY SourceTypes DEF ImportInv, TypeOK
  <2>2. ASSUME NEW q \in Rows, Imported(q) PROVE yearOpen
    BY <2>2 DEF Imported
  <2>3. students' = students => FALSE
    BY <2>1
  <2>4. ASSUME NEW f \in Forms, Registered(f) PROVE FALSE
    BY <2>1, <2>4, StudentsAfter, SourceTypes, ProcessFacts DEF Registered
  <2> QED BY <2>2, <2>3, <2>4, Effects DEF Refused, SaveJob, Quiet
<1> QED BY <1>1, Invariance, PTL DEF Spec, NoneInClosedYear

\* A row that is refused has a reason in the database of that moment
\* (_revalidate, register_student), whoever wins the race for a guardian.
THEOREM RefusalsAreJust == Spec => RefusalsHaveReasons
PROOF
<1>1. ImportInv /\ [Next]_vars =>
        [\A r \in Rows : rows[r].status = "processing" /\ rows'[r].status = "failed" =>
            HasIssues(r) \/ StudentExists(r.signature)]_vars
  <2> SUFFICES ASSUME ImportInv, [Next]_vars, NEW r \in Rows,
                      rows[r].status = "processing", rows'[r].status = "failed"
               PROVE  HasIssues(r) \/ StudentExists(r.signature)
    OBVIOUS
  <2>1. TypeOK /\ "failed" \in Settled /\ "succeeded" \in Settled /\ "processing" \notin Settled
    BY DEF ImportInv, Settled
  <2>2. ASSUME NEW q \in Rows, Imported(q) PROVE FALSE
    BY <2>1, <2>2, SettledFacts DEF Imported
  <2>3. ASSUME NEW q \in Rows, Refused(q) PROVE HasIssues(r) \/ StudentExists(r.signature)
    <3>1. q = r
      BY <2>1, <2>3, SettledFacts DEF Refused
    <3> QED BY <2>3, <3>1 DEF Refused
  <2>4. rows' = rows => FALSE
    OBVIOUS
  <2>5. ~Quiet
    BY <2>1 DEF Quiet
  <2> QED BY <2>2, <2>3, <2>4, <2>5, Effects DEF Registered, SaveJob
<1> QED BY <1>1, Invariance, PTL DEF Spec, RefusalsHaveReasons

LEMMA SavedJob ==
    ASSUME ImportInv, NEW w \in Workers, SaveJob(w)
    PROVE  \E j \in Jobs, s \in Work, status \in Started :
             /\ CountsOK(w, j) /\ s = work[w]
             /\ jobs'[j].status = status
             /\ jobs'[j].succeeded = s.succeeded /\ jobs'[j].failed = s.failed
             /\ \A k \in Jobs : k # j => jobs'[k] = jobs[k]
             /\ jobs[j].status \in Started
             /\ status = IF jobs[j].status = "processing" /\ ~s.open
                        THEN IF s.failed > 0 THEN "completed_with_errors" ELSE "completed"
                        ELSE jobs[j].status
PROOF
<1>1. TypeOK /\ WorkerOK(w) /\ pc[w] \in Counting /\ pc[w] # "idle" /\ w \in Processes
  BY ProcessFacts DEF ImportInv, SaveJob, Counting
<1> PICK j \in Jobs : j = work[w].job
  BY <1>1 DEF WorkerOK
<1> PICK s \in Work : s = work[w]
  BY <1>1 DEF TypeOK
<1> DEFINE value == IF jobs[j].status = "processing" /\ ~s.open
                    THEN IF s.failed > 0 THEN "completed_with_errors" ELSE "completed"
                    ELSE jobs[j].status
           new == [status |-> value, succeeded |-> s.succeeded, failed |-> s.failed]
<1>2. jobs' = [jobs EXCEPT ![j] = new]
  BY DEF SaveJob
<1>3. CountsOK(w, j) /\ jobs[j].status \in Started /\ value \in Started
  BY <1>1 DEF WorkerOK, Started, Finished
<1>4. new.status = value /\ new.succeeded = s.succeeded /\ new.failed = s.failed
  OBVIOUS
<1> HIDE DEF new
<1>5. jobs'[j] = new /\ \A k \in Jobs : k # j => jobs'[k] = jobs[k]
  BY <1>1, <1>2 DEF TypeOK
<1> QED BY <1>3, <1>4, <1>5

\* The progress a client polls never goes back, however many requests count
\* the rows at the same time (_refresh_job).
THEOREM ProgressOnlyGrows == Spec => ProgressNeverGoesBack
PROOF
<1>1. ImportInv /\ [Next]_vars =>
        [\A j \in Jobs : /\ jobs'[j].succeeded >= jobs[j].succeeded
                         /\ jobs'[j].failed >= jobs[j].failed]_vars
  <2> SUFFICES ASSUME ImportInv, [Next]_vars, NEW j \in Jobs
               PROVE  /\ jobs'[j].succeeded >= jobs[j].succeeded
                      /\ jobs'[j].failed >= jobs[j].failed
    OBVIOUS
  <2>1. TypeOK /\ jobs[j].succeeded \in Nat /\ jobs[j].failed \in Nat
    BY DEF ImportInv, TypeOK, Job
  <2>2. ASSUME NEW w \in Workers, SaveJob(w)
        PROVE  /\ jobs'[j].succeeded >= jobs[j].succeeded
               /\ jobs'[j].failed >= jobs[j].failed
    <3>1. PICK k \in Jobs, s \in Work :
            /\ CountsOK(w, k) /\ s = work[w]
            /\ jobs'[k].succeeded = s.succeeded /\ jobs'[k].failed = s.failed
            /\ \A i \in Jobs : i # k => jobs'[i] = jobs[i]
      BY <2>2, SavedJob
    <3>2. CASE k = j
      BY <2>1, <3>1, <3>2 DEF CountsOK, Work
    <3>3. CASE k # j
      BY <2>1, <3>1, <3>3
    <3> QED BY <3>2, <3>3
  <2>3. CASE jobs' = jobs
    BY <2>1, <2>3
  <2>4. CASE Quiet
    BY <2>1, <2>4 DEF Quiet
  <2> QED BY <2>2, <2>3, <2>4, Effects DEF Imported, Refused, Registered
<1> QED BY <1>1, Invariance, PTL DEF Spec, ProgressNeverGoesBack
-----------------------------------------------------------------------------
(* StudentImport implements ImportPromise.                                 *)

Outcome(r) == IF rows[r].status \in Settled THEN rows[r].status ELSE "waiting"
Outcomes == [r \in Rows |-> Outcome(r)]
JobStatus(j) == IF jobs[j].status \in Finished THEN jobs[j].status ELSE "open"
Statuses == [j \in Jobs |-> JobStatus(j)]

LEMMA PromiseVars ==
    ASSUME Outcomes' = Outcomes, students' = students, Statuses' = Statuses
    PROVE  UNCHANGED Promise!vars
PROOF BY DEF Outcomes, Outcome, Statuses, JobStatus, Promise!vars

LEMMA ImportedKeepsPromise ==
    ASSUME ImportInv, NEW r \in Rows, Imported(r)
    PROVE  Promise!Import(r)
PROOF
<1>1. TypeOK /\ "succeeded" \in Settled /\ "processing" \notin Settled /\ RowOK(r) /\ jobs' = jobs
  BY DEF ImportInv, Settled, Imported
<1>2. rows'[r].status = "succeeded" /\ \A q \in Rows : q # r => rows'[q] = rows[q]
  BY <1>1, SettledFacts DEF Imported
<1>3. Outcome(r) = "waiting"
  BY <1>1 DEF Outcome, Imported
<1>4. Outcomes' = [Outcomes EXCEPT ![r] = "succeeded"]
  BY <1>1, <1>2 DEF Outcomes, Outcome
<1>5. students' = [students EXCEPT ![r] = 1]
  BY <1>1 DEF Imported, RowOK
<1>6. Statuses' = Statuses
  BY <1>1 DEF Statuses, JobStatus
<1> QED BY <1>3, <1>4, <1>5, <1>6 DEF Promise!Import, Outcomes, Outcome, Statuses, JobStatus

LEMMA RefusedKeepsPromise ==
    ASSUME ImportInv, NEW r \in Rows, Refused(r)
    PROVE  Promise!Refuse(r)
PROOF
<1>1. TypeOK /\ "failed" \in Settled /\ "processing" \notin Settled /\ jobs' = jobs
  BY DEF ImportInv, Settled, Refused
<1>2. rows'[r].status = "failed" /\ \A q \in Rows : q # r => rows'[q] = rows[q]
  BY <1>1, SettledFacts DEF Refused
<1>3. Outcome(r) = "waiting"
  BY <1>1 DEF Outcome, Refused
<1>4. Outcomes' = [Outcomes EXCEPT ![r] = "failed"]
  BY <1>1, <1>2 DEF Outcomes, Outcome
<1>5. Statuses' = Statuses /\ students' = students
  BY <1>1 DEF Statuses, JobStatus, Refused
<1> QED BY <1>3, <1>4, <1>5 DEF Promise!Refuse, Outcomes, Outcome, Statuses, JobStatus

LEMMA RegisteredKeepsPromise ==
    ASSUME NEW f \in Forms, Registered(f)
    PROVE  Promise!Register(f)
PROOF BY DEF Registered, Promise!Register

LEMMA SaveJobKeepsPromise ==
    ASSUME ImportInv, NEW w \in Workers, SaveJob(w)
    PROVE  (\E j \in Jobs : Promise!Finish(j)) \/ UNCHANGED Promise!vars
PROOF
<1>1. PICK j \in Jobs, s \in Work, status \in Started :
        /\ CountsOK(w, j) /\ s = work[w]
        /\ jobs'[j].status = status
        /\ \A k \in Jobs : k # j => jobs'[k] = jobs[k]
        /\ jobs[j].status \in Started
        /\ status = IF jobs[j].status = "processing" /\ ~s.open
                   THEN IF s.failed > 0 THEN "completed_with_errors" ELSE "completed"
                   ELSE jobs[j].status
  BY SavedJob
<1>2. rows' = rows /\ students' = students /\ Outcomes' = Outcomes
  BY DEF SaveJob, Outcomes, Outcome
<1>3. CASE ~(jobs[j].status = "processing" /\ ~s.open)
  <2>1. Statuses' = Statuses
    BY <1>1, <1>3 DEF Statuses, JobStatus
  <2> QED BY <1>2, <2>1, PromiseVars
<1>4. CASE jobs[j].status = "processing" /\ ~s.open
  <2> DEFINE final == IF \E r \in RowsOf(j) : rows[r].status = "failed"
                      THEN "completed_with_errors" ELSE "completed"
  <2>1. AllSettled(j) /\ s.failed = Done(j, "failed")
    BY <1>1, <1>4 DEF CountsOK
  <2>2. s.failed > 0 <=> \E r \in RowsOf(j) : rows[r].status = "failed"
    <3>1. IsFiniteSet(InStatus(j, {"failed"})) /\ Cardinality(InStatus(j, {"failed"})) \in Nat
      BY DoneFinite
    <3>2. Cardinality(InStatus(j, {"failed"})) = 0 <=> InStatus(j, {"failed"}) = {}
      BY <3>1, FS_EmptySet
    <3>3. InStatus(j, {"failed"}) # {} <=> \E r \in RowsOf(j) : rows[r].status = "failed"
      BY DEF InStatus
    <3> QED BY <2>1, <3>1, <3>2, <3>3 DEF Done
  <2>3. jobs'[j].status = final
    BY <1>1, <1>4, <2>2
  <2>4. JobStatus(j) = "open" /\ final \in Finished
    BY <1>4 DEF JobStatus, Finished
  <2>5. Statuses' = [Statuses EXCEPT ![j] = final]
    BY <1>1, <2>3, <2>4 DEF Statuses, JobStatus
  <2> DEFINE results == {Outcomes[r] : r \in {q \in Rows : q.job = j}}
  <2>6. "waiting" \notin results
    BY <2>1 DEF AllSettled, RowsOf, Outcomes, Outcome, Settled
  <2>7. "failed" \in results <=> \E r \in RowsOf(j) : rows[r].status = "failed"
    BY <2>1 DEF AllSettled, RowsOf, Outcomes, Outcome, Settled
  <2>8. /\ Statuses[j] = "open" /\ "waiting" \notin results
        /\ Statuses' = [Statuses EXCEPT ![j] =
                           IF "failed" \in results THEN "completed_with_errors" ELSE "completed"]
        /\ UNCHANGED <<Outcomes, students>>
    BY <1>2, <2>4, <2>5, <2>6, <2>7 DEF Statuses
  <2> HIDE DEF final
  <2>9. Promise!Finish(j)
    BY <2>8 DEF Promise!Finish, Outcomes, Outcome, Statuses, JobStatus
  <2> QED BY <2>9
<1> QED BY <1>3, <1>4

LEMMA QuietKeepsPromise ==
    ASSUME ImportInv, Quiet
    PROVE  UNCHANGED Promise!vars
PROOF
<1>1. Outcomes' = Outcomes
  BY DEF Outcomes, Outcome, Quiet
<1>2. Statuses' = Statuses
  BY DEF Statuses, JobStatus, Quiet
<1> QED BY <1>1, <1>2, PromiseVars DEF Quiet

\* Each row is imported or refused once, for good, with one student or none,
\* and a job is finished on the evidence of all its rows, for any number of
\* jobs, rows and requests, with crashes and lapsed leases
\* (process_next_batch, register_student).
THEOREM ImportKeepsPromise == Spec => ImplementsPromise
PROOF
<1>1. Init => Promise!Init
  <2> SUFFICES ASSUME Init PROVE Promise!Init
    OBVIOUS
  <2>1. /\ \A r \in Rows : rows[r].status \notin Settled
        /\ \A j \in Jobs : jobs[j].status \notin Finished
        /\ students = [s \in Rows \cup Forms |-> 0]
    BY DEF Init, Settled, Finished, Sources
  <2> QED BY <2>1 DEF Promise!Init
<1>2. ImportInv /\ [Next]_vars => [Promise!Next]_(Promise!vars)
  <2> SUFFICES ASSUME ImportInv, [Next]_vars PROVE Promise!Next \/ UNCHANGED Promise!vars
    OBVIOUS
  <2>1. ASSUME NEW r \in Rows, Imported(r) \/ Refused(r) PROVE Promise!Next
    BY <2>1, ImportedKeepsPromise, RefusedKeepsPromise DEF Promise!Next
  <2>2. ASSUME NEW f \in Forms, Registered(f) PROVE Promise!Next
    BY <2>2, RegisteredKeepsPromise DEF Promise!Next
  <2>3. ASSUME NEW w \in Workers, SaveJob(w) PROVE Promise!Next \/ UNCHANGED Promise!vars
    BY <2>3, SaveJobKeepsPromise DEF Promise!Next
  <2> QED BY <2>1, <2>2, <2>3, QuietKeepsPromise, Effects
<1> QED BY <1>1, <1>2, Invariance, PTL DEF Spec, ImplementsPromise, Promise!Spec
=============================================================================
