----------------------------- MODULE StudentImport -----------------------------
(***************************************************************************)
(* Importing students from a spreadsheet: a job's rows are claimed under   *)
(* leases and executed batch by batch by the requests that ask for the     *)
(* next batch, beside registrations of single students.                    *)
(*                                                                         *)
(* Sources: students/student_import_job_service.py, _batch_service.py,     *)
(* _row_execution.py, _reference_validation.py, and register_student of    *)
(* students/services.py.                                                   *)
(***************************************************************************)
EXTENDS Integers, FiniteSets

CONSTANTS
    Jobs,           \* uploaded files
    Rows,           \* their rows: [job, number, signature, guardian]
    Forms,          \* registrations of single students: [signature, guardian]
    Ids,            \* national ids of guardians
    None,           \* a student without guardian, no job
    Workers,        \* requests for the next batch that may run at a time
    Clerks,         \* registrations that may run at a time
    Nobody,         \* holder of a free lock
    BatchSize,
    MaxFaults,      \* exceptions, crashes and leases that run out too early
    MaxRegistered   \* students one form may register

ASSUME ImportAssumption ==
    /\ IsFiniteSet(Rows) /\ IsFiniteSet(Workers)
    /\ \A r \in Rows : /\ r.job \in Jobs /\ r.number \in Nat
                       /\ r.guardian \in Ids \cup {None}
                       /\ \A q \in Rows : r.job = q.job /\ r.number = q.number => r = q
    /\ \A f \in Forms : f.guardian \in Ids \cup {None}
    /\ None \notin Ids /\ None \notin Jobs /\ None \notin Rows \cup Forms
    /\ Workers \cap Clerks = {} /\ Nobody \notin Workers \cup Clerks
    /\ Rows \cap Forms = {}
    /\ BatchSize \in Nat \ {0} /\ MaxFaults \in Nat /\ MaxRegistered \in Nat

VARIABLES
    jobs,       \* status and counters of a job
    rows,       \* status, attempt_count and lease of a row
    students,   \* how many students were created from a row or a form
    accounts,   \* who has a national id: nobody, a guardian, or other staff
    yearOpen,   \* the academic year of the rows is not closed
    lock,       \* who holds a row lock or an uncommitted account
    pc, work,   \* what a request does, and what it remembers
    faults      \* faults so far

database == <<jobs, rows, students, accounts, yearOpen>>
vars == <<database, lock, pc, work, faults>>

Processes == Workers \cup Clerks
Sources == Rows \cup Forms

RowLock(r) == <<"row", r>>
JobLock(j) == <<"job", j>>
IdLock(i) == <<"id", i>>
YearLock == <<"year", None>>
Items == ({"row"} \X Rows) \cup ({"job"} \X Jobs) \cup ({"id"} \X Ids) \cup {YearLock}

Settled == {"succeeded", "failed"}
Finished == {"completed", "completed_with_errors"}

\* A lease token is drawn anew for each attempt, so the attempt names it; 0 is
\* no token.
RowState == [status : {"none", "ready", "review_required", "invalid", "processing"} \cup Settled,
             attempts : Nat, token : Nat, lapsed : BOOLEAN]
Row == {r \in RowState : r.token # 0 <=> r.status = "processing"}
Job == [status : {"none", "validation_failed", "ready", "processing"} \cup Finished,
        succeeded : Nat, failed : Nat]
Claim == [row : Rows, token : Nat]
Work == [job : Jobs \cup {None}, claims : SUBSET Claim, source : Sources \cup {None},
         succeeded : Nat, failed : Nat, open : BOOLEAN]

NoWork == [job |-> None, claims |-> {}, source |-> None,
           succeeded |-> 0, failed |-> 0, open |-> FALSE]

TypeOK ==
    /\ jobs \in [Jobs -> Job]
    /\ rows \in [Rows -> Row]
    /\ students \in [Sources -> Nat]
    /\ accounts \in [Ids -> {"none", "guardian", "staff"}]
    /\ yearOpen \in BOOLEAN
    /\ lock \in [Items -> Processes \cup {Nobody}]
    /\ pc \in [Processes -> {"idle", "next", "revalidate", "place", "guardian", "insert",
                             "create", "refresh", "counted", "closing"}]
    /\ work \in [Processes -> Work]
    /\ faults \in 0..MaxFaults

Init ==
    /\ jobs = [j \in Jobs |-> [status |-> "none", succeeded |-> 0, failed |-> 0]]
    /\ rows = [r \in Rows |->
                 [status |-> "none", attempts |-> 0, token |-> 0, lapsed |-> FALSE]]
    /\ students = [s \in Sources |-> 0]
    /\ accounts = [i \in Ids |-> "none"]
    /\ yearOpen = TRUE
    /\ lock = [x \in Items |-> Nobody]
    /\ pc = [p \in Processes |-> "idle"]
    /\ work = [p \in Processes |-> NoWork]
    /\ faults = 0
-----------------------------------------------------------------------------
Free(x) == lock[x] = Nobody
Release(p) == [x \in Items |-> IF lock[x] = p THEN Nobody ELSE lock[x]]

RowsOf(j) == {r \in Rows : r.job = j}
InStatus(j, S) == {r \in RowsOf(j) : rows[r].status \in S}

\* The guardian of the row or form a process is working on.
Guardian(p) == work[p].source.guardian
-----------------------------------------------------------------------------
(* Upload and validation                                                   *)

\* _student_signature: names, birth date and gender.
StudentExists(signature) == \E s \in Sources : students[s] > 0 /\ s.signature = signature

\* What is wrong with a row on its own.
HasIssues(r) ==
    \/ ~yearOpen
    \/ r.guardian # None /\ accounts[r.guardian] = "staff"

RowStatus(r, file) ==
    IF HasIssues(r) THEN "invalid"
    ELSE IF \/ StudentExists(r.signature)
            \/ \E q \in file : q # r /\ q.signature = r.signature
         THEN "review_required"
         ELSE "ready"

\* A file is imported as a whole: one row that is not ready stops it.
Upload(j) ==
    /\ jobs[j].status = "none"
    /\ LET file == RowsOf(j)
           ready == file # {} /\ \A r \in file : RowStatus(r, file) = "ready"
       IN /\ jobs' = [jobs EXCEPT ![j].status = IF ready THEN "ready" ELSE "validation_failed"]
          /\ rows' = [r \in Rows |->
                        IF r \in file THEN [rows[r] EXCEPT !.status = RowStatus(r, file)] ELSE rows[r]]
    /\ UNCHANGED <<students, accounts, yearOpen, lock, pc, work, faults>>
-----------------------------------------------------------------------------
(* process_next_batch: claim                                               *)

Processable(j) ==
    \/ jobs[j].status \in Finished
    \/ jobs[j].status = "ready" /\ RowsOf(j) # {} /\ InStatus(j, {"ready"}) = RowsOf(j)
    \/ jobs[j].status = "processing"
       /\ InStatus(j, {"ready", "processing"} \cup Settled) = RowsOf(j)

\* Mutant: only rows nobody has claimed yet are claimed.
EligibleOnce(j) ==
    IF jobs[j].status \in Finished THEN {}
    ELSE {r \in RowsOf(j) : Free(RowLock(r)) /\ rows[r].status = "ready"}

Eligible(j) ==
    IF jobs[j].status \in Finished THEN {}
    ELSE {r \in RowsOf(j) :
            /\ Free(RowLock(r))
            /\ \/ rows[r].status = "ready"
               \/ rows[r].status = "processing" /\ rows[r].lapsed}

Batch(j) == {r \in Eligible(j) : Cardinality({q \in Eligible(j) : q.number < r.number}) < BatchSize}

ClaimRows(w, j) ==
    /\ pc[w] = "idle"
    /\ Free(JobLock(j)) /\ Processable(j)
    /\ jobs' = [jobs EXCEPT ![j].status = IF @ \in Finished THEN @ ELSE "processing"]
    /\ rows' = [r \in Rows |->
                  IF r \in Batch(j)
                  THEN [status |-> "processing", attempts |-> rows[r].attempts + 1,
                        token |-> rows[r].attempts + 1, lapsed |-> FALSE]
                  ELSE rows[r]]
    /\ pc' = [pc EXCEPT ![w] = "next"]
    /\ work' = [work EXCEPT ![w] =
                  [NoWork EXCEPT !.job = j,
                                 !.claims = {[row |-> r, token |-> rows[r].attempts + 1] :
                                                r \in Batch(j)}]]
    /\ UNCHANGED <<students, accounts, yearOpen, lock, faults>>
-----------------------------------------------------------------------------
(* _execute_claimed_row and _create_student_for_import_row                 *)

HoldsLease(c) ==
    rows[c.row].status = "processing" /\ rows[c.row].token = c.token /\ ~rows[c.row].lapsed

\* The end of a row's transaction.
EndRow(w) ==
    /\ work' = [work EXCEPT ![w].source = None]
    /\ pc' = [pc EXCEPT ![w] = "refresh"]
    /\ lock' = Release(w)

\* Rows are executed in the order of the file.  A row whose lease is lost is
\* passed over.
TakeRow(w) ==
    /\ pc[w] = "next"
    /\ \E c \in work[w].claims :
         /\ \A d \in work[w].claims : c.row.number <= d.row.number
         /\ Free(RowLock(c.row))
         /\ \/ /\ HoldsLease(c)
               /\ lock' = [lock EXCEPT ![RowLock(c.row)] = w]
               /\ pc' = [pc EXCEPT ![w] = "revalidate"]
               /\ work' = [work EXCEPT ![w] = [work[w] EXCEPT !.claims = @ \ {c}, !.source = c.row]]
            \/ /\ ~HoldsLease(c)
               /\ pc' = [pc EXCEPT ![w] = "refresh"]
               /\ work' = [work EXCEPT ![w].claims = @ \ {c}]
               /\ UNCHANGED lock
    /\ UNCHANGED <<database, faults>>

\* Mutant: the lease is not cleared.
SettleRowLeased(r, status) ==
    rows' = [rows EXCEPT ![r].status = status]

SettleRow(r, status) ==
    rows' = [rows EXCEPT ![r] = [@ EXCEPT !.status = status, !.token = 0, !.lapsed = FALSE]]

\* An expected failure: everything created for the row is rolled back to the
\* savepoint and the failure is stored.
FailRow(w) ==
    /\ SettleRow(work[w].source, "failed")
    /\ EndRow(w)
    /\ UNCHANGED <<jobs, students, accounts, yearOpen>>

Advance(p, stage) == pc' = [pc EXCEPT ![p] = stage] /\ UNCHANGED <<database, work>>

\* _revalidate: the school may have changed since the upload.  It takes no lock.
Revalidate(w) ==
    /\ pc[w] = "revalidate"
    /\ LET r == work[w].source
       IN IF RowStatus(r, {r}) = "ready"
          THEN Advance(w, "place") /\ UNCHANGED lock
          ELSE FailRow(w)
    /\ UNCHANGED faults

\* Mutant: the year is neither locked nor compared again.
LockYearTrusting(w) ==
    /\ pc[w] = "place"
    /\ Advance(w, "guardian") /\ UNCHANGED <<lock, faults>>

\* The academic year and the section are locked and compared again.
LockYear(w) ==
    /\ pc[w] = "place"
    /\ Free(YearLock)
    /\ IF yearOpen
       THEN lock' = [lock EXCEPT ![YearLock] = w] /\ Advance(w, "guardian")
       ELSE FailRow(w)
    /\ UNCHANGED faults
-----------------------------------------------------------------------------
(* register_student, called by an import row or by a registration          *)

EndRegistration(c) ==
    /\ pc' = [pc EXCEPT ![c] = "idle"]
    /\ work' = [work EXCEPT ![c] = NoWork]
    /\ lock' = Release(c)

Refuse(p) ==
    \/ p \in Workers /\ FailRow(p)
    \/ p \in Clerks /\ EndRegistration(p) /\ UNCHANGED database

StartRegistration(c, f) ==
    /\ pc[c] = "idle" /\ students[f] < MaxRegistered
    /\ pc' = [pc EXCEPT ![c] = "guardian"]
    /\ work' = [work EXCEPT ![c] = [NoWork EXCEPT !.source = f]]
    /\ UNCHANGED <<database, lock, faults>>

\* The account with the guardian's national id is looked up among the
\* committed ones.
FindGuardian(p) ==
    /\ pc[p] = "guardian"
    /\ LET i == Guardian(p)
       IN \/ /\ i # None /\ accounts[i] = "staff"
             /\ Refuse(p)
          \/ /\ i # None /\ accounts[i] = "none"
             /\ Advance(p, "insert") /\ UNCHANGED lock
          \/ /\ i # None => accounts[i] = "guardian"
             /\ Advance(p, "create") /\ UNCHANGED lock
    /\ UNCHANGED faults

\* Mutant: an IntegrityError of the insert refuses the student.
InsertGuardianOnce(p) ==
    /\ pc[p] = "insert"
    /\ LET i == Guardian(p)
       IN /\ Free(IdLock(i))
          /\ IF accounts[i] = "none"
             THEN lock' = [lock EXCEPT ![IdLock(i)] = p] /\ Advance(p, "create")
             ELSE Refuse(p)
    /\ UNCHANGED faults

\* The insert waits for an uncommitted account with the same national id.  If
\* that one is there now, the unique constraint makes the insert fail and the
\* winner is linked.
InsertGuardian(p) ==
    /\ pc[p] = "insert"
    /\ LET i == Guardian(p)
       IN /\ Free(IdLock(i))
          /\ \/ /\ accounts[i] = "none"
                /\ lock' = [lock EXCEPT ![IdLock(i)] = p] /\ Advance(p, "create")
             \/ /\ accounts[i] = "guardian"
                /\ Advance(p, "create") /\ UNCHANGED lock
             \/ /\ accounts[i] = "staff"
                /\ Refuse(p)
    /\ UNCHANGED faults

\* The student, with guardian, enrollment and account, is there at the commit.
Create(p) ==
    /\ students' = [students EXCEPT ![work[p].source] = @ + 1]
    /\ accounts' = [i \in Ids |-> IF lock[IdLock(i)] = p THEN "guardian" ELSE accounts[i]]
    /\ UNCHANGED <<jobs, yearOpen, faults>>

CommitRegistration(c) ==
    /\ c \in Clerks /\ pc[c] = "create"
    /\ Create(c) /\ EndRegistration(c)
    /\ UNCHANGED rows

CommitRow(w) ==
    /\ w \in Workers /\ pc[w] = "create"
    /\ Create(w) /\ SettleRow(work[w].source, "succeeded") /\ EndRow(w)
-----------------------------------------------------------------------------
(* _refresh_job: after each row, and once at the end of the batch          *)

\* Mutant: the job is read without select_for_update.
CountRowsUnlocked(w) ==
    /\ \/ pc[w] = "refresh"
       \/ pc[w] = "next" /\ work[w].claims = {}
    /\ LET j == work[w].job
       IN work' = [work EXCEPT ![w] =
                     [@ EXCEPT !.succeeded = Cardinality(InStatus(j, {"succeeded"})),
                               !.failed = Cardinality(InStatus(j, {"failed"})),
                               !.open = InStatus(j, {"ready", "processing"}) # {}]]
    /\ pc' = [pc EXCEPT ![w] = IF @ = "refresh" THEN "counted" ELSE "closing"]
    /\ UNCHANGED <<database, lock, faults>>

CountRows(w) ==
    /\ \/ pc[w] = "refresh"
       \/ pc[w] = "next" /\ work[w].claims = {}
    /\ LET j == work[w].job
       IN /\ Free(JobLock(j))
          /\ lock' = [lock EXCEPT ![JobLock(j)] = w]
          /\ work' = [work EXCEPT ![w] =
                        [@ EXCEPT !.succeeded = Cardinality(InStatus(j, {"succeeded"})),
                                  !.failed = Cardinality(InStatus(j, {"failed"})),
                                  !.open = InStatus(j, {"ready", "processing"}) # {}]]
    /\ pc' = [pc EXCEPT ![w] = IF @ = "refresh" THEN "counted" ELSE "closing"]
    /\ UNCHANGED <<database, faults>>

\* Mutant: the job is finished when its batch is, whatever rows are left.
SaveJobEarly(w) ==
    /\ pc[w] \in {"counted", "closing"}
    /\ LET s == work[w]
           status == IF s.failed > 0 THEN "completed_with_errors" ELSE "completed"
       IN jobs' = [jobs EXCEPT ![s.job] =
                     [status |-> IF @.status = "processing" /\ s.claims = {} THEN status ELSE @.status,
                      succeeded |-> s.succeeded, failed |-> s.failed]]
    /\ pc' = [pc EXCEPT ![w] = IF @ = "counted" THEN "next" ELSE "idle"]
    /\ work' = [work EXCEPT ![w] = IF pc[w] = "counted" THEN @ ELSE NoWork]
    /\ lock' = Release(w)
    /\ UNCHANGED <<rows, students, accounts, yearOpen, faults>>

SaveJob(w) ==
    /\ pc[w] \in {"counted", "closing"}
    /\ LET s == work[w]
           status == IF s.failed > 0 THEN "completed_with_errors" ELSE "completed"
       IN jobs' = [jobs EXCEPT ![s.job] =
                     [status |-> IF @.status = "processing" /\ ~s.open THEN status ELSE @.status,
                      succeeded |-> s.succeeded, failed |-> s.failed]]
    /\ pc' = [pc EXCEPT ![w] = IF @ = "counted" THEN "next" ELSE "idle"]
    /\ work' = [work EXCEPT ![w] = IF pc[w] = "counted" THEN @ ELSE NoWork]
    /\ lock' = Release(w)
    /\ UNCHANGED <<rows, students, accounts, yearOpen, faults>>
-----------------------------------------------------------------------------
(* Faults, time and other requests                                         *)

\* An exception nobody expects, or a crash: the transaction is rolled back and
\* the request, with the rest of its batch, is gone.
Abort(p) ==
    /\ pc[p] # "idle" /\ faults < MaxFaults
    /\ pc' = [pc EXCEPT ![p] = "idle"]
    /\ work' = [work EXCEPT ![p] = NoWork]
    /\ lock' = Release(p)
    /\ faults' = faults + 1
    /\ UNCHANGED database

Claimed(r) ==
    \E w \in Workers :
        work[w].source = r \/ [row |-> r, token |-> rows[r].token] \in work[w].claims

\* LEASE_DURATION has passed since the claim.
LeaseLapses(r) ==
    /\ rows[r].status = "processing" /\ ~rows[r].lapsed
    /\ Claimed(r) => faults < MaxFaults
    /\ faults' = IF Claimed(r) THEN faults + 1 ELSE faults
    /\ rows' = [rows EXCEPT ![r].lapsed = TRUE]
    /\ UNCHANGED <<jobs, students, accounts, yearOpen, lock, pc, work>>

\* The year is closed or opened again; its UPDATE waits for the row lock.
ChangeYear ==
    /\ Free(YearLock)
    /\ yearOpen' = ~yearOpen
    /\ UNCHANGED <<jobs, rows, students, accounts, lock, pc, work, faults>>

\* A member of staff gets an account with the national id.
CreateStaff(i) ==
    /\ accounts[i] = "none" /\ Free(IdLock(i))
    /\ accounts' = [accounts EXCEPT ![i] = "staff"]
    /\ UNCHANGED <<jobs, rows, students, yearOpen, lock, pc, work, faults>>
-----------------------------------------------------------------------------
WorkerStep(w) ==
    \/ TakeRow(w) \/ Revalidate(w) \/ LockYear(w) \/ FindGuardian(w) \/ InsertGuardian(w)
    \/ CommitRow(w) \/ CountRows(w) \/ SaveJob(w)

ClerkStep(c) == FindGuardian(c) \/ InsertGuardian(c) \/ CommitRegistration(c)

Next ==
    \/ \E j \in Jobs : Upload(j) \/ \E w \in Workers : ClaimRows(w, j)
    \/ \E w \in Workers : WorkerStep(w)
    \/ \E c \in Clerks : ClerkStep(c) \/ \E f \in Forms : StartRegistration(c, f)
    \/ \E p \in Processes : Abort(p)
    \/ \E r \in Rows : LeaseLapses(r)
    \/ \E i \in Ids : CreateStaff(i)
    \/ ChangeYear

Spec == Init /\ [][Next]_vars

\* A request that can go on does, locks are granted in the order of their
\* waiters, time passes, and somebody asks for the next batch of a job that is
\* not finished.
AskFor(j) == jobs[j].status \notin Finished /\ \E w \in Workers : ClaimRows(w, j)

FairSpec ==
    /\ Spec
    /\ \A w \in Workers : SF_vars(WorkerStep(w))
    /\ \A c \in Clerks : SF_vars(ClerkStep(c))
    /\ \A r \in Rows : WF_vars(LeaseLapses(r))
    /\ \A j \in Jobs : SF_vars(AskFor(j))
-----------------------------------------------------------------------------
(* Properties                                                              *)

\* Each row is imported or refused once, for good, and a job is finished on
\* the evidence of all its rows: StudentImport implements ImportPromise.
Promise == INSTANCE ImportPromise WITH
    outcome <- [r \in Rows |-> IF rows[r].status \in Settled THEN rows[r].status ELSE "waiting"],
    status <- [j \in Jobs |-> IF jobs[j].status \in Finished THEN jobs[j].status ELSE "open"]

ImplementsPromise == Promise!Spec

\* The counters of a finished job are those of its rows, although any number
\* of requests counted and saved them at the same time.
FinalCountersExact ==
    \A j \in Jobs : jobs[j].status \in Finished =>
        /\ jobs[j].succeeded = Cardinality(InStatus(j, {"succeeded"}))
        /\ jobs[j].failed = Cardinality(InStatus(j, {"failed"}))

\* The progress a client polls never goes back.
ProgressNeverGoesBack ==
    [][\A j \in Jobs : /\ jobs'[j].succeeded >= jobs[j].succeeded
                       /\ jobs'[j].failed >= jobs[j].failed]_vars

\* No row of an import enrolls a student in a closed year.
NoneInClosedYear ==
    [][\A r \in Rows : students'[r] > students[r] => yearOpen]_vars

\* A row is refused for what the school holds at that moment, never because
\* it lost a race for its guardian's account.
RefusalsHaveReasons ==
    [][\A r \in Rows : rows[r].status = "processing" /\ rows'[r].status = "failed" =>
          HasIssues(r) \/ StudentExists(r.signature)]_vars

\* A row does not duplicate a student who is there already ("new student
\* suspicion discovered at execution blocks row",
\* students/test_student_import_row_execution.py:239).
NoDuplicateImport ==
    [][\A r \in Rows : students'[r] > students[r] => ~StudentExists(r.signature)]_vars

\* Every job that starts finishes, although batches are aborted and leases run
\* out.
JobsFinish ==
    \A j \in Jobs : jobs[j].status \in {"ready", "processing"} ~> jobs[j].status \in Finished
=============================================================================
