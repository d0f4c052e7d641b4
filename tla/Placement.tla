------------------------------ MODULE Placement ------------------------------
(* Where students are placed and what is recorded about them there: the      *)
(* enrollments with their audit log (students/services.py, students/views),  *)
(* the attendance sheets of the sections (attendance/services.py) and the    *)
(* scores of one exam (grades/services.py).                                  *)
(*                                                                           *)
(* A transaction is a step for what it reads before it has its row locks, a  *)
(* step for taking them, and a last one that makes its writes visible.       *)
EXTENDS Naturals, Sequences, FiniteSets, FiniteSetsExt, SequencesExt

CONSTANTS
    Enrollments,  \* a student in the school year
    Sections,
    GradeOf,      \* the grade level of a section
    Tx,           \* transactions that run at the same time
    LastDay,
    ExamDay,      \* assessment_date of the exam, given in every section
    MaxMoves,     \* bound on the audit log of an enrollment
    Scenarios,    \* who is enrolled where at first, the operations that occur
                  \* together and the last day of a behaviour (bounds)
    None

Days == 1..LastDay
Operations == {"enroll", "patch", "delete", "transfer", "correct", "sheet", "score"}

ASSUME PlacementAssumption ==
    /\ GradeOf \in [Sections -> Nat]
    /\ LastDay \in Nat /\ ExamDay \in Days
    /\ Scenarios \subseteq [placed : [Enrollments -> Sections \cup {None}],
                           ops : SUBSET Operations, last : Days]
    /\ None \notin Sections \cup Enrollments \cup Tx

VARIABLES
    section,     \* of an enrollment, None: there is no such row
    since,       \* enrollment_date, 0: not enrolled yet
    log,         \* StudentAuditLog of an enrollment, oldest first
    records,     \* attendance records, as [section, day, who]
    score,       \* recorded_section of the score of an enrollment, or None
    today,
    pc, job,
    yearLock,    \* the locks of transfers and corrections include the school year
    rowLock,     \* SELECT FOR UPDATE and UPDATE of an enrollment
    sectionLock,
    examLock,    \* SELECT FOR UPDATE of the assessment
    scenario,
    stay,        \* ghost: the sections a student was in on a day, in order
    rewound      \* ghost: enrollments over whose section a PATCH wrote an old one

vars == <<section, since, log, records, score, today, pc, job,
          yearLock, rowLock, sectionLock, examLock, scenario, stay, rewound>>
tables == <<section, since, log, records, score, stay, rewound>>
locks == <<yearLock, rowLock, sectionLock, examLock>>

Moves == [event : {"transfer", "correct"}, old : Sections, new : Sections, day : Days]
Records == [section : Sections, day : Days, who : Enrollments]
NoJob == [of |-> None, section |-> None, to |-> None, roster |-> {}]

Idle(t) == pc[t] = "idle"

\* A transaction begins: o is the operation, j what it has read so far.
Begin(t, o, label, j) ==
    /\ Idle(t) /\ o \in scenario.ops
    /\ pc' = [pc EXCEPT ![t] = label]
    /\ job' = [job EXCEPT ![t] = j]
    /\ UNCHANGED <<tables, today, locks, scenario>>

Goto(t, label) == pc' = [pc EXCEPT ![t] = label]

\* The end of a transaction, with or without effect, releases its locks.
Finish(t) ==
    /\ pc' = [pc EXCEPT ![t] = "idle"]
    /\ job' = [job EXCEPT ![t] = NoJob]
    /\ yearLock' = IF yearLock = t THEN None ELSE yearLock
    /\ rowLock' = [e \in Enrollments |-> IF rowLock[e] = t THEN None ELSE rowLock[e]]
    /\ sectionLock' = [s \in Sections |-> IF sectionLock[s] = t THEN None ELSE sectionLock[s]]
    /\ examLock' = IF examLock = t THEN None ELSE examLock
    /\ UNCHANGED <<today, scenario>>

Refuse(t) == Finish(t) /\ UNCHANGED tables

\* A validation error elsewhere, a deadlock or a lost connection.
Abort(t) == ~Idle(t) /\ Refuse(t)

\* The deferred foreign key check at commit waits while the row is locked.
Referable(t, s) == sectionLock[s] \in {None, t}
Writable(t, e) == rowLock[e] \in {None, t}

-----------------------------------------------------------------------------
(* Enrollments *)

\* The unique constraint on student and school year admits one row; who was
\* removed from the year is not enrolled in it once more (a bound).
NeverEnrolled(e) == since[e] = 0

Enroll(t, e, s) ==
    /\ Idle(t) /\ "enroll" \in scenario.ops
    /\ NeverEnrolled(e)
    /\ Referable(t, s)
    /\ section' = [section EXCEPT ![e] = s]
    /\ since' = [since EXCEPT ![e] = today]
    /\ stay' = [stay EXCEPT ![e] = [d \in Days |-> IF d = today THEN <<s>> ELSE <<>>]]
    /\ UNCHANGED <<log, records, score, today, pc, job, locks, scenario, rewound>>

StartPatch(t, e) ==
    /\ section[e] # None
    /\ Begin(t, "patch", "patch", [NoJob EXCEPT !.of = e, !.section = section[e]])

\* ModelSerializer.update saves every column of the copy get_object returned;
\* a row that was deleted meanwhile is inserted again, and a section that was
\* changed meanwhile is changed back, without a word in the log.
Patch(t) ==
    LET e == job[t].of
        s == job[t].section
    IN  /\ pc[t] = "patch"
        /\ Writable(t, e) /\ Referable(t, s)
        /\ section' = [section EXCEPT ![e] = s]
        /\ stay' = IF section[e] # None THEN stay
                   ELSE [stay EXCEPT ![e] = [d \in Days |-> IF d \in since[e]..today THEN <<s>> ELSE <<>>]]
        /\ rewound' = IF section[e] \in {None, s} THEN rewound ELSE rewound \cup {e}
        /\ Finish(t)
        /\ UNCHANGED <<since, log, records, score>>

Referenced(e) ==
    \/ log[e] # <<>>
    \/ score[e] # None
    \/ \E r \in records : r.who = e

StartDelete(t, e) ==
    /\ section[e] # None /\ ~Referenced(e)
    /\ Begin(t, "delete", "delete", [NoJob EXCEPT !.of = e])

\* The foreign keys of rows inserted meanwhile are checked again at commit.
Delete(t) ==
    LET e == job[t].of IN
    /\ pc[t] = "delete"
    /\ Writable(t, e)
    /\ IF Referenced(e)
       THEN Refuse(t)
       ELSE /\ section' = [section EXCEPT ![e] = None]
            /\ stay' = [stay EXCEPT ![e] = [d \in Days |-> <<>>]]
            /\ Finish(t)
            /\ UNCHANGED <<since, log, records, score, rewound>>

-----------------------------------------------------------------------------
(* transfer_student_between_sections and correct_enrollment_placement *)

StartTransfer(t, e, s) ==
    /\ section[e] # None
    /\ Begin(t, "transfer", "lock transfer", [NoJob EXCEPT !.of = e, !.section = section[e], !.to = s])

StartCorrect(t, e, s) ==
    /\ section[e] # None
    /\ Begin(t, "correct", "lock correct", [NoJob EXCEPT !.of = e, !.section = section[e], !.to = s])

TransferAllowed(e, s) ==
    /\ section[e] # s
    /\ GradeOf[section[e]] = GradeOf[s]

\* Mutant: the enrollment is read without FOR UPDATE.
ReadPlacement(t) == UNCHANGED locks

\* select_related joins the year and the section into the SELECT FOR UPDATE.
TakePlacement(t) ==
    /\ yearLock = None
    /\ Writable(t, job[t].of)
    /\ Referable(t, job[t].section)
    /\ yearLock' = t
    /\ rowLock' = [rowLock EXCEPT ![job[t].of] = t]
    /\ sectionLock' = [sectionLock EXCEPT ![job[t].section] = t]
    /\ UNCHANGED examLock

\* A row that moved while the SELECT waited no longer matches its join.
LockTransfer(t) ==
    LET e == job[t].of IN
    /\ pc[t] = "lock transfer"
    /\ IF section[e] # job[t].section \/ ~TransferAllowed(e, job[t].to)
       THEN Refuse(t)
       ELSE /\ TakePlacement(t)
            /\ Goto(t, "transfer")
            /\ UNCHANGED <<tables, today, job, scenario>>

\* The row as it was read under its lock is written back.
Moved(t, event) ==
    LET e == job[t].of IN
    /\ section' = [section EXCEPT ![e] = job[t].to]
    /\ log' = [log EXCEPT ![e] =
          Append(@, [event |-> event, old |-> job[t].section, new |-> job[t].to, day |-> today])]

Transfer(t) ==
    LET e == job[t].of
        s == job[t].to
    IN  /\ pc[t] = "transfer"
        /\ Referable(t, s)
        /\ Moved(t, "transfer")
        /\ stay' = [stay EXCEPT ![e][today] = Append(@, s)]
        /\ Finish(t)
        /\ UNCHANGED <<since, records, score, rewound>>

\* Where in the log the transfers are, from the oldest to the newest.
Transfers(e) == {i \in 1..Len(log[e]) : log[e][i].event = "transfer"}

CorrectionAllowed(e, s) ==
    /\ section[e] # s
    /\ ~\E r \in records : r.who = e
    /\ score[e] = None
    /\ Transfers(e) = {}

LockCorrect(t) ==
    LET e == job[t].of IN
    /\ pc[t] = "lock correct"
    /\ IF section[e] # job[t].section
       THEN Refuse(t)
       ELSE /\ TakePlacement(t)
            /\ Goto(t, "check correct")
            /\ UNCHANGED <<tables, today, job, scenario>>

CheckCorrect(t) ==
    /\ pc[t] = "check correct"
    /\ IF CorrectionAllowed(job[t].of, job[t].to)
       THEN /\ Goto(t, "correct")
            /\ UNCHANGED <<tables, today, job, locks, scenario>>
       ELSE Refuse(t)

\* A correction says that the student never was in the old section.
Correct(t) ==
    LET e == job[t].of
        s == job[t].to
    IN  /\ pc[t] = "correct"
        /\ Referable(t, s)
        /\ Moved(t, "correct")
        /\ stay' = [stay EXCEPT ![e] = [d \in Days |-> IF stay[e][d] = <<>> THEN <<>> ELSE <<s>>]]
        /\ Finish(t)
        /\ UNCHANGED <<since, records, score, rewound>>

-----------------------------------------------------------------------------
(* create_attendance_sheet *)

\* Mutant: the roster is whoever is in the section now.
RosterNow(s) == {e \in Enrollments : section[e] = s /\ since[e] <= today}

TransfersToday(e) == {i \in Transfers(e) : log[e][i].day = today}

\* Who was transferred today counts where the day began.
BeganIn(e) ==
    IF TransfersToday(e) = {} THEN section[e] ELSE log[e][Min(TransfersToday(e))].old

\* get_effective_attendance_roster
Roster(s) == {e \in Enrollments : section[e] # None /\ since[e] <= today /\ s = BeganIn(e)}

\* The application sends a record for everyone the roster endpoint returned.
StartSheet(t, s) ==
    /\ Roster(s) # {}
    /\ Begin(t, "sheet", "lock sheet", [NoJob EXCEPT !.to = s, !.roster = Roster(s)])

SheetExists(s) == \E r \in records : r.section = s /\ r.day = today

LockSheet(t) ==
    LET s == job[t].to IN
    /\ pc[t] = "lock sheet"
    /\ Referable(t, s)
    /\ IF SheetExists(s) \/ job[t].roster # Roster(s)
       THEN Refuse(t)
       ELSE /\ sectionLock' = [sectionLock EXCEPT ![s] = t]
            /\ Goto(t, "sheet")
            /\ UNCHANGED <<tables, today, job, yearLock, rowLock, examLock, scenario>>

StoreSheet(t) ==
    LET new == {[section |-> job[t].to, day |-> today, who |-> e] : e \in job[t].roster} IN
    /\ pc[t] = "sheet"
    /\ \A e \in job[t].roster : Writable(t, e)
    /\ IF \E e \in job[t].roster : section[e] = None
       THEN Refuse(t)
       ELSE /\ records' = records \cup new
            /\ Finish(t)
            /\ UNCHANGED <<section, since, log, score, stay, rewound>>

-----------------------------------------------------------------------------
(* save_assessment_scores_bulk, as far as it depends on the placement *)

\* The request's copy of the enrollment is loaded before any lock is taken.
StartScore(t, e, s) ==
    /\ section[e] # None
    /\ Begin(t, "score", "lock score", [NoJob EXCEPT !.of = e, !.section = section[e], !.to = s])

\* Mutant: the section the student is in now.
SectionNow(e, current) == current

\* get_enrollment_section_id_on_date: the section at the end of the exam day,
\* from the transfers; `current` is used only where there are none.
SectionOnExamDay(e, current) ==
    LET past == {i \in Transfers(e) : log[e][i].day <= ExamDay}
    IN  IF Transfers(e) = {} THEN current
        ELSE IF past = {} THEN log[e][Min(Transfers(e))].old
        ELSE log[e][Max(past)].new

ScoreAllowed(e, s, current) ==
    IF score[e] # None
    THEN score[e] = s
    ELSE SectionOnExamDay(e, current) = s /\ since[e] <= ExamDay

LockScore(t) ==
    LET s == job[t].to IN
    /\ pc[t] = "lock score"
    /\ examLock = None
    /\ Referable(t, s)
    /\ IF ~ScoreAllowed(job[t].of, s, job[t].section)
       THEN Refuse(t)
       ELSE /\ examLock' = t
            /\ sectionLock' = [sectionLock EXCEPT ![s] = t]
            /\ Goto(t, "score")
            /\ UNCHANGED <<tables, today, job, yearLock, rowLock, scenario>>

StoreScore(t) ==
    LET e == job[t].of IN
    /\ pc[t] = "score"
    /\ Writable(t, e)
    /\ IF section[e] = None
       THEN Refuse(t)
       ELSE /\ score' = [score EXCEPT ![e] = job[t].to]
            /\ Finish(t)
            /\ UNCHANGED <<section, since, log, records, stay, rewound>>

-----------------------------------------------------------------------------
\* Nobody works over midnight (a bound).
NextDay ==
    /\ today < scenario.last
    /\ \A t \in Tx : Idle(t)
    /\ today' = today + 1
    /\ stay' = [e \in Enrollments |->
          IF section[e] = None THEN stay[e] ELSE [stay[e] EXCEPT ![today + 1] = <<section[e]>>]]
    /\ UNCHANGED <<section, since, log, records, score, pc, job, locks, scenario, rewound>>

CanMove(e) == Len(log[e]) < MaxMoves

Init ==
    /\ scenario \in Scenarios
    /\ section = scenario.placed
    /\ since = [e \in Enrollments |-> IF scenario.placed[e] = None THEN 0 ELSE 1]
    /\ log = [e \in Enrollments |-> <<>>]
    /\ records = {}
    /\ score = [e \in Enrollments |-> None]
    /\ today = 1
    /\ pc = [t \in Tx |-> "idle"]
    /\ job = [t \in Tx |-> NoJob]
    /\ yearLock = None
    /\ rowLock = [e \in Enrollments |-> None]
    /\ sectionLock = [s \in Sections |-> None]
    /\ examLock = None
    /\ stay = [e \in Enrollments |-> [d \in Days |->
          IF d = 1 /\ section[e] # None THEN <<section[e]>> ELSE <<>>]]
    /\ rewound = {}

Request(t) ==
    \E e \in Enrollments :
        \/ StartPatch(t, e)
        \/ StartDelete(t, e)
        \/ \E s \in Sections :
              \/ Enroll(t, e, s)
              \/ CanMove(e) /\ StartTransfer(t, e, s)
              \/ CanMove(e) /\ StartCorrect(t, e, s)
              \/ StartScore(t, e, s)

Step(t) ==
    \/ Patch(t) \/ Delete(t)
    \/ LockTransfer(t) \/ Transfer(t)
    \/ LockCorrect(t) \/ CheckCorrect(t) \/ Correct(t)
    \/ LockSheet(t) \/ StoreSheet(t)
    \/ LockScore(t) \/ StoreScore(t)
    \/ Abort(t)

Next ==
    \/ \E t \in Tx : Request(t) \/ Step(t) \/ \E s \in Sections : StartSheet(t, s)
    \/ NextDay

Spec == Init /\ [][Next]_vars

-----------------------------------------------------------------------------
(* Properties *)

\* Rows and requests have the shape of the tables and of the handlers.
TypeOK ==
    /\ section \in [Enrollments -> Sections \cup {None}]
    /\ since \in [Enrollments -> 0..LastDay]
    /\ \A e \in Enrollments : log[e] \in Seq(Moves)
    /\ records \subseteq Records
    /\ score \in [Enrollments -> Sections \cup {None}]
    /\ today \in Days
    /\ job \in [Tx -> [of : Enrollments \cup {None}, section : Sections \cup {None},
                       to : Sections \cup {None}, roster : SUBSET Enrollments]]
    /\ {yearLock, examLock} \subseteq Tx \cup {None}
    /\ rowLock \in [Enrollments -> Tx \cup {None}]
    /\ sectionLock \in [Sections -> Tx \cup {None}]
    /\ rewound \subseteq Enrollments

\* Attendance is taken of a student by the section where the student's day
\* began, whatever transfers, corrections, deletions and PATCHes happen while
\* sheets are taken; so nobody is on the sheets of two sections on one day
\* (services.py, the lock of the section and the reconstruction of the roster).
\* Nothing is said of an enrollment whose section a PATCH has changed back.
PresentWhereTheyBelong ==
    \A r \in records : r.who \notin rewound =>
        stay[r.who][r.day] # <<>> /\ Head(stay[r.who][r.day]) = r.section

\* The audit log of an enrollment is an unbroken chain from section to section
\* that ends where the student is: no move is lost or recorded twice, unless a
\* PATCH that read the enrollment before a move has changed it back.
HistoryIsAChain ==
    \A e \in Enrollments \ rewound : section[e] # None =>
        LET n == Len(log[e]) IN
        /\ \A i \in 1..(n - 1) : log[e][i].new = log[e][i + 1].old
        /\ n > 0 => log[e][n].new = section[e]

\* A correction said that the student never was in the section that the
\* request has in its copy of the enrollment.
Outdated(t) ==
    LET moves == log[job[t].of] IN
    \E i \in 1..Len(moves) : moves[i].event = "correct" /\ moves[i].old = job[t].section

\* Of an enrollment with a request that stores a score from such a copy nothing
\* is promised.
Uncertain(e) == \E t \in Tx : pc[t] = "score" /\ job[t].of = e /\ Outdated(t)

\* A new score is under the section where the exam day ended for the student,
\* by what the register says at the moment it is stored, or under the section
\* of today while the day is still to come (the code goes by the end of the day,
\* where the comment of get_enrollment_section_id_on_date says its start).
\* From then on neither the score's section nor what the register says of days
\* gone by changes: no correction, deletion or PATCH takes it away.
ScoresMeetHistory ==
    [][\A e \in Enrollments :
          /\ score[e] = None /\ score'[e] # None /\ e \notin rewound /\ ~Uncertain(e) =>
                IF today < ExamDay
                THEN score'[e] = section[e]
                ELSE stay[e][ExamDay] # <<>> /\ score'[e] = Last(stay[e][ExamDay])
          /\ score[e] # None =>
                /\ score'[e] = score[e]
                /\ \A d \in 1..today : IsPrefix(stay[e][d], stay'[e][d])]_vars
=============================================================================
