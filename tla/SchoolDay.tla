----------------------------- MODULE SchoolDay -----------------------------
(* The modules of daily school work side by side.  They meet in tables that  *)
(* each of them only reads, so that a behaviour is one of a single part, on  *)
(* the school day `date`; the tables of the others are None meanwhile.       *)
EXTENDS Placement

CONSTANTS
    \* attendance and grades: the pupils of a grade in their classes
    Pupils, ClassOf, Classes, Staff,
    Weekend, Times, Mornings, Inputs, Batches, MaxEdits,
    Exams, FirstExam, TeachingStaff, Correctors, Definitions, Scores, Menus, Null,
    \* announcements and homework
    Announcements, Homework, GradeOfClass, Children, ChildClass, GuardianOf, Editors, StagesOf,
    Lessons, LessonClass, LessonTeacher, BatchSize, Occasions,
    \* appointments and letters
    Appointments, Letters, Guardians, Students, Office, StudentsOf, Supervisors, Texts,
    LastTime, MaxChanges,
    \* years, terms and teaching assignments
    Years, Terms, Teachings, Slots, YearOf, SlotsOf, Used, Plans,
    \* bounds
    SchoolDays, YearDays, MaxRequests

VARIABLES part, date, request, told, reached, asked, row, rowLocks, linked, plan,
          sheet, notices, manages, edits,
          exam, status, schedule, scores, audit, assigned, menu,
          targets, notified, files, disputed, page, ended, mishaps,
          active, changes, now, saves, raced

shared == <<part, date, request, told, reached, asked, row, rowLocks, linked, plan>>
avars == <<sheet, notices, manages, edits>>
bvars == <<exam, status, schedule, scores, audit, assigned, menu>>
pvars == <<targets, notified, files, disputed, page, ended, mishaps>>
dvars == <<active, changes, now>>
yvars == <<saves, raced>>
schoolVars == <<vars, shared, avars, bvars, pvars, dvars, yvars>>

NoAttendance == sheet = None /\ notices = None /\ manages = None /\ edits = None
NoGrades == /\ exam = None /\ status = None /\ schedule = None /\ scores = None
            /\ audit = None /\ assigned = None /\ menu = None
NoPostings == /\ targets = None /\ notified = None /\ files = None /\ disputed = None
              /\ page = None /\ ended = None /\ mishaps = None
NoDecisions == active = None /\ changes = None /\ now = None
NoCalendar == saves = None /\ raced = None

-----------------------------------------------------------------------------
A == INSTANCE Attendance WITH today <- date, LastDay <- SchoolDays

B == INSTANCE GradeBook WITH
    today <- date, score <- scores, Sections <- Classes, SectionOf <- ClassOf,
    Teachers <- TeachingStaff, LastDay <- SchoolDays

N == INSTANCE Postings WITH
    today <- date, rowLock <- rowLocks, job <- page, scenario <- plan,
    Sections <- Classes, GradeOf <- GradeOfClass, SectionOf <- ChildClass,
    Assignments <- Lessons, AssignedTo <- LessonClass, TeacherOf <- LessonTeacher,
    Scenarios <- Occasions, LastDay <- SchoolDays

D == INSTANCE Decisions WITH rowLock <- rowLocks, Staff <- Office

Y == INSTANCE SchoolYear WITH Assignments <- Teachings, LastDay <- YearDays

ASSUME AttendanceAssumption == A!Sensible
ASSUME GradesAssumption == B!Sensible
ASSUME DecisionsAssumption == D!Sensible
ASSUME CalendarAssumption == Y!Sensible
ASSUME PostingsAssumption == N!Sensible

-----------------------------------------------------------------------------
SchoolInit ==
    /\ Init
    /\ part \in {"placement", "attendance", "grades", "postings", "decisions", "calendar"}
    /\ part = "placement" <=> scenario.ops # {}
    /\ IF part = "attendance" THEN A!Init ELSE NoAttendance
    /\ IF part = "grades" THEN B!Init ELSE NoGrades
    /\ IF part = "postings" THEN N!Init ELSE NoPostings
    /\ IF part = "decisions" THEN D!Init ELSE NoDecisions
    /\ IF part = "calendar" THEN Y!Init ELSE NoCalendar
    /\ part \in {"placement", "decisions", "calendar"} => date = None
    /\ part = "placement" => request = None
    /\ part \notin {"grades", "postings", "decisions"} => told = None
    /\ part \notin {"attendance", "grades"} => reached = None
    /\ part \notin {"grades", "postings", "calendar"} => asked = None
    /\ part \notin {"postings", "decisions"} => rowLocks = None /\ linked = None
    /\ part \notin {"postings", "decisions", "calendar"} => row = None
    /\ part \notin {"postings", "calendar"} => plan = None

SchoolNext ==
    \/ /\ part = "placement" /\ Next
       /\ UNCHANGED <<shared, avars, bvars, pvars, dvars, yvars>>
    \/ /\ part = "attendance" /\ A!Next
       /\ UNCHANGED <<vars, part, told, asked, row, rowLocks, linked, plan, bvars, pvars, dvars, yvars>>
    \/ /\ part = "grades" /\ B!Next
       /\ UNCHANGED <<vars, part, row, rowLocks, linked, plan, avars, pvars, dvars, yvars>>
    \/ /\ part = "postings" /\ N!Next
       /\ UNCHANGED <<vars, part, reached, avars, bvars, dvars, yvars>>
    \/ /\ part = "decisions" /\ D!Next
       /\ UNCHANGED <<vars, part, date, reached, asked, plan, avars, bvars, pvars, yvars>>
    \/ /\ part = "calendar" /\ Y!Next
       /\ UNCHANGED <<vars, part, date, told, reached, rowLocks, linked, avars, bvars, pvars, dvars>>

SchoolSpec == SchoolInit /\ [][SchoolNext]_schoolVars

-----------------------------------------------------------------------------
(* Properties, besides those of Placement: what the parts promise. *)

\* The rows of every part have the shape of its tables.
TablesOK ==
    /\ TypeOK
    /\ part = "attendance" => A!TypeOK
    /\ part = "grades" => B!TypeOK
    /\ part = "postings" => N!TypeOK
    /\ part = "decisions" => D!TypeOK
    /\ part = "calendar" => Y!TypeOK

\* Attendance records and the grade book are consistent after every edit, and
\* years, terms and assignments fit into each other.
BooksAddUp ==
    /\ part = "calendar" => Y!PeriodsInOrder
    /\ part = "attendance" => A!RecordsMakeSense
    /\ part = "grades" => B!BookAddsUp

\* No row names a file that is gone, no file is left that nobody knows of.
FilesMatchRows == part = "postings" => N!FilesMatchRows

\* Edits of one attendance sheet by several people do not undo each other.
EditsKeepEditsOfOthers == [][part = "attendance" => A!OnlyNamedChanges]_schoolVars

\* What guardians have been shown of results and exams stays.
PublishedResultsStand == [][part = "grades" => B!ShownStays]_schoolVars

\* Whom an announcement is for agrees with its scope, after whatever edits.
TargetsFitScope == [][part = "postings" => N!ScopesFit]_schoolVars

\* What the school has decided about an appointment or a letter stays.
DecisionsStand == [][part = "decisions" => D!OnceDecided]_schoolVars

\* Guardians hear once, and at once, of absences, results, announcements and
\* decisions, and find on their phones what they heard of.
FamiliesAreTold ==
    [][/\ part = "attendance" => A!AnnouncedOnce
       /\ part = "grades" => B!ResultsTold
       /\ part = "postings" => N!AnnouncedOnce
       /\ part = "decisions" => D!Answered]_schoolVars
=============================================================================
