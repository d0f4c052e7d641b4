------------------------------ MODULE GradeBook ------------------------------
(* The assessments of one subject in one term: their definitions, the scores  *)
(* of the pupils, the publication of schedules and results, and what the      *)
(* guardians see of it (grades/).  Which section a pupil belonged to is the   *)
(* subject of Placement; here nobody moves.                                   *)
(*                                                                            *)
(* A service takes its row locks first and reads under them, so that it is    *)
(* one step; what the view and its serializer read comes before.  The check   *)
(* for duplicate assessments takes no lock.                                   *)
EXTENDS Naturals, Sequences, FiniteSets, FiniteSetsExt

CONSTANTS
    Exams,       \* ids of assessments
    Sections,    \* the active sections of the grade
    Pupils,
    SectionOf,
    Staff,       \* web users who have been given the permissions of grades
    Teachers,    \* those of them whose role is teacher
    Correctors,  \* those with grades.correct_published_grades
    Definitions, \* [title, max_score, assessment_date] asked for
    Scores,      \* scores asked for
    FirstExam,   \* an assessment that all sections have at first
    Menus,       \* operations that occur together (a bound), "leave" for links and
                 \* assignments that end
    MaxRequests, \* bound on the requests of a behaviour
    LastDay,
    Null, None

Definition == [title : STRING, max_score : Nat \ {0}, assessment_date : 1..LastDay]

\* The constants: assessments have a maximum, every pupil a section.
Sensible ==
    /\ IsFiniteSet(Exams)
    /\ Definitions \subseteq Definition
    /\ SectionOf \in [Pupils -> Sections]
    /\ Scores \subseteq Nat
    /\ LastDay \in Nat \ {0}
    /\ None \notin Definition \cup Nat \cup {Null} /\ Null \notin Nat

VARIABLES
    exam,      \* definition of an assessment, or None
    status,    \* of the results, by assessment and section; "none": not linked
    schedule,  \* schedule_status
    score,     \* by assessment and pupil: None (no row), Null or a number
    audit,     \* ScoreAuditLog, as <<old, new>>
    told,      \* notifications of the publication
    assigned,  \* [teacher, section] with an active assignment
    reached,   \* pupils that are active and have an active guardian
    request,   \* of a member of the staff, or None
    asked,     \* how many requests there were
    menu,
    today

book == <<exam, status, schedule, score, audit, told>>
vars == <<book, assigned, reached, request, asked, menu, today>>

Cells == Exams \X Pupils
Linked(x) == {s \in Sections : status[x][s] # "none"}
Published(x) == {s \in Sections : status[x][s] = "published"}

-----------------------------------------------------------------------------
(* Who may do what *)

\* ensure_actor_can_manage_scope
CanManage(a, s) == a \in Teachers => <<a, s>> \in assigned

\* AssessmentViewSet.get_queryset
Visible(a, x) ==
    /\ exam[x] # None
    /\ a \in Teachers => \E s \in Linked(x) : <<a, s>> \in assigned

MayCorrect(a) == a \in Correctors \ Teachers

\* ensure_can_edit_published_score
MayEditScore(a, x, s) == status[x][s] = "published" => MayCorrect(a)

-----------------------------------------------------------------------------
(* A request is validated, and carried out later *)

NoRequest == [op |-> "none", exam |-> None, sections |-> {}, def |-> None, scores |-> <<>>]

OnMenu(op) ==
    /\ op \in menu
    /\ asked < MaxRequests
    /\ asked' = asked + 1
    /\ menu' = menu

Ask(a, r) ==
    /\ request[a] = None
    /\ OnMenu(r.op)
    /\ request' = [request EXCEPT ![a] = r]
    /\ UNCHANGED <<book, assigned, reached, today>>

Close(a) ==
    /\ request' = [request EXCEPT ![a] = None]
    /\ UNCHANGED <<assigned, reached, asked, menu, today>>

Refuse(a) == Close(a) /\ UNCHANGED book

Doing(a, op) == request[a] # None /\ request[a].op = op

\* What the serializers make of the bodies of requests.
CreateInput(s, def) == [NoRequest EXCEPT !.op = "create", !.sections = {s}, !.def = def]
CreateForGradeInput(def) == [NoRequest EXCEPT !.op = "create", !.sections = Sections, !.def = def]
UpdateInput(x, def) == [NoRequest EXCEPT !.op = "update", !.exam = x, !.def = def]
ScoresInput(x, s, scores) ==
    [NoRequest EXCEPT !.op = "scores", !.exam = x, !.sections = {s}, !.scores = scores]
ScheduleInput(x, s, op) == [NoRequest EXCEPT !.op = op, !.exam = x, !.sections = {s}]

\* _ensure_not_duplicate; allow_duplicate skips it.
Duplicate(def, ss, except) ==
    \E x \in Exams \ {except} :
        /\ exam[x] # None
        /\ Linked(x) \cap ss # {}
        /\ exam[x].title = def.title /\ exam[x].assessment_date = def.assessment_date

AskCreate(a, s, def) ==
    /\ CanManage(a, s)
    /\ ~Duplicate(def, {s}, None)
    /\ Ask(a, CreateInput(s, def))

\* create_for_grade does not ask whether a teacher has the sections.
AskCreateForGrade(a, def) ==
    /\ ~Duplicate(def, Sections, None)
    /\ Ask(a, CreateForGradeInput(def))

AskUpdate(a, x, def) ==
    /\ Visible(a, x)
    /\ Ask(a, UpdateInput(x, def))

AskDelete(a, x) ==
    /\ Visible(a, x)
    /\ Ask(a, [NoRequest EXCEPT !.op = "delete", !.exam = x])

AskScores(a, x, s, scores) ==
    /\ Visible(a, x)
    /\ s \in Linked(x)
    /\ CanManage(a, s)
    /\ Ask(a, ScoresInput(x, s, scores))

AskSchedule(a, x, s, op) ==
    /\ Visible(a, x)
    /\ Ask(a, ScheduleInput(x, s, op))

-----------------------------------------------------------------------------
(* Definitions *)

\* create_assessment and create_assessments_for_grade
Create(a, x) ==
    /\ Doing(a, "create")
    /\ exam[x] = None /\ \A p \in Pupils : audit[<<x, p>>] = <<>>
    /\ exam' = [exam EXCEPT ![x] = request[a].def]
    /\ status' = [status EXCEPT ![x] = [s \in Sections |->
                     IF s \in request[a].sections THEN "draft" ELSE "none"]]
    /\ schedule' = [schedule EXCEPT ![x] = [s \in Sections |-> "draft"]]
    /\ Close(a)
    /\ UNCHANGED <<score, audit, told>>

ScoresOf(x) == {score[<<x, p>>] : p \in Pupils} \ {None, Null}

\* Mutant: only the sections of the one who asks are looked at.
FrozenForOwn(a, x) == \E s \in Published(x) : <<a, s>> \in assigned

\* A definition that was published in any section stays as it is.
Frozen(a, x) == Published(x) # {}

UpdateAllowed(a, x, def) ==
    /\ exam[x] # None
    /\ \A s \in Linked(x) : CanManage(a, s)
    /\ ~Frozen(a, x)
    /\ ~Duplicate(def, Linked(x), x)
    /\ \A n \in ScoresOf(x) : n <= def.max_score

Update(a) ==
    LET x == request[a].exam IN
    /\ Doing(a, "update")
    /\ IF ~UpdateAllowed(a, x, request[a].def)
       THEN Refuse(a)
       ELSE /\ exam' = [exam EXCEPT ![x] = request[a].def]
            /\ Close(a)
            /\ UNCHANGED <<status, schedule, score, audit, told>>

DeleteAllowed(a, x) ==
    /\ exam[x] # None
    /\ \A s \in Linked(x) : CanManage(a, s)
    /\ ~Frozen(a, x)
    /\ \A p \in Pupils : score[<<x, p>>] = None

Delete(a) ==
    LET x == request[a].exam IN
    /\ Doing(a, "delete")
    /\ IF ~DeleteAllowed(a, x)
       THEN Refuse(a)
       ELSE /\ exam' = [exam EXCEPT ![x] = None]
            /\ status' = [status EXCEPT ![x] = [s \in Sections |-> "none"]]
            /\ schedule' = [schedule EXCEPT ![x] = [s \in Sections |-> "draft"]]
            /\ Close(a)
            /\ UNCHANGED <<score, audit, told>>

-----------------------------------------------------------------------------
(* save_assessment_scores_bulk *)

InRange(x, n) == n # Null => n <= exam[x].max_score

ScoresAllowed(a, x, s, scores) ==
    /\ exam[x] # None /\ s \in Linked(x)
    /\ CanManage(a, s)
    /\ MayEditScore(a, x, s)
    /\ \A p \in DOMAIN scores : SectionOf[p] = s /\ InRange(x, scores[p])

AuditEntry(old, new) == <<IF old = None THEN Null ELSE old, new>>

Audited(x, scores) ==
    audit' = [c \in Cells |->
        IF c[1] = x /\ c[2] \in DOMAIN scores
        THEN Append(audit[c], AuditEntry(score[c], scores[c[2]])) ELSE audit[c]]

SaveScores(a) ==
    LET x == request[a].exam
        s == CHOOSE t \in request[a].sections : TRUE
        scores == request[a].scores
    IN  /\ Doing(a, "scores")
        /\ IF ~ScoresAllowed(a, x, s, scores)
           THEN Refuse(a)
           ELSE /\ score' = [c \in Cells |->
                      IF c[1] = x /\ c[2] \in DOMAIN scores THEN scores[c[2]] ELSE score[c]]
                /\ Audited(x, scores)
                /\ Close(a)
                /\ UNCHANGED <<exam, status, schedule, told>>

-----------------------------------------------------------------------------
(* Publication *)

PublishSchedule(a) ==
    LET x == request[a].exam
        s == CHOOSE t \in request[a].sections : TRUE
    IN  /\ Doing(a, "publish schedule")
        /\ IF s \notin Linked(x) \/ ~CanManage(a, s)
           THEN Refuse(a)
           ELSE /\ schedule' = [schedule EXCEPT ![x][s] = "published"]
                /\ Close(a)
                /\ UNCHANGED <<exam, status, score, audit, told>>

UnpublishSchedule(a) ==
    LET x == request[a].exam
        s == CHOOSE t \in request[a].sections : TRUE
    IN  /\ Doing(a, "unpublish schedule")
        /\ IF \/ s \notin Linked(x) \/ ~CanManage(a, s)
              \/ schedule[x][s] = "published" /\ status[x][s] = "published"
           THEN Refuse(a)
           ELSE /\ schedule' = [schedule EXCEPT ![x][s] = "draft"]
                /\ Close(a)
                /\ UNCHANGED <<exam, status, score, audit, told>>

\* The drafts of a section that are due, as the locks of the rows leave them.
Due(s) ==
    {x \in Exams : exam[x] # None /\ status[x][s] = "draft" /\ exam[x].assessment_date <= today}

\* _notify_published_assessment_sections: pairs, not a product of two sets.
ToTell(x, ss) == {p \in Pupils : score[<<x, p>>] \notin {None, Null} /\ SectionOf[p] \in ss}

Publish(ss) ==
    LET now == {c \in Exams \X Sections : c[2] \in ss /\ c[1] \in Due(c[2])}
        NowIn(x) == {s \in ss : <<x, s>> \in now}
    IN  /\ status' = [x \in Exams |-> [s \in Sections |->
              IF <<x, s>> \in now THEN "published" ELSE status[x][s]]]
        /\ told' = [c \in Cells |->
              IF c[2] \in ToTell(c[1], NowIn(c[1])) \cap reached THEN 1 ELSE told[c]]
        /\ UNCHANGED <<exam, schedule, score, audit, assigned, reached, request, today>>

\* publish_section_assessments and publish_grade_assessments
PublishSection(s) == OnMenu("publish") /\ Publish({s})
PublishGrade == OnMenu("publish") /\ Publish(Sections)

-----------------------------------------------------------------------------
(* What is shown *)

ScoreRow(x, p) == [pupil |-> p, score |-> IF score[<<x, p>>] = None THEN Null ELSE score[<<x, p>>]]

\* get_assessment_score_rows: everyone of the section, scored or not.
ScoreSheet(x, s) == {ScoreRow(x, p) : p \in {q \in Pupils : SectionOf[q] = s}}

ResultRow(x, p) ==
    [exam |-> x, score |-> ScoreRow(x, p).score, max_score |-> exam[x].max_score,
     status |-> status[x][SectionOf[p]]]

\* get_student_term_results: the assessments of the pupil's section, with
\* their status there.
TermResults(p) == {ResultRow(x, p) : x \in {y \in Exams : SectionOf[p] \in Linked(y)}}

\* student_results: a teacher is shown the sections of their assignments.
ResultsFor(a, p) ==
    IF a \in Teachers /\ <<a, SectionOf[p]>> \notin assigned THEN {} ELSE TermResults(p)

\* get_mobile_published_term_results
PhoneResults(p) == {r \in TermResults(p) : r.status = "published"}

\* MobileChildGradesView: a guardian whose link or child is inactive finds none.
ChildGrades(p) == IF p \in reached THEN PhoneResults(p) ELSE {}

IsComplete(results) == \A r \in results : r.score # Null
TotalScore(results) == MapThenSumSet(LAMBDA r : r.score, {r \in results : r.score # Null})
TotalMax(results) == MapThenSumSet(LAMBDA r : r.max_score, results)

\* In hundredths of a percent, ROUND_HALF_UP; Null unless everything is scored.
Percentage(results) ==
    IF results = {} \/ ~IsComplete(results) THEN Null
    ELSE (2 * 10000 * TotalScore(results) + TotalMax(results)) \div (2 * TotalMax(results))

\* get_mobile_exams
PhoneExams(p, view) ==
    {x \in Exams :
        /\ p \in reached
        /\ schedule[x][SectionOf[p]] = "published"
        /\ view = "upcoming" => exam[x].assessment_date >= today
        /\ view = "past" => exam[x].assessment_date < today}

-----------------------------------------------------------------------------
EndAssignment(a, s) ==
    /\ <<a, s>> \in assigned
    /\ OnMenu("leave")
    /\ assigned' = assigned \ {<<a, s>>}
    /\ UNCHANGED <<book, reached, request, today>>

EndLink(p) ==
    /\ p \in reached
    /\ OnMenu("leave")
    /\ reached' = reached \ {p}
    /\ UNCHANGED <<book, assigned, request, today>>

NextDay ==
    /\ today < LastDay
    /\ today' = today + 1
    /\ UNCHANGED <<book, assigned, reached, request, asked, menu>>

Init ==
    /\ \E def \in Definitions :
          exam = [x \in Exams |-> IF x = FirstExam THEN def ELSE None]
    /\ status = [x \in Exams |-> [s \in Sections |-> IF x = FirstExam THEN "draft" ELSE "none"]]
    /\ schedule = [x \in Exams |-> [s \in Sections |-> "draft"]]
    /\ score = [c \in Cells |-> None]
    /\ audit = [c \in Cells |-> <<>>]
    /\ told = [c \in Cells |-> 0]
    /\ assigned = Teachers \X Sections
    /\ reached = Pupils
    /\ request = [a \in Staff |-> None]
    /\ asked = 0
    /\ menu \in Menus
    /\ today = 1

Asking(a) ==
    \/ \E def \in Definitions :
          \/ \E s \in Sections : AskCreate(a, s, def)
          \/ AskCreateForGrade(a, def)
          \/ \E x \in Exams : AskUpdate(a, x, def)
    \/ \E x \in Exams :
          \/ AskDelete(a, x)
          \/ \E s \in Sections :
                \/ \E p \in Pupils, n \in Scores \cup {Null} : AskScores(a, x, s, [q \in {p} |-> n])
                \/ \E op \in {"publish schedule", "unpublish schedule"} : AskSchedule(a, x, s, op)

Answering(a) ==
    \/ \E x \in Exams : Create(a, x)
    \/ Update(a) \/ Delete(a) \/ SaveScores(a)
    \/ PublishSchedule(a) \/ UnpublishSchedule(a)

Next ==
    \/ \E a \in Staff : Asking(a) \/ Answering(a) \/ \E s \in Sections : EndAssignment(a, s)
    \/ \E s \in Sections : PublishSection(s)
    \/ PublishGrade
    \/ \E p \in Pupils : EndLink(p)
    \/ NextDay

Spec == Init /\ [][Next]_vars

-----------------------------------------------------------------------------
(* Properties *)

\* Rows have the shape of the tables.
TypeOK ==
    /\ \A x \in Exams : exam[x] # None => exam[x] \in Definition
    /\ status \in [Exams -> [Sections -> {"none", "draft", "published"}]]
    /\ schedule \in [Exams -> [Sections -> {"draft", "published"}]]
    /\ \A c \in Cells : score[c] \in Nat \cup {Null, None} /\ told[c] \in 0..1
    /\ assigned \subseteq Teachers \X Sections
    /\ \A a \in Staff : request[a] # None => request[a].exam \in Exams \cup {None}

\* The book adds up after any sequence of edits by several people: no score
\* exceeds its maximum (or a percentage 100), every score lies in a section the
\* assessment is given in (supervisor_scope.py relies on it), and the log of a
\* score is a chain that ends with it (services.py, under the row locks).
BookAddsUp ==
    /\ \A x \in Exams, p \in Pupils :
          LET log == audit[<<x, p>>]
              n == Len(log)
          IN  /\ score[<<x, p>>] # None =>
                    /\ exam[x] # None /\ \E s \in Linked(x) : ScoreRow(x, p) \in ScoreSheet(x, s)
                    /\ score[<<x, p>>] # Null => score[<<x, p>>] <= exam[x].max_score
                    /\ log[n][2] = score[<<x, p>>]
              /\ \A i \in 2..n : log[i][1] = log[i - 1][2]
    /\ \A p \in Pupils :
          LET percent == Percentage(ChildGrades(p)) IN percent # Null => percent <= 10000
    /\ \A p \in Pupils, a \in Staff :
          ResultsFor(a, p) # {} => ChildGrades(p) \subseteq ResultsFor(a, p)

\* What guardians have been shown is never withdrawn and its definition never
\* changes, and an exam with results stays on their list; a published score
\* changes only by the hand of someone who may correct published grades
\* (services.py, the refusals of every operation).
ShownStays ==
    /\ \A p \in Pupils : \A r \in PhoneResults(p) :
          \E q \in PhoneResults(p)' :
              /\ q.exam = r.exam /\ q.max_score = r.max_score
              /\ q.score # r.score =>
                    \E a \in Staff : MayCorrect(a) /\ Doing(a, "scores") /\ request[a].exam = r.exam
                                     /\ request'[a] = None
    /\ \A x \in Exams : Published(x) # {} => exam'[x] = exam[x]
    /\ \A p \in Pupils : \A x \in PhoneExams(p, "all") :
          status[x][SectionOf[p]] = "published" /\ p \in reached' => x \in PhoneExams(p, "all")'

PublishedResultsStand == [][ShownStays]_vars

\* When results come out, exactly the guardians whose child has one of these
\* results hear of it, and their phones show it (_notify_published_...).
ResultsTold ==
    \A x \in Exams, p \in Pupils :
        LET out == status[x][SectionOf[p]] # "published" /\ status'[x][SectionOf[p]] = "published" IN
        /\ out /\ score[<<x, p>>] \notin {None, Null} /\ p \in reached => told'[<<x, p>>] = 1
        /\ told[<<x, p>>] = 0 /\ told'[<<x, p>>] = 1 =>
              out /\ \E r \in ChildGrades(p)' : r.exam = x /\ r.score # Null

ResultsReachGuardians == [][ResultsTold]_vars
=============================================================================
