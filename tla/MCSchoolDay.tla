---------------------------- MODULE MCSchoolDay ----------------------------
(* The instance of SchoolDay that TLC checks: two or three people at a time,  *)
(* and scenarios of operations that touch the same rows.                      *)
EXTENDS SchoolDay, TLC

CONSTANTS e1, e2, sa, sb, sc, t1, t2,           \* enrollments, sections
          p1, p2, c1, c2, c3, g1, g2,           \* pupils, children and guardians
          tea, sup, web, ta, tb                 \* staff and their assignments

-----------------------------------------------------------------------------
(* Attendance *)

Pair(one, two) == [p \in {p1, p2} |-> IF p = p1 THEN one ELSE two]
Present == [status |-> "present"]
Late == [status |-> "present", arrival |-> 2]
Absent == [status |-> "absent", absence_type |-> "unexcused"]
Excused == [status |-> "absent", absence_type |-> "excused", reason |-> TRUE, source |-> TRUE]

MCMornings == {Pair(Present, Present), Pair(Late, Absent)}
MCInputs == {Present, Late, Absent, Excused, [absence_type |-> "excused"], [departure |-> 1],
             [status |-> "unmarked"]}
MCBatches == {Pair(Absent, [departure |-> 1]), [p \in {p1} |-> [status |-> "unmarked"]]}

-----------------------------------------------------------------------------
(* Grades *)

Quiz(max, day) == [title |-> "quiz", max_score |-> max, assessment_date |-> day]

MCClassOf == Pair(sa, sb)
MCDefinitions == {Quiz(2, 1), Quiz(1, 2)}
MCMenus == {{"create", "update", "leave"}, {"scores", "update", "publish"},
            {"scores", "publish", "leave"}, {"scores", "delete", "publish"},
            {"create", "delete", "publish"},
            {"publish schedule", "unpublish schedule", "publish"}}

-----------------------------------------------------------------------------
(* Announcements and homework *)

Occasion(editors, posts, ops, bodies, failures) ==
    [editors |-> editors, posts |-> posts, ops |-> ops, bodies |-> bodies, mishaps |-> failures]
All == [scope |-> "all", publish |-> 2]
AllWithFile == [scope |-> "all", publish |-> 2, file |-> "upload"]
ToGrade == [scope |-> "grades", grades |-> {1}, sections |-> {}, publish |-> 2]
ToAll == [scope |-> "all", grades |-> {}, sections |-> {}]
ToSection == [scope |-> "sections", grades |-> {}, sections |-> {sb}]
Soon == [publish |-> 1]
Later == [publish |-> 2]
Brief == [expiry |-> 1]
WithFile == [file |-> "upload"]
NoFile == [file |-> None]
Exercises == {[assignment |-> ta], [assignment |-> tb]}

MCGradeOfClass == [s \in {sa, sb} |-> IF s = sa THEN 1 ELSE 2]
MCChildClass == [c \in {c1, c2, c3} |-> IF c = c3 THEN sb ELSE sa]
MCGuardianOf == [c \in {c1, c2, c3} |-> IF c = c1 THEN g1 ELSE g2]
MCStagesOf == [a \in {web, sup, tea} |-> IF a = sup THEN {1} ELSE {1, 2}]
MCLessonClass == [b \in {ta, tb} |-> IF b = ta THEN sa ELSE sb]
MCLessonTeacher == [b \in {ta, tb} |-> tea]
MCOccasions ==
    {Occasion({web, sup}, {1}, {"create", "update", "job"}, {All, Later, Soon, Brief}, 0),
     Occasion({web, sup}, {1}, {"create", "update", "delete", "job"}, {All, Soon}, 0),
     Occasion({web}, {1}, {"create", "update", "job", "leave"}, {ToGrade, ToSection, Soon}, 1),
     Occasion({web, sup}, {1}, {"create", "update"}, {ToGrade, ToSection, ToAll, All}, 0),
     Occasion({web, sup}, {1}, {"create", "update", "delete"}, {AllWithFile, WithFile, NoFile, Later}, 0),
     Occasion({tea, web}, {3}, {"create", "update", "delete"},
              {[assignment |-> ta, file |-> "upload"], WithFile}, 1),
     Occasion({web}, {1, 2}, {"create", "job"}, {All}, 1),
     Occasion({web}, {1}, {"create", "update", "delete"}, {AllWithFile, WithFile, NoFile, Later}, 1),
     Occasion({tea}, {3}, {"create", "update", "delete", "leave"},
              {[assignment |-> ta, file |-> "upload"], [assignment |-> tb], NoFile}, 1),
     Occasion({tea, web}, {3}, {"create", "update", "delete"}, Exercises, 0),
     Occasion({sup}, {3}, {"create", "update", "delete"}, Exercises, 0)}

-----------------------------------------------------------------------------
(* Appointments and letters *)

MCStudentsOf == [a \in {sup, web} |-> IF a = sup THEN {} ELSE {c1}]

-----------------------------------------------------------------------------
(* Years, terms and teaching assignments *)

Calendar(rows, editors, bodies, ends, deletes) ==
    [rows |-> rows, editors |-> editors, bodies |-> bodies, ends |-> ends, deletes |-> deletes]
Year(from, to, state) == [start |-> from, end |-> to, status |-> state]
Term(number, from, to, state) ==
    [year |-> "y1", number |-> number, start |-> from, end |-> to, status |-> state]
Lesson(slot, from, to) == [slot |-> slot, start |-> from, end |-> to]
Rows(y1, y2, u1, u2, l1, l2) ==
    [i \in {"y1", "y2", "u1", "u2", "l1", "l2"} |->
        CASE i = "y1" -> y1 [] i = "y2" -> y2 [] i = "u1" -> u1 [] i = "u2" -> u2
          [] i = "l1" -> l1 [] i = "l2" -> l2]
Active == [status |-> "active"]
Closed == [status |-> "closed"]

MCYearOf == [s \in {"s1", "s2"} |-> "y1"]
MCSlotsOf == [a \in {sup} |-> {"s1"}]
MCPlans ==
    {Calendar(Rows(Year(1, 4, "active"), None, None, None, None, None), {web, sup},
              {Lesson("s1", 1, 5), Lesson("s1", 3, 4), Lesson("s2", 2, 3), [slot |-> "s2"], [start |-> 3]},
              {2, 3}, TRUE),
     Calendar(Rows(Year(1, 4, "active"), None, Term(1, 1, 2, "active"), None, None, None), {web, tea},
              {Term(1, 3, 4, "draft"), Term(2, 3, 4, "active"), [end |-> 3], [start |-> 2], [number |-> 1]},
              {}, FALSE),
     Calendar(Rows(Year(1, 4, "active"), Year(2, 4, "draft"), Term(1, 1, 2, "active"), Term(2, 3, 4, "draft"),
                   None, None), {web, tea}, {Active, Closed, [year |-> "y2"]}, {}, TRUE)}

-----------------------------------------------------------------------------
(* Placement *)

MCGradeOf == [s \in Sections |-> IF s = sc THEN 2 ELSE 1]
Case(one, two, ops, last) ==
    [placed |-> [e \in Enrollments |-> IF e = e1 THEN one ELSE two], ops |-> ops, last |-> last]
Asleep == Case(None, None, {}, 1)
MCScenarios ==
    {Asleep,
     Case(sa, sb, {"transfer", "sheet"}, 2), Case(sa, None, {"transfer", "correct", "sheet"}, 2),
     Case(sa, sb, {"correct", "sheet"}, 1), Case(sa, None, {"correct", "delete", "sheet"}, 2),
     Case(sa, None, {"transfer", "correct", "score"}, 3),
     Case(sa, sb, {"delete", "score", "patch"}, 1), Case(sa, None, {"enroll", "sheet", "delete"}, 2),
     Case(sa, None, {"transfer", "patch", "sheet"}, 2), Case(sa, None, {"correct", "patch", "score"}, 2)}
Symmetric == Permutations(Tx)
=============================================================================
