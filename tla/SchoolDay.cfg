SPECIFICATION SchoolSpec
CONSTANTS
    None = None
    Null = Null
    e1 = e1
    e2 = e2
    sa = sa
    sb = sb
    sc = sc
    t1 = t1
    t2 = t2
    p1 = p1
    p2 = p2
    c1 = c1
    c2 = c2
    c3 = c3
    g1 = g1
    g2 = g2
    tea = tea
    sup = sup
    web = web
    ta = ta
    tb = tb
    Enrollments = {e1, e2}
    Sections = {sa, sb, sc}
    Tx = {t1, t2}
    GradeOf <- MCGradeOf
    Scenarios <- MCScenarios
    LastDay = 3
    ExamDay = 2
    MaxMoves = 2
    Pupils = {p1, p2}
    ClassOf <- MCClassOf
    Classes = {sa, sb}
    Staff = {tea, sup}
    Weekend = {}
    Times = {1}
    Mornings <- MCMornings
    Inputs <- MCInputs
    Batches <- MCBatches
    MaxEdits = 2
    Exams = {1, 2}
    FirstExam = 1
    TeachingStaff = {tea}
    Correctors = {tea, sup}
    Definitions <- MCDefinitions
    Scores = {1, 2}
    Menus <- MCMenus
    Announcements = {1, 2}
    Homework = {3}
    GradeOfClass <- MCGradeOfClass
    Children = {c1, c2, c3}
    ChildClass <- MCChildClass
    GuardianOf <- MCGuardianOf
    Editors = {web, sup, tea}
    StagesOf <- MCStagesOf
    Lessons = {ta, tb}
    LessonClass <- MCLessonClass
    LessonTeacher <- MCLessonTeacher
    BatchSize = 1
    Occasions <- MCOccasions
    Appointments = {1}
    Letters = {2}
    Guardians = {g1}
    Students = {c1}
    Office = {sup, web}
    StudentsOf <- MCStudentsOf
    Supervisors = {sup}
    Texts = {"", "x"}
    LastTime = 3
    MaxChanges = 1
    Years = {"y1", "y2"}
    Terms = {"u1", "u2"}
    Teachings = {"l1", "l2"}
    Slots = {"s1", "s2"}
    YearOf <- MCYearOf
    SlotsOf <- MCSlotsOf
    Used = {}
    Plans <- MCPlans
    SchoolDays = 2
    YearDays = 4
    MaxRequests = 3
SYMMETRY Symmetric
INVARIANT TablesOK
INVARIANT PresentWhereTheyBelong
INVARIANT HistoryIsAChain
INVARIANT BooksAddUp
INVARIANT FilesMatchRows
 
PROPERTY EditsKeepEditsOfOthers
PROPERTY PublishedResultsStand
PROPERTY TargetsFitScope
PROPERTY DecisionsStand
PROPERTY FamiliesAreTold
CHECK_DEADLOCK FALSE
