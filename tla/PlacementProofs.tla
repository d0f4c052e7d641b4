---------------------------- MODULE PlacementProofs ----------------------------
(* Proofs about Placement: transfers and corrections that run at the same     *)
(* time, with sheets, scores and deletions, leave one unbroken history.       *)
EXTENDS Placement, SequenceTheorems, Sums

Jobs == [of : Enrollments \cup {None}, section : Sections \cup {None},
         to : Sections \cup {None}, roster : SUBSET Enrollments]
Placed == {"transfer", "check correct", "correct"}
Moving == {"lock transfer", "lock correct"} \cup Placed
Sheets == {"lock sheet", "sheet"}
Marking == {"lock score", "score"}
Labels == {"idle", "patch", "delete"} \cup Moving \cup Sheets \cup Marking

Chain(e) ==
    /\ \A i \in 1..(Len(log[e]) - 1) : log[e][i].new = log[e][i + 1].old
    /\ Len(log[e]) > 0 => log[e][Len(log[e])].new = section[e]

RowOK(e) ==
    /\ section[e] # None => since[e] # 0
    /\ section[e] = None => log[e] = <<>> /\ rowLock[e] = None
    /\ section[e] # None /\ e \notin rewound => Chain(e)

\* A request that has locked its placement has the present section in its copy.
JobOK(t) ==
    /\ pc[t] = "patch" => /\ job[t].of \in Enrollments /\ job[t].section \in Sections
                          /\ since[job[t].of] # 0
    /\ pc[t] = "delete" => job[t].of \in Enrollments
    /\ pc[t] \in Moving => /\ job[t].of \in Enrollments
                           /\ job[t].section \in Sections /\ job[t].to \in Sections
    /\ pc[t] \in Placed => rowLock[job[t].of] = t /\ section[job[t].of] = job[t].section
    /\ pc[t] \in Sheets => job[t].to \in Sections
    /\ pc[t] \in Marking => job[t].of \in Enrollments /\ job[t].to \in Sections

Shape ==
    /\ TypeOK
    /\ log \in [Enrollments -> Seq(Moves)]
    /\ pc \in [Tx -> Labels]
    /\ scenario \in Scenarios

PlacementInv ==
    /\ Shape
    /\ \A e \in Enrollments : RowOK(e)
    /\ \A t \in Tx : JobOK(t)

-----------------------------------------------------------------------------
(* What a step of t may do to the others; t is None at midnight *)

Courteous(t) ==
    /\ \A x \in Tx : x # t => pc'[x] = pc[x] /\ job'[x] = job[x]
    /\ \A e \in Enrollments : rowLock[e] \notin {None, t} =>
          rowLock'[e] = rowLock[e] /\ section'[e] = section[e]
    /\ \A e \in Enrollments : since[e] # 0 => since'[e] # 0
    /\ scenario' = scenario

GoodStep(t) ==
    /\ Courteous(t)
    /\ Shape'
    /\ \A e \in Enrollments : RowOK(e)'
    /\ t \in Tx => JobOK(t)'

LEMMA ConstantFacts ==
    /\ None \notin Sections /\ None \notin Enrollments /\ None \notin Tx
    /\ LastDay \in Nat /\ Days = 1..LastDay
    /\ \A c \in Scenarios : /\ c.placed \in [Enrollments -> Sections \cup {None}]
                            /\ c.ops \subseteq Operations /\ c.last \in Days
BY PlacementAssumption DEF Days

LEMMA GoodStepKeepsInv ==
    ASSUME PlacementInv, NEW t, GoodStep(t)
    PROVE  PlacementInv'
<1>1. ASSUME NEW x \in Tx, x # t PROVE JobOK(x)'
  <2>1. JobOK(x) /\ pc'[x] = pc[x] /\ job'[x] = job[x] /\ scenario' = scenario
    BY <1>1 DEF PlacementInv, GoodStep, Courteous
  <2>2. ASSUME pc[x] \in Placed
        PROVE  rowLock'[job[x].of] = x /\ section'[job[x].of] = job[x].section
    <3>1. /\ job[x].of \in Enrollments /\ rowLock[job[x].of] = x
          /\ section[job[x].of] = job[x].section
      BY <2>1, <2>2 DEF JobOK, Placed, Moving
    <3> QED BY <1>1, <3>1, ConstantFacts DEF GoodStep, Courteous
  <2>3. pc[x] = "patch" => since'[job[x].of] # 0
    BY <2>1 DEF JobOK, GoodStep, Courteous
  <2> QED BY <2>1, <2>2, <2>3 DEF JobOK
<1> QED BY <1>1 DEF PlacementInv, GoodStep

LEMMA FinishFacts ==
    ASSUME PlacementInv, NEW t \in Tx, Finish(t)
    PROVE  /\ pc' \in [Tx -> Labels] /\ pc'[t] = "idle"
           /\ job' \in [Tx -> Jobs] /\ JobOK(t)'
           /\ \A x \in Tx : x # t => pc'[x] = pc[x] /\ job'[x] = job[x]
           /\ rowLock' \in [Enrollments -> Tx \cup {None}]
           /\ \A e \in Enrollments : rowLock'[e] = IF rowLock[e] = t THEN None ELSE rowLock[e]
           /\ {yearLock', examLock'} \subseteq Tx \cup {None}
           /\ sectionLock' \in [Sections -> Tx \cup {None}]
           /\ today' \in Days /\ scenario' = scenario /\ scenario' \in Scenarios
<1>1. NoJob \in Jobs
  BY DEF NoJob, Jobs
<1>2. /\ pc \in [Tx -> Labels] /\ job \in [Tx -> Jobs] /\ rowLock \in [Enrollments -> Tx \cup {None}]
      /\ {yearLock, examLock} \subseteq Tx \cup {None} /\ sectionLock \in [Sections -> Tx \cup {None}]
      /\ today \in Days /\ scenario \in Scenarios
  BY DEF PlacementInv, Shape, TypeOK, Jobs
<1>3. pc' \in [Tx -> Labels] /\ pc'[t] = "idle" /\ \A x \in Tx : x # t => pc'[x] = pc[x]
  BY <1>2 DEF Finish, Labels
<1>4. job' \in [Tx -> Jobs] /\ \A x \in Tx : x # t => job'[x] = job[x]
  BY <1>1, <1>2 DEF Finish
<1>5. /\ rowLock' \in [Enrollments -> Tx \cup {None}]
      /\ \A e \in Enrollments : rowLock'[e] = IF rowLock[e] = t THEN None ELSE rowLock[e]
      /\ {yearLock', examLock'} \subseteq Tx \cup {None}
      /\ sectionLock' \in [Sections -> Tx \cup {None}]
  BY <1>2 DEF Finish
<1>6. JobOK(t)'
  BY <1>3 DEF JobOK, Moving, Placed, Sheets, Marking
<1> QED BY <1>2, <1>3, <1>4, <1>5, <1>6 DEF Finish

\* A step after which every enrollment is where it was.
LEMMA QuietGood ==
    ASSUME PlacementInv, NEW t, UNCHANGED <<section, since, log, rewound>>,
           records' \subseteq Records, score' \in [Enrollments -> Sections \cup {None}],
           today' \in Days, scenario' = scenario,
           pc' \in [Tx -> Labels], job' \in [Tx -> Jobs],
           {yearLock', examLock'} \subseteq Tx \cup {None},
           rowLock' \in [Enrollments -> Tx \cup {None}],
           sectionLock' \in [Sections -> Tx \cup {None}],
           \A x \in Tx : x # t => pc'[x] = pc[x] /\ job'[x] = job[x],
           \A e \in Enrollments : rowLock[e] \notin {None, t} => rowLock'[e] = rowLock[e],
           \A e \in Enrollments : section[e] = None /\ rowLock[e] = None => rowLock'[e] = None,
           t \in Tx => JobOK(t)'
    PROVE  PlacementInv'
<1>1. \A e \in Enrollments : RowOK(e)'
  BY DEF PlacementInv, RowOK, Chain
<1>2. Shape'
  BY DEF PlacementInv, Shape, TypeOK, Jobs
<1>3. Courteous(t)
  BY DEF Courteous
<1>4. GoodStep(t)
  BY <1>1, <1>2, <1>3 DEF GoodStep
<1> QED BY <1>4, GoodStepKeepsInv

LEMMA RefuseGood ==
    ASSUME PlacementInv, NEW t \in Tx, Refuse(t)
    PROVE  PlacementInv'
<1>1. Finish(t) /\ UNCHANGED <<section, since, log, records, score, rewound>>
  BY DEF Refuse, tables
<1>2. records' \subseteq Records /\ score' \in [Enrollments -> Sections \cup {None}]
  BY <1>1 DEF PlacementInv, Shape, TypeOK
<1> QED BY <1>1, <1>2, FinishFacts, QuietGood

-----------------------------------------------------------------------------
(* Requests begin                                                            *)

LEMMA BeginGood ==
    ASSUME PlacementInv, NEW t \in Tx, NEW o \in Operations, NEW label \in Labels \ Placed,
           NEW j \in Jobs, Begin(t, o, label, j),
           label = "patch" => /\ j.of \in Enrollments /\ j.section \in Sections
                              /\ since[j.of] # 0,
           label = "delete" => j.of \in Enrollments,
           label \in Moving => /\ j.of \in Enrollments /\ j.section \in Sections
                               /\ j.to \in Sections,
           label \in Sheets => j.to \in Sections,
           label \in Marking => j.of \in Enrollments /\ j.to \in Sections
    PROVE  PlacementInv'
<1>1. /\ pc' = [pc EXCEPT ![t] = label] /\ job' = [job EXCEPT ![t] = j]
      /\ UNCHANGED <<section, since, log, records, score, rewound, today, scenario>>
      /\ UNCHANGED <<yearLock, rowLock, sectionLock, examLock>>
  BY DEF Begin, tables, locks
<1>2. /\ pc' \in [Tx -> Labels] /\ job' \in [Tx -> Jobs] /\ pc'[t] = label /\ job'[t] = j
      /\ \A x \in Tx : x # t => pc'[x] = pc[x] /\ job'[x] = job[x]
  BY <1>1 DEF PlacementInv, Shape, TypeOK, Jobs
<1>3. /\ records' \subseteq Records /\ score' \in [Enrollments -> Sections \cup {None}] /\ today' \in Days
      /\ {yearLock', examLock'} \subseteq Tx \cup {None} /\ rowLock' \in [Enrollments -> Tx \cup {None}]
      /\ sectionLock' \in [Sections -> Tx \cup {None}]
  BY <1>1 DEF PlacementInv, Shape, TypeOK
<1>4. JobOK(t)'
  BY <1>1, <1>2 DEF JobOK
<1> QED BY <1>1, <1>2, <1>3, <1>4, QuietGood

LEMMA StartFacts ==
    ASSUME PlacementInv, NEW e \in Enrollments, section[e] # None
    PROVE  section[e] \in Sections /\ since[e] # 0
BY DEF PlacementInv, Shape, TypeOK, RowOK

LEMMA StartRowGood ==
    ASSUME PlacementInv, NEW t \in Tx, NEW e \in Enrollments, StartPatch(t, e) \/ StartDelete(t, e)
    PROVE  PlacementInv'
<1>1. section[e] \in Sections /\ since[e] # 0
  BY StartFacts DEF StartPatch, StartDelete
<1>2. CASE StartPatch(t, e)
  <2>1. PICK j \in Jobs : j.of = e /\ j.section = section[e] /\ Begin(t, "patch", "patch", j)
    <3>1. PICK j : j = [NoJob EXCEPT !.of = e, !.section = section[e]]
      OBVIOUS
    <3>2. j \in Jobs /\ j.of = e /\ j.section = section[e]
      BY <1>1, <3>1 DEF NoJob, Jobs
    <3> QED BY <1>2, <3>1, <3>2 DEF StartPatch
  <2>2. /\ "patch" \in Operations /\ "patch" \in Labels \ Placed
        /\ "patch" \notin Moving \cup Sheets \cup Marking
    BY DEF Operations, Labels, Placed, Moving, Sheets, Marking
  <2> QED BY <1>1, <2>1, <2>2, BeginGood
<1>3. CASE StartDelete(t, e)
  <2>1. PICK j \in Jobs : j.of = e /\ Begin(t, "delete", "delete", j)
    <3>1. PICK j : j = [NoJob EXCEPT !.of = e]
      OBVIOUS
    <3>2. j \in Jobs /\ j.of = e
      BY <3>1 DEF NoJob, Jobs
    <3> QED BY <1>3, <3>1, <3>2 DEF StartDelete
  <2>2. /\ "delete" \in Operations /\ "delete" \in Labels \ Placed
        /\ "delete" \notin Moving \cup Sheets \cup Marking
    BY DEF Operations, Labels, Placed, Moving, Sheets, Marking
  <2> QED BY <1>1, <2>1, <2>2, BeginGood
<1> QED BY <1>2, <1>3

LEMMA StartMoveGood ==
    ASSUME PlacementInv, NEW t \in Tx, NEW e \in Enrollments, NEW s \in Sections,
           StartTransfer(t, e, s) \/ StartCorrect(t, e, s) \/ StartScore(t, e, s)
    PROVE  PlacementInv'
<1>1. section[e] \in Sections /\ since[e] # 0
  BY StartFacts DEF StartTransfer, StartCorrect, StartScore
<1>2. PICK j \in Jobs : /\ j.of = e /\ j.section = section[e] /\ j.to = s
                        /\ \/ Begin(t, "transfer", "lock transfer", j)
                           \/ Begin(t, "correct", "lock correct", j)
                           \/ Begin(t, "score", "lock score", j)
  <2>1. PICK j : j = [NoJob EXCEPT !.of = e, !.section = section[e], !.to = s]
    OBVIOUS
  <2>2. j \in Jobs /\ j.of = e /\ j.section = section[e] /\ j.to = s
    BY <1>1, <2>1 DEF NoJob, Jobs
  <2> QED BY <2>1, <2>2 DEF StartTransfer, StartCorrect, StartScore
<1>3. CASE Begin(t, "transfer", "lock transfer", j)
  <2>1. /\ "transfer" \in Operations /\ "lock transfer" \in Labels \ Placed
        /\ "lock transfer" \notin Sheets \cup Marking
    BY DEF Operations, Labels, Placed, Moving, Sheets, Marking
  <2> QED BY <1>1, <1>2, <1>3, <2>1, BeginGood
<1>4. CASE Begin(t, "correct", "lock correct", j)
  <2>1. /\ "correct" \in Operations /\ "lock correct" \in Labels \ Placed
        /\ "lock correct" \notin Sheets \cup Marking
    BY DEF Operations, Labels, Placed, Moving, Sheets, Marking
  <2> QED BY <1>1, <1>2, <1>4, <2>1, BeginGood
<1>5. CASE Begin(t, "score", "lock score", j)
  <2>1. /\ "score" \in Operations /\ "lock score" \in Labels \ Placed
        /\ "lock score" \notin Sheets \cup Moving
    BY DEF Operations, Labels, Placed, Moving, Sheets, Marking
  <2> QED BY <1>1, <1>2, <1>5, <2>1, BeginGood
<1> QED BY <1>2, <1>3, <1>4, <1>5

LEMMA StartSheetGood ==
    ASSUME PlacementInv, NEW t \in Tx, NEW s \in Sections, StartSheet(t, s)
    PROVE  PlacementInv'
<1>1. Roster(s) \in SUBSET Enrollments
  BY DEF Roster
<1>2. PICK j \in Jobs : j.to = s /\ Begin(t, "sheet", "lock sheet", j)
  <2>1. PICK j : j = [NoJob EXCEPT !.to = s, !.roster = Roster(s)]
    OBVIOUS
  <2>2. j \in Jobs /\ j.to = s
    BY <1>1, <2>1 DEF NoJob, Jobs
  <2> QED BY <2>1, <2>2 DEF StartSheet
<1>3. /\ "sheet" \in Operations /\ "lock sheet" \in Labels \ Placed
      /\ "lock sheet" \notin {"patch", "delete"} \cup Marking \cup Moving
  BY DEF Operations, Labels, Placed, Moving, Sheets, Marking
<1> QED BY <1>2, <1>3, BeginGood

-----------------------------------------------------------------------------
(* Steps that change an enrollment                                           *)

LEMMA RowGood ==
    ASSUME PlacementInv, NEW t \in Tx, NEW e \in Enrollments, Finish(t), Writable(t, e),
           UNCHANGED <<since, records, score>>,
           section' \in [Enrollments -> Sections \cup {None}], log' \in [Enrollments -> Seq(Moves)],
           \A x \in Enrollments : x # e => section'[x] = section[x] /\ log'[x] = log[x],
           rewound' \subseteq Enrollments, \A x \in Enrollments : x # e => (x \in rewound' <=> x \in rewound),
           RowOK(e)'
    PROVE  PlacementInv'
<1>1. \A x \in Enrollments : RowOK(x)'
  <2> SUFFICES ASSUME NEW x \in Enrollments, x # e PROVE RowOK(x)'
    OBVIOUS
  <2>1. RowOK(x) /\ section'[x] = section[x] /\ log'[x] = log[x] /\ since'[x] = since[x]
    BY DEF PlacementInv
  <2>2. scenario' = scenario /\ (rowLock[x] = None => rowLock'[x] = None)
    BY FinishFacts
  <2> QED BY <2>1, <2>2 DEF RowOK, Chain
<1>2. Courteous(t)
  <2>1. \A x \in Enrollments : rowLock[x] \notin {None, t} => rowLock'[x] = rowLock[x] /\ x # e
    BY FinishFacts DEF Writable
  <2> QED BY <2>1, FinishFacts DEF Courteous
<1>3. Shape'
  <2>1. since' \in [Enrollments -> 0..LastDay] /\ records' \subseteq Records
        /\ score' \in [Enrollments -> Sections \cup {None}]
    BY DEF PlacementInv, Shape, TypeOK
  <2> QED BY <2>1, FinishFacts DEF Shape, TypeOK, Jobs
<1>4. GoodStep(t)
  BY <1>1, <1>2, <1>3, FinishFacts DEF GoodStep
<1> QED BY <1>4, GoodStepKeepsInv

LEMMA EnrollGood ==
    ASSUME PlacementInv, NEW t \in Tx, NEW e \in Enrollments, NEW s \in Sections, Enroll(t, e, s)
    PROVE  PlacementInv'
<1>1. /\ since[e] = 0 /\ section' = [section EXCEPT ![e] = s] /\ since' = [since EXCEPT ![e] = today]
      /\ UNCHANGED <<log, records, score, today, pc, job, yearLock, rowLock, sectionLock, examLock, scenario, rewound>>
  BY DEF Enroll, NeverEnrolled, locks
<1>2. /\ section \in [Enrollments -> Sections \cup {None}] /\ since \in [Enrollments -> 0..LastDay]
      /\ today \in 1..LastDay /\ LastDay \in Nat
  BY ConstantFacts DEF PlacementInv, Shape, TypeOK
<1>3. today \in 0..LastDay /\ today # 0
  BY <1>2
<1>4. /\ section' \in [Enrollments -> Sections \cup {None}] /\ since' \in [Enrollments -> 0..LastDay]
      /\ section'[e] = s /\ since'[e] = today
      /\ \A x \in Enrollments : x # e => section'[x] = section[x] /\ since'[x] = since[x]
  BY <1>1, <1>2, <1>3
<1>5. log[e] = <<>> /\ rowLock[e] = None
  BY <1>1 DEF PlacementInv, RowOK
<1>6. \A x \in Enrollments : RowOK(x)'
  <2> SUFFICES ASSUME NEW x \in Enrollments PROVE RowOK(x)'
    OBVIOUS
  <2>1. CASE x = e
    <3>1. log'[e] = <<>> /\ Len(log'[e]) = 0
      BY <1>1, <1>5
    <3>2. Chain(e)'
      BY <3>1 DEF Chain
    <3> QED BY <1>1, <1>3, <1>4, <1>5, <2>1, <3>1, <3>2, ConstantFacts DEF RowOK
  <2>2. CASE x # e
    <3>1. RowOK(x) /\ section'[x] = section[x] /\ since'[x] = since[x]
      BY <1>4, <2>2 DEF PlacementInv
    <3> QED BY <1>1, <3>1 DEF RowOK, Chain
  <2> QED BY <2>1, <2>2
<1>7. Courteous(None)
  BY <1>1, <1>3, <1>4, <1>5 DEF Courteous
<1>8. Shape'
  BY <1>1, <1>4 DEF PlacementInv, Shape, TypeOK
<1>9. GoodStep(None)
  BY <1>6, <1>7, <1>8, ConstantFacts DEF GoodStep
<1> QED BY <1>9, GoodStepKeepsInv

LEMMA PatchGood ==
    ASSUME PlacementInv, NEW t \in Tx, Patch(t)
    PROVE  PlacementInv'
<1>1. PICK e \in Enrollments, s \in Sections :
         /\ e = job[t].of /\ s = job[t].section /\ since[e] # 0
  BY DEF Patch, PlacementInv, JobOK
<1>2. /\ Writable(t, e) /\ section' = [section EXCEPT ![e] = s] /\ Finish(t)
      /\ rewound' = IF section[e] \in {None, s} THEN rewound ELSE rewound \cup {e}
      /\ UNCHANGED <<since, log, records, score>>
  BY <1>1 DEF Patch
<1>3. /\ section' \in [Enrollments -> Sections \cup {None}] /\ section'[e] = s /\ s # None
      /\ \A x \in Enrollments : x # e => section'[x] = section[x]
      /\ log' \in [Enrollments -> Seq(Moves)]
      /\ rewound' \subseteq Enrollments /\ \A x \in Enrollments : x # e => (x \in rewound' <=> x \in rewound)
  BY <1>2, ConstantFacts DEF PlacementInv, Shape, TypeOK
<1>4. RowOK(e)'
  <2>1. ASSUME e \notin rewound' PROVE Chain(e)'
    <3>1. e \notin rewound /\ section[e] \in {None, s} /\ RowOK(e)
      BY <1>2, <2>1 DEF PlacementInv
    <3>2. CASE section[e] = None
      BY <1>2, <3>1, <3>2 DEF RowOK, Chain
    <3>3. CASE section[e] = s
      BY <1>2, <1>3, <3>1, <3>3 DEF RowOK, Chain
    <3> QED BY <3>1, <3>2, <3>3
  <2> QED BY <1>1, <1>2, <1>3, <2>1, FinishFacts DEF RowOK
<1> QED BY <1>2, <1>3, <1>4, RowGood

LEMMA RemoveGood ==
    ASSUME PlacementInv, NEW t \in Tx, Delete(t)
    PROVE  PlacementInv'
<1>1. PICK e \in Enrollments : e = job[t].of
  BY DEF Delete, PlacementInv, JobOK
<1>2. CASE Referenced(e)
  BY <1>1, <1>2, RefuseGood DEF Delete
<1>3. CASE ~Referenced(e)
  <2>1. /\ Writable(t, e) /\ section' = [section EXCEPT ![e] = None] /\ Finish(t)
        /\ log[e] = <<>> /\ UNCHANGED <<since, log, records, score, rewound>>
    BY <1>1, <1>3 DEF Delete, Referenced
  <2>2. /\ section' \in [Enrollments -> Sections \cup {None}] /\ section'[e] = None
        /\ \A x \in Enrollments : x # e => section'[x] = section[x]
        /\ log' \in [Enrollments -> Seq(Moves)] /\ rewound' \subseteq Enrollments
    BY <2>1 DEF PlacementInv, Shape, TypeOK
  <2>3. rowLock'[e] = None
    BY <2>1, FinishFacts DEF Writable
  <2>4. RowOK(e)'
    BY <2>1, <2>2, <2>3 DEF RowOK
  <2> QED BY <2>1, <2>2, <2>4, RowGood
<1> QED BY <1>2, <1>3

LEMMA MoveGood ==
    ASSUME PlacementInv, NEW t \in Tx, pc[t] \in Placed, NEW event \in {"transfer", "correct"},
           Moved(t, event), Finish(t), UNCHANGED <<since, records, score, rewound>>
    PROVE  PlacementInv'
<1>1. PICK e \in Enrollments, old \in Sections, s \in Sections :
         /\ e = job[t].of /\ old = job[t].section /\ s = job[t].to
         /\ rowLock[e] = t /\ section[e] = old
  BY DEF PlacementInv, JobOK, Moving
<1>2. PICK m : m = [event |-> event, old |-> old, new |-> s, day |-> today]
  OBVIOUS
<1>3. today \in Days /\ log \in [Enrollments -> Seq(Moves)]
      /\ section \in [Enrollments -> Sections \cup {None}] /\ RowOK(e) /\ rewound' \subseteq Enrollments
  BY DEF PlacementInv, Shape, TypeOK
<1>4. m \in Moves /\ m.old = old /\ m.new = s
  BY <1>2, <1>3 DEF Moves
<1>5. section' = [section EXCEPT ![e] = s] /\ log' = [log EXCEPT ![e] = Append(log[e], m)]
  BY <1>1, <1>2, <1>3 DEF Moved
<1>6. /\ section' \in [Enrollments -> Sections \cup {None}] /\ log' \in [Enrollments -> Seq(Moves)]
      /\ section'[e] = s /\ log'[e] = Append(log[e], m)
      /\ \A x \in Enrollments : x # e => section'[x] = section[x] /\ log'[x] = log[x]
  BY <1>3, <1>4, <1>5
<1>7. s # None /\ old # None
  BY <1>1, ConstantFacts
<1>8. e \notin rewound => Chain(e)'
  <2> SUFFICES ASSUME e \notin rewound PROVE Chain(e)'
    OBVIOUS
  <2>1. Chain(e) /\ section[e] = old
    BY <1>1, <1>3, <1>7 DEF RowOK
  <2>2. PICK past \in Seq(Moves) : past = log[e]
    BY <1>3
  <2>3. \A i \in 1..(Len(past) - 1) : past[i].new = past[i + 1].old
    BY <2>1, <2>2 DEF Chain
  <2>4. Len(past) > 0 => past[Len(past)].new = old
    BY <2>1, <2>2 DEF Chain
  <2>5. PICK now \in Seq(Moves) : /\ now = log'[e] /\ Len(now) = Len(past) + 1
                                  /\ now[Len(past) + 1] = m
                                  /\ \A i \in 1..Len(past) : now[i] = past[i]
    <3>1. PICK now : now = Append(past, m)
      OBVIOUS
    <3>2. /\ now \in Seq(Moves) /\ Len(now) = Len(past) + 1 /\ now[Len(past) + 1] = m
          /\ \A i \in 1..Len(past) : now[i] = past[i]
      BY <1>4, <3>1
    <3>3. now = log'[e]
      BY <1>6, <2>2, <3>1
    <3> QED BY <3>2, <3>3
  <2>6. \A i \in 1..(Len(now) - 1) : now[i].new = now[i + 1].old
    <3> SUFFICES ASSUME NEW i \in 1..(Len(now) - 1) PROVE now[i].new = now[i + 1].old
      OBVIOUS
    <3>1. i \in 1..Len(past) /\ Len(past) \in Nat
      BY <2>5
    <3>2. CASE i = Len(past)
      BY <1>4, <2>4, <2>5, <3>1, <3>2
    <3>3. CASE i # Len(past)
      BY <2>3, <2>5, <3>1, <3>3, SMTT(30)
    <3> QED BY <3>2, <3>3
  <2>7. now[Len(now)].new = section'[e]
    BY <1>4, <1>6, <2>5
  <2> QED BY <2>5, <2>6, <2>7 DEF Chain
<1>9. since'[e] # 0
  BY <1>1, <1>3, <1>7 DEF RowOK
<1>10. RowOK(e)'
  BY <1>6, <1>7, <1>8, <1>9 DEF RowOK
<1> QED BY <1>1, <1>3, <1>6, <1>10, RowGood DEF Writable

LEMMA TransferGood ==
    ASSUME PlacementInv, NEW t \in Tx, Transfer(t) \/ Correct(t)
    PROVE  PlacementInv'
<1>1. /\ pc[t] \in Placed /\ Finish(t) /\ UNCHANGED <<since, records, score, rewound>>
      /\ Moved(t, "transfer") \/ Moved(t, "correct")
  BY DEF Transfer, Correct, Placed
<1> QED BY <1>1, MoveGood

-----------------------------------------------------------------------------
(* Steps that take locks                                                     *)

LEMMA TakeGood ==
    ASSUME PlacementInv, NEW t \in Tx, pc[t] \in Moving, NEW label \in Placed,
           section[job[t].of] = job[t].section,
           TakePlacement(t), Goto(t, label), UNCHANGED <<tables, today, job, scenario>>
    PROVE  PlacementInv'
<1>1. PICK e \in Enrollments, s \in Sections :
         /\ e = job[t].of /\ s = job[t].section /\ s = section[e] /\ job[t].to \in Sections
  BY DEF PlacementInv, JobOK
<1>2. /\ rowLock[e] \in {None, t} /\ yearLock' = t /\ rowLock' = [rowLock EXCEPT ![e] = t]
      /\ sectionLock' = [sectionLock EXCEPT ![s] = t] /\ examLock' = examLock
      /\ pc' = [pc EXCEPT ![t] = label]
      /\ UNCHANGED <<section, since, log, records, score, rewound, today, job, scenario>>
  BY <1>1 DEF TakePlacement, Writable, Goto, tables
<1>3. label \in Labels /\ label \in Moving
      /\ label \notin {"patch", "delete"} \cup Sheets \cup Marking
  BY DEF Labels, Moving, Placed, Sheets, Marking
<1>4. /\ pc' \in [Tx -> Labels] /\ pc'[t] = label /\ job' \in [Tx -> Jobs]
      /\ \A x \in Tx : x # t => pc'[x] = pc[x] /\ job'[x] = job[x]
  BY <1>2, <1>3 DEF PlacementInv, Shape, TypeOK, Jobs
<1>5. /\ rowLock' \in [Enrollments -> Tx \cup {None}] /\ rowLock'[e] = t
      /\ \A x \in Enrollments : x # e => rowLock'[x] = rowLock[x]
      /\ sectionLock' \in [Sections -> Tx \cup {None}] /\ {yearLock', examLock'} \subseteq Tx \cup {None}
  BY <1>2 DEF PlacementInv, Shape, TypeOK
<1>6. /\ records' \subseteq Records /\ score' \in [Enrollments -> Sections \cup {None}] /\ today' \in Days
  BY <1>2 DEF PlacementInv, Shape, TypeOK
<1>7. JobOK(t)'
  BY <1>1, <1>2, <1>3, <1>4, <1>5 DEF JobOK
<1>8. \A x \in Enrollments : section[x] = None /\ rowLock[x] = None => rowLock'[x] = None
  BY <1>1, <1>5, ConstantFacts
<1>9. \A x \in Enrollments : rowLock[x] \notin {None, t} => rowLock'[x] = rowLock[x]
  BY <1>2, <1>5
<1> QED BY <1>2, <1>4, <1>5, <1>6, <1>7, <1>8, <1>9, QuietGood

LEMMA LockMoveGood ==
    ASSUME PlacementInv, NEW t \in Tx, LockTransfer(t) \/ LockCorrect(t)
    PROVE  PlacementInv'
<1>1. pc[t] \in Moving
  BY DEF LockTransfer, LockCorrect, Moving
<1>2. CASE Refuse(t)
  BY <1>2, RefuseGood
<1>3. CASE ~Refuse(t)
  <2>1. /\ section[job[t].of] = job[t].section /\ TakePlacement(t)
        /\ UNCHANGED <<tables, today, job, scenario>>
        /\ Goto(t, "transfer") \/ Goto(t, "check correct")
    BY <1>3 DEF LockTransfer, LockCorrect
  <2>2. {"transfer", "check correct"} \subseteq Placed
    BY DEF Placed
  <2> QED BY <1>1, <2>1, <2>2, TakeGood
<1> QED BY <1>2, <1>3

\* A step that may lock a section or the exam, but no enrollment.
LEMMA GotoGood ==
    ASSUME PlacementInv, NEW t \in Tx, NEW label \in Labels, Goto(t, label),
           UNCHANGED <<tables, today, job, scenario, yearLock, rowLock>>,
           examLock' \in Tx \cup {None}, sectionLock' \in [Sections -> Tx \cup {None}],
           \/ pc[t] \in Placed /\ label \in Placed
           \/ pc[t] \in Sheets /\ label \in Sheets
           \/ pc[t] \in Marking /\ label \in Marking
    PROVE  PlacementInv'
<1>1. /\ pc' = [pc EXCEPT ![t] = label]
      /\ UNCHANGED <<section, since, log, records, score, rewound, today, job, scenario, yearLock, rowLock>>
  BY DEF Goto, tables
<1>2. /\ pc' \in [Tx -> Labels] /\ pc'[t] = label /\ job' \in [Tx -> Jobs]
      /\ \A x \in Tx : x # t => pc'[x] = pc[x] /\ job'[x] = job[x]
  BY <1>1 DEF PlacementInv, Shape, TypeOK, Jobs
<1>3. /\ rowLock' \in [Enrollments -> Tx \cup {None}] /\ {yearLock', examLock'} \subseteq Tx \cup {None}
      /\ records' \subseteq Records /\ score' \in [Enrollments -> Sections \cup {None}] /\ today' \in Days
  BY <1>1 DEF PlacementInv, Shape, TypeOK
<1>4. JobOK(t)
  BY DEF PlacementInv
<1>5. JobOK(t)'
  <2>1. CASE pc[t] \in Placed /\ label \in Placed
    BY <1>1, <1>2, <1>4, <2>1 DEF JobOK, Placed, Moving, Sheets, Marking
  <2>2. CASE pc[t] \in Sheets /\ label \in Sheets
    BY <1>1, <1>2, <1>4, <2>2 DEF JobOK, Placed, Moving, Sheets, Marking
  <2>3. CASE pc[t] \in Marking /\ label \in Marking
    BY <1>1, <1>2, <1>4, <2>3 DEF JobOK, Placed, Moving, Sheets, Marking
  <2> QED BY <2>1, <2>2, <2>3
<1> QED BY <1>1, <1>2, <1>3, <1>5, QuietGood

LEMMA CheckCorrectGood ==
    ASSUME PlacementInv, NEW t \in Tx, CheckCorrect(t)
    PROVE  PlacementInv'
<1>1. CASE Refuse(t)
  BY <1>1, RefuseGood
<1>2. CASE ~Refuse(t)
  <2>1. /\ pc[t] = "check correct" /\ Goto(t, "correct")
        /\ UNCHANGED <<tables, today, job, scenario, yearLock, rowLock, examLock, sectionLock>>
    BY <1>2 DEF CheckCorrect, locks
  <2>2. pc[t] \in Placed /\ "correct" \in Placed /\ "correct" \in Labels
    BY <2>1 DEF Placed, Moving, Labels
  <2>3. examLock' \in Tx \cup {None} /\ sectionLock' \in [Sections -> Tx \cup {None}]
    BY <2>1 DEF PlacementInv, Shape, TypeOK
  <2> QED BY <2>1, <2>2, <2>3, GotoGood
<1> QED BY <1>1, <1>2

LEMMA LockOtherGood ==
    ASSUME PlacementInv, NEW t \in Tx, LockSheet(t) \/ LockScore(t)
    PROVE  PlacementInv'
<1>1. CASE Refuse(t)
  BY <1>1, RefuseGood
<1>2. CASE ~Refuse(t)
  <2>1. /\ UNCHANGED <<tables, today, job, scenario, yearLock, rowLock>>
        /\ examLock' \in {examLock, t} /\ sectionLock' = [sectionLock EXCEPT ![job[t].to] = t]
        /\ \/ pc[t] = "lock sheet" /\ Goto(t, "sheet")
           \/ pc[t] = "lock score" /\ Goto(t, "score")
    BY <1>2 DEF LockSheet, LockScore
  <2>2. {"lock sheet", "sheet"} = Sheets /\ {"lock score", "score"} = Marking
        /\ "sheet" \in Labels /\ "score" \in Labels
    BY DEF Sheets, Marking, Labels
  <2>3. examLock' \in Tx \cup {None} /\ sectionLock' \in [Sections -> Tx \cup {None}]
    BY <2>1 DEF PlacementInv, Shape, TypeOK
  <2> QED BY <2>1, <2>2, <2>3, GotoGood
<1> QED BY <1>1, <1>2

LEMMA StoreGood ==
    ASSUME PlacementInv, NEW t \in Tx, StoreSheet(t) \/ StoreScore(t)
    PROVE  PlacementInv'
<1>1. CASE Refuse(t)
  BY <1>1, RefuseGood
<1>2. CASE ~Refuse(t)
  <2>1. Finish(t) /\ UNCHANGED <<section, since, log, rewound>>
    BY <1>2 DEF StoreSheet, StoreScore
  <2>2. /\ records \subseteq Records /\ score \in [Enrollments -> Sections \cup {None}]
        /\ today \in Days /\ job \in [Tx -> Jobs] /\ JobOK(t)
    BY DEF PlacementInv, Shape, TypeOK, Jobs
  <2>3. records' \subseteq Records /\ score' \in [Enrollments -> Sections \cup {None}]
    <3>1. CASE StoreSheet(t)
      <4>1. job[t].to \in Sections /\ job[t].roster \subseteq Enrollments
        BY <2>2, <3>1 DEF StoreSheet, JobOK, Sheets, Jobs
      <4>2. \A e \in job[t].roster : [section |-> job[t].to, day |-> today, who |-> e] \in Records
        BY <2>2, <4>1 DEF Records
      <4>3. /\ records' = records \cup {[section |-> job[t].to, day |-> today, who |-> e] : e \in job[t].roster}
            /\ score' = score
        BY <1>2, <3>1 DEF StoreSheet
      <4> QED BY <2>2, <4>2, <4>3
    <3>2. CASE StoreScore(t)
      <4>1. job[t].of \in Enrollments /\ job[t].to \in Sections
        BY <2>2, <3>2 DEF StoreScore, JobOK, Marking
      <4>2. records' = records /\ score' = [score EXCEPT ![job[t].of] = job[t].to]
        BY <1>2, <3>2 DEF StoreScore
      <4> QED BY <2>2, <4>1, <4>2
    <3> QED BY <3>1, <3>2
  <2> QED BY <2>1, <2>3, FinishFacts, QuietGood
<1> QED BY <1>1, <1>2

LEMMA NextDayGood ==
    ASSUME PlacementInv, NextDay \/ UNCHANGED vars
    PROVE  PlacementInv'
<1>1. /\ UNCHANGED <<section, since, log, records, score, rewound, pc, job, scenario>>
      /\ UNCHANGED <<yearLock, rowLock, sectionLock, examLock>>
  BY DEF NextDay, vars, locks
<1>2. /\ records' \subseteq Records /\ score' \in [Enrollments -> Sections \cup {None}]
      /\ pc' \in [Tx -> Labels] /\ job' \in [Tx -> Jobs] /\ {yearLock', examLock'} \subseteq Tx \cup {None}
      /\ rowLock' \in [Enrollments -> Tx \cup {None}] /\ sectionLock' \in [Sections -> Tx \cup {None}]
  BY <1>1 DEF PlacementInv, Shape, TypeOK, Jobs
<1>3. today' \in Days
  <2>1. today \in 1..LastDay /\ scenario.last \in 1..LastDay /\ LastDay \in Nat /\ Days = 1..LastDay
    BY ConstantFacts DEF PlacementInv, Shape, TypeOK
  <2>2. today' = today \/ (today < scenario.last /\ today' = today + 1)
    BY DEF NextDay, vars
  <2> QED BY <2>1, <2>2
<1> QED BY <1>1, <1>2, <1>3, ConstantFacts, QuietGood

LEMMA InitGood == Init => PlacementInv
<1> SUFFICES ASSUME Init PROVE PlacementInv
  OBVIOUS
<1>1. /\ scenario \in Scenarios /\ section = scenario.placed /\ section \in [Enrollments -> Sections \cup {None}]
      /\ since = [e \in Enrollments |-> IF section[e] = None THEN 0 ELSE 1]
      /\ log = [e \in Enrollments |-> <<>>] /\ records = {} /\ score = [e \in Enrollments |-> None]
      /\ today = 1 /\ pc = [t \in Tx |-> "idle"] /\ job = [t \in Tx |-> NoJob]
      /\ yearLock = None /\ rowLock = [e \in Enrollments |-> None]
      /\ sectionLock = [s \in Sections |-> None] /\ examLock = None /\ rewound = {}
  BY ConstantFacts DEF Init
<1>2. 1 \in Days /\ 0 \in 0..LastDay /\ 1 \in 0..LastDay
  <2>1. LastDay \in Nat /\ ExamDay \in 1..LastDay
    BY PlacementAssumption DEF Days
  <2> QED BY <2>1 DEF Days
<1>3. NoJob \in Jobs
  BY DEF NoJob, Jobs
<1>4. since \in [Enrollments -> 0..LastDay]
  BY <1>1, <1>2
<1>5. TypeOK
  BY <1>1, <1>2, <1>3, <1>4 DEF TypeOK, Jobs
<1>6. Shape
  BY <1>1, <1>5 DEF Shape, Labels
<1>7. ASSUME NEW e \in Enrollments PROVE RowOK(e)
  <2>1. log[e] = <<>>
    BY <1>1
  <2>2. Chain(e)
    BY <2>1 DEF Chain
  <2> QED BY <1>1, <2>1, <2>2 DEF RowOK
<1>8. ASSUME NEW t \in Tx PROVE JobOK(t)
  BY <1>1 DEF JobOK, Moving, Placed, Sheets, Marking
<1> QED BY <1>6, <1>7, <1>8 DEF PlacementInv

LEMMA StepGood == PlacementInv /\ [Next]_vars => PlacementInv'
<1> SUFFICES ASSUME PlacementInv, [Next]_vars PROVE PlacementInv'
  OBVIOUS
<1>1. ASSUME NEW t \in Tx, Request(t) PROVE PlacementInv'
  BY <1>1, StartRowGood, EnrollGood, StartMoveGood DEF Request
<1>2. ASSUME NEW t \in Tx, Step(t) PROVE PlacementInv'
  BY <1>2, PatchGood, RemoveGood, LockMoveGood, TransferGood, CheckCorrectGood, LockOtherGood,
     StoreGood, RefuseGood DEF Step, Abort
<1>3. ASSUME NEW t \in Tx, NEW s \in Sections, StartSheet(t, s) PROVE PlacementInv'
  BY <1>3, StartSheetGood
<1> QED BY <1>1, <1>2, <1>3, NextDayGood DEF Next

-----------------------------------------------------------------------------
(* The first and the last of some moves                                       *)

LEMMA MinIn ==
    ASSUME NEW n \in Nat, NEW S \in SUBSET (1..n), S # {}
    PROVE  Min(S) \in S /\ \A y \in S : Min(S) <= y
<1>1. PICK F : F = {1..k : k \in S}
  OBVIOUS
<1>2. PICK N : N = 1..n
  OBVIOUS
<1>3. IsFiniteSet(N) /\ F \in SUBSET (SUBSET N) /\ F # {}
  <2>1. IsFiniteSet(N)
    BY <1>2, FS_Interval
  <2>2. \A k \in S : 1..k \in SUBSET N
    BY <1>2
  <2>3. \A U \in F : U \in SUBSET N
    BY <1>1, <2>2
  <2> QED BY <1>1, <2>1, <2>3
<1>4. PICK T \in F : \A U \in F : U \subseteq T => U = T
  BY <1>3, SmallestSubset
<1>5. PICK k \in S : T = 1..k
  BY <1>1
<1>6. ASSUME NEW y \in S PROVE k <= y
  <2>1. k \in Nat /\ y \in Nat /\ k >= 1 /\ 1..y \in F
    BY <1>1
  <2>2. ASSUME y < k PROVE FALSE
    <3>1. 1..y \subseteq 1..k /\ k \in 1..k /\ k \notin 1..y
      BY <2>1, <2>2
    <3> QED BY <1>4, <1>5, <2>1, <3>1
  <2> QED BY <2>1, <2>2
<1> QED BY <1>6 DEF Min

LEMMA MaxIn ==
    ASSUME NEW n \in Nat, NEW S \in SUBSET (1..n), S # {}
    PROVE  Max(S) \in S /\ \A y \in S : Max(S) >= y
<1>1. PICK F : F = {k..n : k \in S}
  OBVIOUS
<1>2. PICK N : N = 1..n
  OBVIOUS
<1>3. IsFiniteSet(N) /\ F \in SUBSET (SUBSET N) /\ F # {}
  <2>1. IsFiniteSet(N)
    BY <1>2, FS_Interval
  <2>2. \A k \in S : k..n \in SUBSET N
    BY <1>2
  <2>3. \A U \in F : U \in SUBSET N
    BY <1>1, <2>2
  <2> QED BY <1>1, <2>1, <2>3
<1>4. PICK T \in F : \A U \in F : U \subseteq T => U = T
  BY <1>3, SmallestSubset
<1>5. PICK k \in S : T = k..n
  BY <1>1
<1>6. ASSUME NEW y \in S PROVE k >= y
  <2>1. k \in Nat /\ y \in Nat /\ k <= n /\ y..n \in F
    BY <1>1
  <2>2. ASSUME y > k PROVE FALSE
    <3>1. y..n \subseteq k..n /\ k \in k..n /\ k \notin y..n
      BY <2>1, <2>2
    <3> QED BY <1>4, <1>5, <2>1, <3>1
  <2> QED BY <2>1, <2>2
<1> QED BY <1>6 DEF Max

\* One more move, at the end, is the last and, after others, not the first.
LEMMA OneMore ==
    ASSUME NEW n \in Nat, NEW S \in SUBSET (1..n)
    PROVE  /\ Max(S \cup {n + 1}) = n + 1
           /\ Min({n + 1}) = n + 1
           /\ S # {} => Min(S \cup {n + 1}) = Min(S)
<1>1. PICK T : T = S \cup {n + 1}
  OBVIOUS
<1>2. n + 1 \in Nat /\ T \in SUBSET (1..(n + 1)) /\ T # {} /\ n + 1 \in T
  BY <1>1
<1>3. Max(T) \in T /\ \A y \in T : Max(T) >= y
  BY <1>2, MaxIn
<1>4. Max(T) = n + 1
  <2>1. PICK b \in T : b = Max(T) /\ \A y \in T : b >= y
    BY <1>3
  <2>2. b \in 1..(n + 1) /\ b >= n + 1
    BY <1>2, <2>1
  <2> QED BY <2>1, <2>2
<1>5. Min({n + 1}) = n + 1
  <2>1. {n + 1} \in SUBSET (1..(n + 1)) /\ {n + 1} # {}
    BY <1>2
  <2> QED BY <1>2, <2>1, MinIn
<1>6. ASSUME S # {} PROVE Min(T) = Min(S)
  <2>1. PICK a \in S : a = Min(S) /\ \A y \in S : a <= y
    BY <1>6, MinIn
  <2>2. PICK b \in T : b = Min(T) /\ \A y \in T : b <= y
    BY <1>2, MinIn
  <2>3. a \in Nat /\ b \in Nat /\ a <= n /\ a \in T
    BY <1>1, <1>2, <2>1
  <2>4. b <= a
    BY <2>2, <2>3
  <2>5. b \in S
    <3>1. b # n + 1
      BY <2>3, <2>4
    <3> QED BY <1>1, <2>2, <3>1
  <2>6. a <= b
    BY <2>1, <2>5
  <2> QED BY <2>1, <2>2, <2>3, <2>4, <2>6
<1> QED BY <1>1, <1>4, <1>5, <1>6

-----------------------------------------------------------------------------
(* Where the register says that a student was                                 *)

OnExamDay(e) == SectionOnExamDay(e, section[e])

\* What the register says of today and of the exam day is where the student was.
DaysOK(e) ==
    /\ since[e] <= today
    /\ \A i \in 1..Len(log[e]) : log[e][i].day <= today
    /\ section[e] = None => score[e] = None
    /\ section[e] # None /\ e \notin rewound =>
          stay[e][today] # <<>> /\ Head(stay[e][today]) = BeganIn(e)

SatOK(e) ==
    section[e] # None /\ e \notin rewound /\ since[e] <= ExamDay =>
        /\ today <= ExamDay => OnExamDay(e) = section[e]
        /\ today >= ExamDay => /\ stay[e][ExamDay] # <<>>
                               /\ stay[e][ExamDay][Len(stay[e][ExamDay])] = OnExamDay(e)

RecordOK(r) ==
    /\ section[r.who] # None /\ r.day <= today
    /\ r.who \notin rewound => stay[r.who][r.day] # <<>> /\ Head(stay[r.who][r.day]) = r.section

\* The row or a request that t has begun has the student in the section.
Claimed(t, e, s) ==
    \/ pc[t] \in {"patch"} \cup Marking /\ job[t].of = e /\ job[t].section = s
    \/ pc[t] = "sheet" /\ e \in job[t].roster /\ job[t].to = s
Claim(e, s) == section[e] = s \/ \E t \in Tx : Claimed(t, e, s)
Agreed(e) == \A a, b \in Sections : Claim(e, a) /\ Claim(e, b) => a = b

\* An enrollment that never moved has been in one section all the time.
Unmoved(e) == log[e] = <<>> /\ e \notin rewound

\* What a request has checked stays true while it holds its locks.
HeldOK(t) ==
    /\ pc[t] \in Placed => sectionLock[job[t].section] = t
    /\ pc[t] = "correct" => /\ Transfers(job[t].of) = {} /\ score[job[t].of] = None
                            /\ \A r \in records : r.who # job[t].of
    /\ pc[t] = "sheet" =>
          /\ sectionLock[job[t].to] = t
          /\ \A e \in job[t].roster :
                since[e] # 0 /\ (section[e] # None /\ e \notin rewound => BeganIn(e) = job[t].to)
    /\ pc[t] \in Marking =>
          /\ job[t].section \in Sections /\ since[job[t].of] # 0
          /\ section[job[t].of] # None /\ job[t].of \notin rewound /\ Transfers(job[t].of) = {} =>
                Outdated(t) \/ section[job[t].of] = job[t].section
    /\ pc[t] = "score" =>
          /\ sectionLock[job[t].to] = t /\ examLock = t
          /\ score[job[t].of] \in {None, job[t].to}
          /\ score[job[t].of] = None /\ job[t].of \notin rewound =>
                /\ since[job[t].of] <= ExamDay
                /\ \/ SectionOnExamDay(job[t].of, job[t].section) = job[t].to
                   \/ Outdated(t) /\ job[t].to = job[t].section

StayShape == stay \in [Enrollments -> [Days -> Seq(Sections)]]

BelongInv ==
    /\ PlacementInv /\ StayShape
    /\ \A e \in Enrollments : DaysOK(e) /\ SatOK(e)
    /\ \A e \in Enrollments : Unmoved(e) => Agreed(e)
    /\ \A r \in records : RecordOK(r)
    /\ \A t \in Tx : HeldOK(t)

-----------------------------------------------------------------------------
(* What a step of t may do to an enrollment                                   *)

Same(e) == /\ section'[e] = section[e] /\ since'[e] = since[e]
           /\ log'[e] = log[e] /\ stay'[e] = stay[e]

Entered(e) ==
    /\ since[e] = 0 /\ since'[e] = today /\ log'[e] = log[e] /\ section'[e] \in Sections
    /\ stay'[e] = [d \in Days |-> IF d = today THEN <<section'[e]>> ELSE <<>>]

Left(e) ==
    /\ section'[e] = None /\ since'[e] = since[e] /\ log'[e] = log[e]
    /\ score'[e] = None /\ \A r \in records : r.who # e

\* A PATCH inserts a deleted row again, or it writes an old section.
Restored(t, e) ==
    /\ pc[t] = "patch" /\ job[t].of = e /\ section[e] = None
    /\ section'[e] = job[t].section /\ since'[e] = since[e] /\ log'[e] = log[e]
    /\ stay'[e] = [d \in Days |-> IF d \in since[e]..today THEN <<job[t].section>> ELSE <<>>]

Overwritten(e) ==
    /\ section[e] # None /\ section'[e] # None /\ since'[e] = since[e] /\ log'[e] = log[e]
    /\ stay'[e] = stay[e] /\ e \in rewound'

Relocated(t, e, m) ==
    /\ pc[t] \in Placed /\ job[t].of = e /\ m \in Moves
    /\ m.old = job[t].section /\ m.new = job[t].to /\ m.day = today
    /\ section'[e] = job[t].to /\ since'[e] = since[e] /\ log'[e] = Append(log[e], m)

Transferred(t, e) ==
    /\ pc[t] = "transfer"
    /\ \E m \in Moves : m.event = "transfer" /\ Relocated(t, e, m)
    /\ stay'[e] = [stay[e] EXCEPT ![today] = Append(@, job[t].to)]

Rewrites(t, e) ==
    /\ pc[t] = "correct"
    /\ \E m \in Moves : m.event = "correct" /\ Relocated(t, e, m)
    /\ stay'[e] = [d \in Days |-> IF stay[e][d] = <<>> THEN <<>> ELSE <<job[t].to>>]

RowStep(t, e) ==
    \/ Same(e) \/ Entered(e) \/ Left(e) \/ Restored(t, e) \/ Overwritten(e)
    \/ Transferred(t, e) \/ Rewrites(t, e)

LEMMA Typed ==
    ASSUME PlacementInv
    PROVE  /\ section \in [Enrollments -> Sections \cup {None}] /\ since \in [Enrollments -> 0..LastDay]
           /\ log \in [Enrollments -> Seq(Moves)] /\ records \subseteq Records
           /\ score \in [Enrollments -> Sections \cup {None}] /\ today \in Nat /\ today \in Days /\ today # 0
           /\ job \in [Tx -> Jobs] /\ pc \in [Tx -> Labels] /\ scenario \in Scenarios
           /\ rowLock \in [Enrollments -> Tx \cup {None}] /\ sectionLock \in [Sections -> Tx \cup {None}]
           /\ LastDay \in Nat /\ ExamDay \in Nat /\ ExamDay \in Days /\ Days = 1..LastDay /\ Days \subseteq Nat
           /\ \A e \in Enrollments : since[e] \in Nat
<1>1. LastDay \in Nat /\ ExamDay \in Days /\ Days = 1..LastDay
  BY PlacementAssumption DEF Days
<1> QED BY <1>1 DEF PlacementInv, Shape, TypeOK, Jobs

LEMMA TypedLog ==
    ASSUME PlacementInv, NEW e \in Enrollments
    PROVE  /\ log[e] \in Seq(Moves) /\ Len(log[e]) \in Nat
           /\ \A i \in 1..Len(log[e]) : log[e][i] \in Moves
           /\ Transfers(e) \in SUBSET (1..Len(log[e])) /\ TransfersToday(e) \in SUBSET Transfers(e)
<1>1. log[e] \in Seq(Moves)
  BY Typed
<1> QED BY <1>1 DEF Transfers, TransfersToday

\* While the log is the same, it says the same of any day.
LEMMA LogSame ==
    ASSUME NEW e \in Enrollments, log'[e] = log[e]
    PROVE  /\ Transfers(e)' = Transfers(e)
           /\ today' = today => TransfersToday(e)' = TransfersToday(e)
           /\ today' = today /\ section'[e] = section[e] => BeganIn(e)' = BeganIn(e)
           /\ \A c : SectionOnExamDay(e, c)' = SectionOnExamDay(e, c)
<1>1. Transfers(e)' = Transfers(e)
  BY DEF Transfers
<1>2. today' = today => TransfersToday(e)' = TransfersToday(e)
  BY <1>1 DEF TransfersToday
<1>3. today' = today /\ section'[e] = section[e] => BeganIn(e)' = BeganIn(e)
  BY <1>2 DEF BeganIn
<1>4. \A c : SectionOnExamDay(e, c)' = SectionOnExamDay(e, c)
  BY <1>1 DEF SectionOnExamDay
<1> QED BY <1>1, <1>2, <1>3, <1>4

\* Without a transfer the register says where the row is.
LEMMA NoTransfer ==
    ASSUME NEW e \in Enrollments, Transfers(e) = {}
    PROVE  BeganIn(e) = section[e] /\ \A c : SectionOnExamDay(e, c) = c
BY DEF BeganIn, TransfersToday, SectionOnExamDay

LEMMA WithTransfer ==
    ASSUME NEW e \in Enrollments, Transfers(e) # {}
    PROVE  \A c : SectionOnExamDay(e, c) = OnExamDay(e)
BY DEF SectionOnExamDay, OnExamDay

LEMMA LogLonger ==
    ASSUME PlacementInv, NEW e \in Enrollments, NEW m \in Moves, log'[e] = Append(log[e], m),
           NEW n \in Nat, n = Len(log[e])
    PROVE  /\ Len(log'[e]) = n + 1 /\ log'[e][n + 1] = m
           /\ \A i \in 1..n : log'[e][i] = log[e][i]
           /\ m.event # "transfer" => Transfers(e)' = Transfers(e)
           /\ m.event = "transfer" => Transfers(e)' = Transfers(e) \cup {n + 1}
           /\ m.event = "transfer" /\ m.day = today /\ today' = today =>
                TransfersToday(e)' = TransfersToday(e) \cup {n + 1}
<1>1. PICK past \in Seq(Moves) : past = log[e] /\ Len(past) = n
  BY TypedLog
<1>2. PICK now : now = Append(past, m)
  OBVIOUS
<1>3. /\ Len(now) = n + 1 /\ now[n + 1] = m
      /\ \A i \in 1..n : now[i] = past[i]
  BY <1>1, <1>2
<1>4. log'[e] = now
  BY <1>1, <1>2
<1>5. Transfers(e)' = {i \in 1..(n + 1) : now[i].event = "transfer"}
  BY <1>3, <1>4 DEF Transfers
<1>6. Transfers(e) = {i \in 1..n : past[i].event = "transfer"}
  BY <1>1 DEF Transfers
<1>7. 1..(n + 1) = (1..n) \cup {n + 1}
  OBVIOUS
<1>8. m.event # "transfer" => Transfers(e)' = Transfers(e)
  BY <1>3, <1>5, <1>6, <1>7
<1>9. m.event = "transfer" => Transfers(e)' = Transfers(e) \cup {n + 1}
  BY <1>3, <1>5, <1>6, <1>7
<1>10. ASSUME m.event = "transfer", m.day = today, today' = today
       PROVE  TransfersToday(e)' = TransfersToday(e) \cup {n + 1}
  <2>1. TransfersToday(e)' = {i \in Transfers(e) \cup {n + 1} : now[i].day = today}
    BY <1>4, <1>9, <1>10 DEF TransfersToday
  <2>2. TransfersToday(e) = {i \in Transfers(e) : past[i].day = today}
    BY <1>1 DEF TransfersToday
  <2>3. \A i \in Transfers(e) : now[i] = past[i]
    BY <1>3, <1>6
  <2> QED BY <1>3, <1>10, <2>1, <2>2, <2>3
<1> QED BY <1>1, <1>3, <1>4, <1>8, <1>9, <1>10

\* A request that has checked a placement moves the row from its copy's section.
LEMMA RelocateFacts ==
    ASSUME BelongInv, NEW t \in Tx, NEW e \in Enrollments, NEW m \in Moves, Relocated(t, e, m)
    PROVE  /\ section[e] = job[t].section /\ section[e] # None /\ section[e] \in Sections
           /\ m.old = section[e] /\ section'[e] = m.new /\ section'[e] \in Sections /\ section'[e] # None
           /\ m.day = today /\ since[e] # 0 /\ rowLock[e] = t /\ sectionLock[section[e]] = t
<1>1. /\ job[t].of = e /\ job[t].section \in Sections /\ job[t].to \in Sections
      /\ rowLock[e] = t /\ section[e] = job[t].section /\ sectionLock[job[t].section] = t
  BY DEF BelongInv, PlacementInv, JobOK, HeldOK, Relocated, Moving
<1>2. section[e] # None /\ job[t].to # None
  BY <1>1, ConstantFacts DEF BelongInv
<1>3. since[e] # 0
  BY <1>1, <1>2 DEF BelongInv, PlacementInv, RowOK
<1> QED BY <1>1, <1>2, <1>3 DEF Relocated

LEMMA TransferTells ==
    ASSUME BelongInv, NEW t \in Tx, NEW e \in Enrollments, Transferred(t, e), today' = today
    PROVE  /\ BeganIn(e)' = BeganIn(e) /\ Transfers(e)' # {}
           /\ \A c : today <= ExamDay => SectionOnExamDay(e, c)' = section'[e]
           /\ \A c : today > ExamDay => SectionOnExamDay(e, c)' = OnExamDay(e)
<1>1. PICK m \in Moves : m.event = "transfer" /\ Relocated(t, e, m)
  BY DEF Transferred
<1>2. m.old = section[e] /\ m.new = section'[e] /\ m.day = today /\ log'[e] = Append(log[e], m)
  BY <1>1, RelocateFacts DEF Relocated
<1>3. PlacementInv /\ today \in Nat /\ ExamDay \in Nat
  BY Typed DEF BelongInv
<1>4. PICK n \in Nat : n = Len(log[e])
  BY <1>3, TypedLog
<1>5. /\ log'[e][n + 1] = m /\ \A i \in 1..n : log'[e][i] = log[e][i]
      /\ Transfers(e)' = Transfers(e) \cup {n + 1}
      /\ TransfersToday(e)' = TransfersToday(e) \cup {n + 1}
  BY <1>1, <1>2, <1>3, <1>4, LogLonger
<1>6. Transfers(e) \in SUBSET (1..n) /\ TransfersToday(e) \in SUBSET (1..n)
  BY <1>3, <1>4, TypedLog
<1>7. BeganIn(e)' = BeganIn(e)
  <2>1. BeganIn(e)' = log'[e][Min(TransfersToday(e) \cup {n + 1})].old
    BY <1>5 DEF BeganIn
  <2>2. CASE TransfersToday(e) = {}
    <3>1. Min(TransfersToday(e) \cup {n + 1}) = n + 1
      BY <1>6, <2>2, OneMore
    <3> QED BY <1>2, <1>5, <2>1, <2>2, <3>1 DEF BeganIn
  <2>3. CASE TransfersToday(e) # {}
    <3>1. Min(TransfersToday(e) \cup {n + 1}) = Min(TransfersToday(e)) /\ Min(TransfersToday(e)) \in 1..n
      BY <1>6, <2>3, OneMore, MinIn
    <3> QED BY <1>5, <2>1, <2>3, <3>1 DEF BeganIn
  <2> QED BY <2>2, <2>3
<1>8. PICK past \in SUBSET (1..n) : past = {i \in Transfers(e) : log[e][i].day <= ExamDay}
  BY <1>6
<1>9. PICK now : now = {i \in Transfers(e) \cup {n + 1} : log'[e][i].day <= ExamDay}
  OBVIOUS
<1>10. ASSUME NEW c
       PROVE  SectionOnExamDay(e, c)' = IF now = {} THEN log'[e][Min(Transfers(e) \cup {n + 1})].old
                                        ELSE log'[e][Max(now)].new
  BY <1>5, <1>9 DEF SectionOnExamDay
<1>11. ASSUME NEW c, today <= ExamDay PROVE SectionOnExamDay(e, c)' = section'[e]
  <2>1. now = past \cup {n + 1}
    BY <1>2, <1>5, <1>6, <1>8, <1>9, <1>11
  <2>2. Max(now) = n + 1 /\ now # {}
    BY <1>8, <2>1, OneMore
  <2> QED BY <1>2, <1>5, <1>10, <2>2
<1>12. ASSUME NEW c, today > ExamDay PROVE SectionOnExamDay(e, c)' = OnExamDay(e)
  <2>1. now = past
    <3>1. ~(log'[e][n + 1].day <= ExamDay) /\ n + 1 \notin Transfers(e)
      BY <1>2, <1>3, <1>5, <1>6, <1>12
    <3>2. \A i \in Transfers(e) : log'[e][i] = log[e][i]
      BY <1>5, <1>6
    <3> QED BY <1>8, <1>9, <3>1, <3>2
  <2>2. CASE past # {}
    <3>1. Max(past) \in 1..n /\ Transfers(e) # {}
      BY <1>8, <2>2, MaxIn
    <3>2. OnExamDay(e) = log[e][Max(past)].new
      BY <1>8, <2>2, <3>1 DEF OnExamDay, SectionOnExamDay
    <3> QED BY <1>5, <1>10, <2>1, <2>2, <3>1, <3>2
  <2>3. CASE past = {} /\ Transfers(e) = {}
    <3>1. Min(Transfers(e) \cup {n + 1}) = n + 1
      BY <2>3, OneMore
    <3>2. OnExamDay(e) = section[e]
      BY <2>3, NoTransfer DEF OnExamDay
    <3> QED BY <1>2, <1>5, <1>10, <2>1, <2>3, <3>1, <3>2
  <2>4. CASE past = {} /\ Transfers(e) # {}
    <3>1. Min(Transfers(e) \cup {n + 1}) = Min(Transfers(e)) /\ Min(Transfers(e)) \in 1..n
      BY <1>6, <2>4, OneMore, MinIn
    <3>2. OnExamDay(e) = log[e][Min(Transfers(e))].old
      BY <1>8, <2>4 DEF OnExamDay, SectionOnExamDay
    <3> QED BY <1>5, <1>10, <2>1, <2>4, <3>1, <3>2
  <2> QED BY <2>2, <2>3, <2>4
<1> QED BY <1>5, <1>7, <1>11, <1>12

LEMMA CorrectTells ==
    ASSUME BelongInv, NEW t \in Tx, NEW e \in Enrollments, Rewrites(t, e), today' = today
    PROVE  /\ Transfers(e) = {} /\ Transfers(e)' = {} /\ score[e] = None
           /\ \A r \in records : r.who # e
<1>1. PICK m \in Moves : m.event = "correct" /\ Relocated(t, e, m)
  BY DEF Rewrites
<1>2. Transfers(e) = {} /\ score[e] = None /\ \A r \in records : r.who # e
  BY <1>1 DEF Rewrites, Relocated, BelongInv, HeldOK
<1>3. PlacementInv /\ log'[e] = Append(log[e], m)
  BY <1>1 DEF BelongInv, Relocated
<1>4. PICK n \in Nat : n = Len(log[e])
  BY <1>3, TypedLog
<1>5. Transfers(e)' = Transfers(e)
  BY <1>1, <1>3, <1>4, LogLonger
<1> QED BY <1>2, <1>5

-----------------------------------------------------------------------------
(* The register keeps saying where the students were                          *)

LEMMA RowTyped ==
    ASSUME BelongInv, NEW e \in Enrollments
    PROVE  /\ section[e] \in Sections \cup {None} /\ None \notin Sections
           /\ since[e] \in Nat /\ today \in Nat /\ today \in Days /\ ExamDay \in Nat /\ ExamDay \in Days
           /\ today # 0 /\ Days \subseteq Nat
           /\ stay[e] \in [Days -> Seq(Sections)] /\ DaysOK(e) /\ SatOK(e) /\ RowOK(e)
           /\ section[e] # None => since[e] # 0
           /\ since[e] = 0 => section[e] = None /\ log[e] = <<>>
           /\ PlacementInv
BY Typed, ConstantFacts DEF BelongInv, StayShape, PlacementInv, RowOK

LEMMA SameRowGood ==
    ASSUME BelongInv, NEW e \in Enrollments, Same(e), today' = today, rewound \subseteq rewound',
           section[e] = None => score'[e] = None
    PROVE  DaysOK(e)' /\ SatOK(e)'
<1>1. DaysOK(e) /\ SatOK(e) /\ BeganIn(e)' = BeganIn(e)
      /\ \A c : SectionOnExamDay(e, c)' = SectionOnExamDay(e, c)
  BY RowTyped, LogSame DEF Same
<1>2. DaysOK(e)'
  BY <1>1 DEF DaysOK, Same
<1>3. OnExamDay(e)' = OnExamDay(e)
  BY <1>1 DEF OnExamDay, Same
<1>4. SatOK(e)'
  BY <1>1, <1>3 DEF SatOK, Same
<1> QED BY <1>2, <1>4

\* A row without moves that says since when the student is in its section.
LEMMA FreshRowGood ==
    ASSUME BelongInv, NEW e \in Enrollments, log'[e] = <<>>, today' = today, section'[e] # None,
           since'[e] \in Nat, since'[e] <= today,
           stay'[e][today] # <<>> /\ Head(stay'[e][today]) = section'[e],
           since'[e] <= ExamDay /\ today >= ExamDay =>
                /\ stay'[e][ExamDay] # <<>>
                /\ stay'[e][ExamDay][Len(stay'[e][ExamDay])] = section'[e]
    PROVE  DaysOK(e)' /\ SatOK(e)'
<1>1. Transfers(e)' = {}
  BY DEF Transfers
<1>2. BeganIn(e)' = section'[e]
  BY <1>1 DEF BeganIn, TransfersToday
<1>3. OnExamDay(e)' = section'[e]
  BY <1>1 DEF OnExamDay, SectionOnExamDay
<1> QED BY <1>2, <1>3 DEF DaysOK, SatOK

LEMMA EnteredGood ==
    ASSUME BelongInv, NEW e \in Enrollments, Entered(e), today' = today
    PROVE  DaysOK(e)' /\ SatOK(e)'
<1>1. /\ log'[e] = <<>> /\ section'[e] # None /\ since'[e] = today
      /\ today \in Nat /\ today \in Days /\ ExamDay \in Nat
  BY RowTyped DEF Entered
<1>2. PICK s \in Sections : s = section'[e]
  BY DEF Entered
<1>3. stay'[e][today] = <<s>>
  BY <1>1, <1>2 DEF Entered
<1>4. <<s>> # <<>> /\ Head(<<s>>) = s /\ <<s>>[Len(<<s>>)] = s
  OBVIOUS
<1> QED BY <1>1, <1>2, <1>3, <1>4, FreshRowGood

LEMMA RestoredFacts ==
    ASSUME BelongInv, NEW t \in Tx, NEW e \in Enrollments, Restored(t, e)
    PROVE  /\ section'[e] \in Sections /\ section'[e] # None /\ since[e] # 0 /\ log[e] = <<>>
           /\ Claimed(t, e, section'[e])
<1>1. /\ job[t].section \in Sections /\ since[e] # 0 /\ log[e] = <<>>
  BY DEF BelongInv, PlacementInv, JobOK, RowOK, Restored
<1>2. Claimed(t, e, section'[e])
  BY DEF Claimed, Restored
<1>3. section'[e] \in Sections /\ section'[e] # None
  BY <1>1, RowTyped DEF Restored
<1> QED BY <1>1, <1>2, <1>3

LEMMA RestoredGood ==
    ASSUME BelongInv, NEW t \in Tx, NEW e \in Enrollments, Restored(t, e), today' = today
    PROVE  DaysOK(e)' /\ SatOK(e)'
<1>1. section'[e] \in Sections /\ section'[e] # None /\ since[e] # 0 /\ log[e] = <<>>
  BY RestoredFacts
<1>2. since'[e] = since[e] /\ log'[e] = log[e]
  BY DEF Restored
<1>3. PICK s \in Sections : s = section'[e] /\ s = job[t].section
  BY <1>1 DEF Restored
<1>4. stay'[e] = [d \in Days |-> IF d \in since[e]..today THEN <<s>> ELSE <<>>]
  BY <1>3 DEF Restored
<1>5. /\ since[e] \in Nat /\ today \in Nat /\ today \in Days /\ ExamDay \in Nat /\ ExamDay \in Days
      /\ since[e] <= today
  BY RowTyped DEF DaysOK
<1>6. stay'[e][today] = <<s>> /\ (since[e] <= ExamDay /\ today >= ExamDay => stay'[e][ExamDay] = <<s>>)
  BY <1>4, <1>5
<1>7. <<s>> # <<>> /\ Head(<<s>>) = s /\ <<s>>[Len(<<s>>)] = s
  OBVIOUS
<1> QED BY <1>1, <1>2, <1>3, <1>5, <1>6, <1>7, FreshRowGood

LEMMA OverwrittenGood ==
    ASSUME BelongInv, NEW e \in Enrollments, Overwritten(e), today' = today
    PROVE  DaysOK(e)' /\ SatOK(e)'
<1>1. DaysOK(e)
  BY RowTyped
<1> QED BY <1>1 DEF DaysOK, SatOK, Overwritten

LEMMA LogDays ==
    ASSUME BelongInv, NEW t \in Tx, NEW e \in Enrollments, NEW m \in Moves, Relocated(t, e, m), today' = today
    PROVE  \A i \in 1..Len(log'[e]) : log'[e][i].day <= today
<1>1. log'[e] = Append(log[e], m) /\ m.day = today
  BY DEF Relocated
<1>2. PlacementInv /\ DaysOK(e) /\ today \in Nat
  BY RowTyped
<1>3. PICK n \in Nat : n = Len(log[e])
  BY <1>2, TypedLog
<1>4. Len(log'[e]) = n + 1 /\ log'[e][n + 1] = m /\ \A i \in 1..n : log'[e][i] = log[e][i]
  BY <1>1, <1>2, <1>3, LogLonger
<1>5. \A i \in 1..n : log[e][i].day <= today
  BY <1>2, <1>3 DEF DaysOK
<1>6. ASSUME NEW i \in 1..(n + 1) PROVE log'[e][i].day <= today
  <2>1. CASE i = n + 1
    BY <1>1, <1>2, <1>4, <2>1
  <2>2. CASE i # n + 1
    <3>1. i \in 1..n
      BY <2>2
    <3> QED BY <1>4, <1>5, <3>1
  <2> QED BY <2>1, <2>2
<1> QED BY <1>4, <1>6

LEMMA TransferredGood ==
    ASSUME BelongInv, NEW t \in Tx, NEW e \in Enrollments, Transferred(t, e), today' = today, rewound \subseteq rewound'
    PROVE  DaysOK(e)' /\ SatOK(e)'
<1>1. PICK m \in Moves : m.event = "transfer" /\ Relocated(t, e, m)
  BY DEF Transferred
<1>2. /\ section[e] # None /\ section'[e] \in Sections /\ section'[e] # None /\ since'[e] = since[e]
      /\ section'[e] = job[t].to
  BY <1>1, RelocateFacts DEF Relocated
<1>3. \A i \in 1..Len(log'[e]) : log'[e][i].day <= today
  BY <1>1, LogDays
<1>4. /\ BeganIn(e)' = BeganIn(e)
      /\ \A c : today <= ExamDay => SectionOnExamDay(e, c)' = section'[e]
      /\ \A c : today > ExamDay => SectionOnExamDay(e, c)' = OnExamDay(e)
  BY TransferTells
<1>5. PICK s \in Sections : s = section'[e] /\ s = job[t].to
  BY <1>2
<1>6. stay[e] \in [Days -> Seq(Sections)] /\ DaysOK(e) /\ SatOK(e) /\ today \in Days
      /\ today \in Nat /\ ExamDay \in Nat /\ ExamDay \in Days /\ since[e] \in Nat
  BY RowTyped
<1>7. stay'[e] = [stay[e] EXCEPT ![today] = Append(stay[e][today], s)]
  BY <1>5, <1>6 DEF Transferred
<1>8. PICK was \in Seq(Sections) : was = stay[e][today]
  BY <1>6
<1>9. stay'[e][today] = Append(was, s) /\ \A d \in Days : d # today => stay'[e][d] = stay[e][d]
  BY <1>6, <1>7, <1>8
<1>10. was # <<>> => Head(Append(was, s)) = Head(was)
  BY <1>8
<1>11. Append(was, s) # <<>> /\ Append(was, s)[Len(Append(was, s))] = s
  BY <1>8
<1>12. DaysOK(e)'
  <2>1. since[e] <= today /\ (e \notin rewound => was # <<>> /\ Head(was) = BeganIn(e))
    BY <1>2, <1>6, <1>8 DEF DaysOK
  <2>2. e \notin rewound' => stay'[e][today] # <<>> /\ Head(stay'[e][today]) = BeganIn(e)'
    BY <1>4, <1>9, <1>10, <1>11, <2>1
  <2> QED BY <1>2, <1>3, <2>1, <2>2 DEF DaysOK
<1>13. CASE today <= ExamDay
  <2>1. OnExamDay(e)' = section'[e]
    BY <1>4, <1>13 DEF OnExamDay
  <2>2. today >= ExamDay => today = ExamDay
    BY <1>6, <1>13
  <2> QED BY <1>5, <1>9, <1>11, <1>12, <2>1, <2>2 DEF SatOK
<1>14. CASE today > ExamDay
  <2>1. OnExamDay(e)' = OnExamDay(e) /\ ~(today <= ExamDay) /\ today >= ExamDay
    BY <1>4, <1>6, <1>14 DEF OnExamDay
  <2>2. stay'[e][ExamDay] = stay[e][ExamDay]
    BY <1>6, <1>9, <1>14
  <2> QED BY <1>2, <1>6, <1>12, <2>1, <2>2 DEF SatOK
<1> QED BY <1>6, <1>13, <1>14

LEMMA CorrectedGood ==
    ASSUME BelongInv, NEW t \in Tx, NEW e \in Enrollments, Rewrites(t, e), today' = today, rewound \subseteq rewound'
    PROVE  DaysOK(e)' /\ SatOK(e)'
<1>1. PICK m \in Moves : m.event = "correct" /\ Relocated(t, e, m)
  BY DEF Rewrites
<1>2. /\ section[e] # None /\ section'[e] \in Sections /\ section'[e] # None /\ since'[e] = since[e]
      /\ section'[e] = job[t].to
  BY <1>1, RelocateFacts DEF Relocated
<1>3. \A i \in 1..Len(log'[e]) : log'[e][i].day <= today
  BY <1>1, LogDays
<1>4. Transfers(e) = {} /\ Transfers(e)' = {}
  BY CorrectTells
<1>5. BeganIn(e)' = section'[e] /\ OnExamDay(e)' = section'[e]
  BY <1>4 DEF BeganIn, TransfersToday, OnExamDay, SectionOnExamDay
<1>6. PICK s \in Sections : s = section'[e] /\ s = job[t].to
  BY <1>2
<1>7. stay[e] \in [Days -> Seq(Sections)] /\ DaysOK(e) /\ SatOK(e) /\ today \in Days
      /\ today \in Nat /\ ExamDay \in Nat /\ ExamDay \in Days /\ since[e] \in Nat
  BY RowTyped
<1>8. \A d \in Days : stay[e][d] # <<>> => stay'[e][d] = <<s>>
  BY <1>6, <1>7 DEF Rewrites
<1>9. <<s>> # <<>> /\ Head(<<s>>) = s /\ <<s>>[Len(<<s>>)] = s
  OBVIOUS
<1>10. DaysOK(e)'
  BY <1>2, <1>3, <1>5, <1>6, <1>7, <1>8, <1>9 DEF DaysOK
<1>11. SatOK(e)'
  <2>1. e \notin rewound /\ since[e] <= ExamDay /\ today >= ExamDay => stay[e][ExamDay] # <<>>
    BY <1>2, <1>7 DEF SatOK
  <2> QED BY <1>2, <1>5, <1>6, <1>7, <1>8, <1>9, <2>1 DEF SatOK
<1> QED BY <1>10, <1>11

LEMMA RowsGood ==
    ASSUME BelongInv, NEW t \in Tx, NEW e \in Enrollments, RowStep(t, e), today' = today, rewound \subseteq rewound',
           section'[e] = None => score'[e] = None
    PROVE  DaysOK(e)' /\ SatOK(e)'
<1>1. CASE Left(e)
  <2>1. DaysOK(e)
    BY RowTyped
  <2> QED BY <1>1, <2>1 DEF Left, DaysOK, SatOK
<1>2. CASE Same(e)
  BY <1>2, SameRowGood DEF Same
<1> QED BY <1>1, <1>2, EnteredGood, RestoredGood, OverwrittenGood, TransferredGood, CorrectedGood DEF RowStep

-----------------------------------------------------------------------------
(* What others have recorded, claimed and checked                             *)

NewScore(t, e) == /\ pc[t] = "score" /\ score[e] = None /\ score'[e] \in Sections
                  /\ section[e] # None /\ Same(e) /\ rowLock[e] \in {None, t}

NewRecord(t, r) == /\ r.who \in Enrollments /\ r.day = today /\ section[r.who] # None /\ Same(r.who)
                   /\ r.who \notin rewound => r.section = BeganIn(r.who)
                   /\ rowLock[r.who] \in {None, t}

\* A step of t within one day, for whoever is not t.
FairStep(t) ==
    /\ today' = today /\ rewound \subseteq rewound'
    /\ \A x \in Tx : x # t => pc'[x] = pc[x] /\ job'[x] = job[x]
    /\ \A s \in Sections : sectionLock[s] \notin {None, t} => sectionLock'[s] = sectionLock[s]
    /\ examLock \notin {None, t} => examLock' = examLock
    /\ \A e \in Enrollments : RowStep(t, e) /\ (score'[e] = score[e] \/ NewScore(t, e))
    /\ \A r \in records' : r \in records \/ NewRecord(t, r)
    /\ \A e \in Enrollments, s \in Sections : Unmoved(e) /\ Claimed(t, e, s)' => Claim(e, s)

LEMMA RecordsGood ==
    ASSUME BelongInv, NEW t \in Tx, FairStep(t), NEW r \in records'
    PROVE  RecordOK(r)'
<1>1. today' = today /\ rewound \subseteq rewound'
  BY DEF FairStep
<1>2. CASE r \notin records
  <2>1. PICK e \in Enrollments : /\ e = r.who /\ r.day = today /\ section[e] # None /\ Same(e)
                                 /\ e \notin rewound => r.section = BeganIn(e)
    BY <1>2 DEF FairStep, NewRecord
  <2>2. DaysOK(e) /\ today \in Nat
    BY RowTyped
  <2> QED BY <1>1, <2>1, <2>2 DEF RecordOK, DaysOK, Same
<1>3. CASE r \in records
  <2>1. PICK e \in Enrollments, d \in Days : e = r.who /\ d = r.day
    BY <1>3, Typed DEF BelongInv, Records
  <2>2. /\ section[e] # None /\ d <= today
        /\ e \notin rewound' => stay[e][d] # <<>> /\ Head(stay[e][d]) = r.section
    BY <1>1, <1>3, <2>1 DEF BelongInv, RecordOK
  <2>3. SUFFICES /\ section'[e] # None
                 /\ e \notin rewound' => stay'[e][d] # <<>> /\ Head(stay'[e][d]) = Head(stay[e][d])
    BY <1>1, <2>1, <2>2 DEF RecordOK
  <2>4. RowStep(t, e)
    BY DEF FairStep
  <2>5. CASE Same(e)
    BY <2>2, <2>5 DEF Same
  <2>6. CASE Entered(e)
    BY <2>2, <2>6, RowTyped DEF Entered
  <2>7. CASE Left(e)
    BY <1>3, <2>1, <2>7 DEF Left
  <2>8. CASE Restored(t, e) \/ Overwritten(e)
    BY <2>2, <2>8 DEF Restored, Overwritten
  <2>9. CASE Transferred(t, e)
    <3>1. section'[e] # None /\ section'[e] \in Sections /\ section'[e] = job[t].to
      BY <2>9, RelocateFacts DEF Transferred, Relocated
    <3>2. stay[e] \in [Days -> Seq(Sections)] /\ today \in Days
      BY RowTyped
    <3>3. PICK was \in Seq(Sections), s \in Sections : was = stay[e][d] /\ s = job[t].to
      BY <3>1, <3>2
    <3>4. stay'[e][d] = was \/ stay'[e][d] = Append(was, s)
      BY <2>9, <3>2, <3>3 DEF Transferred
    <3>5. was # <<>> => Append(was, s) # <<>> /\ Head(Append(was, s)) = Head(was)
      OBVIOUS
    <3> QED BY <2>2, <3>1, <3>3, <3>4, <3>5
  <2>10. CASE Rewrites(t, e)
    BY <1>1, <1>3, <2>1, <2>10, CorrectTells
  <2> QED BY <2>4, <2>5, <2>6, <2>7, <2>8, <2>9, <2>10 DEF RowStep
<1> QED BY <1>2, <1>3

\* Nobody claims an enrollment that never was.
LEMMA ClaimFacts ==
    ASSUME BelongInv, NEW e \in Enrollments, NEW s \in Sections, Claim(e, s)
    PROVE  since[e] # 0
<1>1. CASE section[e] = s
  BY <1>1, RowTyped
<1>2. ASSUME NEW x \in Tx, Claimed(x, e, s) PROVE since[e] # 0
  <2>1. JobOK(x) /\ HeldOK(x)
    BY DEF BelongInv, PlacementInv
  <2> QED BY <1>2, <2>1 DEF Claimed, JobOK, HeldOK
<1> QED BY <1>1, <1>2 DEF Claim

LEMMA AgreedGood ==
    ASSUME BelongInv, NEW t \in Tx, FairStep(t), NEW e \in Enrollments, Unmoved(e)'
    PROVE  Agreed(e)'
<1>1. RowStep(t, e) /\ ~Transferred(t, e) /\ ~Rewrites(t, e) /\ Unmoved(e) /\ Agreed(e)
  <2>1. RowStep(t, e) /\ log'[e] = <<>> /\ e \notin rewound /\ e \notin rewound'
    BY DEF FairStep, Unmoved
  <2>2. ASSUME NEW m \in Moves, log'[e] = Append(log[e], m) PROVE FALSE
    <3>1. PICK past \in Seq(Moves) : past = log[e]
      BY TypedLog DEF BelongInv
    <3> QED BY <2>1, <2>2, <3>1
  <2>3. ~Transferred(t, e) /\ ~Rewrites(t, e)
    BY <2>2 DEF Transferred, Rewrites, Relocated
  <2>4. log[e] = <<>>
    BY <2>1, <2>3 DEF RowStep, Same, Entered, Left, Restored, Overwritten
  <2> QED BY <2>1, <2>3, <2>4 DEF Unmoved, BelongInv
<1>2. ASSUME NEW s \in Sections, \E x \in Tx : Claimed(x, e, s)' PROVE Claim(e, s)
  <2>1. PICK x \in Tx : Claimed(x, e, s)'
    BY <1>2
  <2>2. CASE x = t
    BY <1>1, <2>1, <2>2 DEF FairStep
  <2>3. CASE x # t
    <3>1. pc'[x] = pc[x] /\ job'[x] = job[x]
      BY <2>3 DEF FairStep
    <3> QED BY <2>1, <3>1 DEF Claimed, Claim
  <2> QED BY <2>2, <2>3
<1>3. CASE Entered(e)
  <2>1. \A s \in Sections : Claim(e, s)' => s = section'[e]
    BY <1>2, <1>3, ClaimFacts DEF Claim, Entered
  <2> QED BY <2>1 DEF Agreed
<1>4. CASE ~Entered(e)
  <2>1. ASSUME NEW s \in Sections, section'[e] = s PROVE Claim(e, s)
    <3>1. CASE Same(e)
      BY <2>1, <3>1 DEF Same, Claim
    <3>2. CASE Left(e)
      BY <2>1, <3>2, RowTyped DEF Left
    <3>3. CASE Restored(t, e)
      BY <2>1, <3>3, RestoredFacts DEF Claim
    <3>4. CASE Overwritten(e)
      BY <3>4 DEF Overwritten, Unmoved
    <3> QED BY <1>1, <1>4, <3>1, <3>2, <3>3, <3>4 DEF RowStep
  <2>2. \A s \in Sections : Claim(e, s)' => Claim(e, s)
    BY <1>2, <2>1 DEF Claim
  <2> QED BY <1>1, <2>2 DEF Agreed
<1> QED BY <1>3, <1>4

LEMMA CorrectHeld ==
    ASSUME BelongInv, NEW t \in Tx, FairStep(t), NEW x \in Tx, x # t, pc[x] = "correct",
           NEW e \in Enrollments, e = job[x].of
    PROVE  Transfers(e)' = {} /\ score'[e] = None /\ \A r \in records' : r.who # e
<1>1. /\ rowLock[e] = x /\ Transfers(e) = {} /\ score[e] = None /\ \A r \in records : r.who # e
  <2>1. JobOK(x) /\ HeldOK(x)
    BY DEF BelongInv, PlacementInv
  <2>2. rowLock[e] = x
    BY <2>1 DEF JobOK, Placed
  <2> QED BY <2>1, <2>2 DEF HeldOK
<1>2. rowLock[e] \notin {None, t}
  BY <1>1, ConstantFacts
<1>3. score'[e] = None /\ \A r \in records' : r.who # e
  BY <1>1, <1>2 DEF FairStep, NewScore, NewRecord
<1>4. ~Transferred(t, e) /\ ~Rewrites(t, e)
  BY <1>2, RelocateFacts DEF Transferred, Rewrites
<1>5. log'[e] = log[e]
  <2>1. RowStep(t, e)
    BY DEF FairStep
  <2> QED BY <1>4, <2>1 DEF RowStep, Same, Entered, Left, Restored, Overwritten
<1> QED BY <1>1, <1>3, <1>5, LogSame

LEMMA SheetHeld ==
    ASSUME BelongInv, NEW t \in Tx, FairStep(t), NEW x \in Tx, x # t, pc[x] = "sheet",
           NEW e \in Enrollments, e \in job[x].roster
    PROVE  since'[e] # 0 /\ (section'[e] # None /\ e \notin rewound' => BeganIn(e)' = job[x].to)
<1>1. /\ job[x].to \in Sections /\ sectionLock[job[x].to] = x
      /\ since[e] # 0 /\ (section[e] # None /\ e \notin rewound => BeganIn(e) = job[x].to)
  <2>1. JobOK(x) /\ HeldOK(x)
    BY DEF BelongInv, PlacementInv
  <2>2. job[x].to \in Sections
    BY <2>1 DEF JobOK, Sheets
  <2> QED BY <2>1, <2>2 DEF HeldOK
<1>2. RowStep(t, e) /\ today' = today /\ x # None /\ (e \in rewound => e \in rewound')
  BY ConstantFacts DEF FairStep
<1>3. CASE Same(e)
  BY <1>1, <1>2, <1>3, LogSame DEF Same
<1>4. CASE Entered(e)
  BY <1>1, <1>4 DEF Entered
<1>5. CASE Left(e)
  BY <1>1, <1>5 DEF Left
<1>6. CASE Restored(t, e)
  <2>1. /\ section'[e] \in Sections /\ Claimed(t, e, section'[e]) /\ log[e] = <<>>
    BY <1>6, RestoredFacts
  <2>2. Claimed(x, e, job[x].to) /\ (e \notin rewound => Agreed(e))
    BY <2>1 DEF Claimed, BelongInv, Unmoved
  <2>3. e \notin rewound => section'[e] = job[x].to
    BY <1>1, <2>1, <2>2 DEF Agreed, Claim
  <2>4. log'[e] = <<>> /\ since'[e] = since[e]
    BY <1>6, <2>1 DEF Restored
  <2>5. BeganIn(e)' = section'[e]
    BY <2>4 DEF BeganIn, TransfersToday, Transfers
  <2> QED BY <1>1, <1>2, <2>3, <2>4, <2>5
<1>7. CASE Transferred(t, e)
  BY <1>1, <1>2, <1>7, TransferTells, RelocateFacts DEF Transferred, Relocated
<1>8. CASE Rewrites(t, e)
  <2>1. Transfers(e) = {} /\ section[e] # None /\ sectionLock[section[e]] = t
    BY <1>2, <1>8, CorrectTells, RelocateFacts DEF Rewrites
  <2>2. BeganIn(e) = section[e]
    BY <2>1, NoTransfer
  <2>3. since'[e] = since[e] /\ e \in rewound
    BY <1>1, <1>2, <1>8, <2>1, <2>2 DEF Rewrites, Relocated
  <2> QED BY <1>1, <1>2, <2>3
<1>9. CASE Overwritten(e)
  BY <1>1, <1>9 DEF Overwritten
<1> QED BY <1>2, <1>3, <1>4, <1>5, <1>6, <1>7, <1>8, <1>9 DEF RowStep

LEMMA StillOutdated ==
    ASSUME BelongInv, NEW t \in Tx, NEW e \in Enrollments, RowStep(t, e),
           NEW x \in Tx, job[x].of = e, job'[x] = job[x], Outdated(x)
    PROVE  Outdated(x)'
<1>1. PICK i \in 1..Len(log[e]) : log[e][i].event = "correct" /\ log[e][i].old = job[x].section
  BY DEF Outdated
<1>2. i \in 1..Len(log'[e]) /\ log'[e][i] = log[e][i]
  <2>1. CASE log'[e] = log[e]
    BY <2>1
  <2>2. CASE \E m \in Moves : log'[e] = Append(log[e], m)
    <3>1. PICK m \in Moves : log'[e] = Append(log[e], m)
      BY <2>2
    <3>2. PICK n \in Nat : n = Len(log[e])
      BY TypedLog DEF BelongInv
    <3>3. Len(log'[e]) = n + 1 /\ \A j \in 1..n : log'[e][j] = log[e][j]
      BY <3>1, <3>2, LogLonger DEF BelongInv
    <3> QED BY <3>2, <3>3
  <2> QED BY <2>1, <2>2
       DEF RowStep, Same, Entered, Left, Restored, Overwritten, Transferred, Rewrites, Relocated
<1>3. i \in 1..Len(log'[job'[x].of]) /\ log'[job'[x].of][i].event = "correct"
      /\ log'[job'[x].of][i].old = job'[x].section
  BY <1>1, <1>2
<1> QED BY <1>3 DEF Outdated

\* The copy of a request that began before a correction is outdated then.
LEMMA NowOutdated ==
    ASSUME BelongInv, NEW t \in Tx, NEW e \in Enrollments, Rewrites(t, e),
           NEW x \in Tx, job[x].of = e, job'[x] = job[x], job[x].section = section[e]
    PROVE  Outdated(x)'
<1>1. PICK m \in Moves : m.event = "correct" /\ Relocated(t, e, m)
  BY DEF Rewrites
<1>2. m.old = section[e] /\ log'[e] = Append(log[e], m)
  BY <1>1, RelocateFacts DEF Relocated
<1>3. PICK n \in Nat : n = Len(log[e])
  BY TypedLog DEF BelongInv
<1>4. Len(log'[e]) = n + 1 /\ log'[e][n + 1] = m
  BY <1>2, <1>3, LogLonger DEF BelongInv
<1>5. n + 1 \in 1..Len(log'[job'[x].of]) /\ log'[job'[x].of][n + 1] = m /\ job'[x].section = m.old
  BY <1>2, <1>4
<1> QED BY <1>1, <1>5 DEF Outdated

LEMMA CopyHeld ==
    ASSUME BelongInv, NEW t \in Tx, FairStep(t), NEW x \in Tx, x # t, pc[x] \in Marking,
           NEW e \in Enrollments, e = job[x].of
    PROVE  /\ job[x].section \in Sections /\ since[e] # 0 /\ since'[e] = since[e]
           /\ section'[e] # None /\ e \notin rewound' /\ Transfers(e)' = {} =>
                Outdated(x)' \/ section'[e] = job[x].section
<1>1. /\ job[x].section \in Sections /\ since[e] # 0
      /\ section[e] # None /\ e \notin rewound /\ Transfers(e) = {} =>
           Outdated(x) \/ section[e] = job[x].section
  <2>1. HeldOK(x)
    BY DEF BelongInv
  <2> QED BY <2>1 DEF HeldOK
<1>2. RowStep(t, e) /\ today' = today /\ job'[x] = job[x] /\ (e \in rewound => e \in rewound')
  BY SMTT(30) DEF FairStep
<1>3. since'[e] = since[e]
  BY <1>1, <1>2 DEF RowStep, Same, Entered, Left, Restored, Overwritten, Transferred, Rewrites, Relocated
<1>4. Outdated(x) => Outdated(x)'
  BY <1>2, StillOutdated
<1>5. ASSUME section'[e] # None, e \notin rewound', Transfers(e)' = {}, ~Outdated(x)'
      PROVE  section'[e] = job[x].section
  <2>1. CASE Same(e)
    BY <1>1, <1>2, <1>4, <1>5, <2>1, LogSame DEF Same
  <2>2. CASE Restored(t, e)
    <3>1. section'[e] \in Sections /\ Claimed(t, e, section'[e]) /\ log[e] = <<>>
      BY <2>2, RestoredFacts
    <3>2. Claimed(x, e, job[x].section) /\ Agreed(e)
      BY <1>2, <1>5, <3>1 DEF Claimed, BelongInv, Unmoved
    <3> QED BY <1>1, <3>1, <3>2 DEF Agreed, Claim
  <2>3. CASE Transferred(t, e)
    BY <1>2, <1>5, <2>3, TransferTells
  <2>4. CASE Rewrites(t, e)
    <3>1. Transfers(e) = {} /\ section[e] # None
      BY <1>2, <2>4, CorrectTells, RelocateFacts DEF Rewrites
    <3>2. section[e] = job[x].section
      BY <1>1, <1>2, <1>4, <1>5, <3>1
    <3> QED BY <1>2, <1>5, <2>4, <3>2, NowOutdated
  <2> QED BY <1>1, <1>2, <1>5, <2>1, <2>2, <2>3, <2>4 DEF RowStep, Entered, Left, Overwritten
<1> QED BY <1>1, <1>3, <1>5

LEMMA ScoreHeld ==
    ASSUME BelongInv, NEW t \in Tx, FairStep(t), NEW x \in Tx, x # t, pc[x] = "score",
           NEW e \in Enrollments, e = job[x].of, score'[e] = None, e \notin rewound'
    PROVE  /\ since'[e] <= ExamDay
           /\ \/ SectionOnExamDay(e, job[x].section)' = job[x].to
              \/ Outdated(x)' /\ job[x].to = job[x].section
<1>1. /\ sectionLock[job[x].to] = x /\ job[x].section \in Sections /\ since[e] # 0
      /\ section[e] # None /\ Transfers(e) = {} => Outdated(x) \/ section[e] = job[x].section
      /\ score[e] = None => /\ since[e] <= ExamDay
                            /\ \/ SectionOnExamDay(e, job[x].section) = job[x].to
                               \/ Outdated(x) /\ job[x].to = job[x].section
  <2>1. e \notin rewound
    BY DEF FairStep
  <2> QED BY <2>1 DEF BelongInv, HeldOK, Marking
<1>2. score[e] = None
  <2>1. score'[e] = score[e] \/ score'[e] \in Sections
    BY DEF FairStep, NewScore
  <2> QED BY <2>1, ConstantFacts
<1>3. RowStep(t, e) /\ today' = today /\ job'[x] = job[x] /\ x # None /\ e \notin rewound
  BY ConstantFacts DEF FairStep
<1>4. since'[e] <= ExamDay
  BY <1>1, <1>2, CopyHeld DEF Marking
<1>5. Outdated(x) => Outdated(x)'
  BY <1>3, StillOutdated
<1>6. PICK c \in Sections : c = job[x].section
  BY <1>1
<1>7. ASSUME ~(Outdated(x)' /\ job[x].to = job[x].section)
      PROVE  SectionOnExamDay(e, c)' = job[x].to
  <2>1. SectionOnExamDay(e, c) = job[x].to
    BY <1>1, <1>2, <1>5, <1>6, <1>7
  <2>2. CASE log'[e] = log[e]
    BY <2>1, <2>2, LogSame
  <2>3. CASE Transferred(t, e)
    <3>1. /\ section[e] # None /\ sectionLock[section[e]] = t
      BY <2>3, RelocateFacts DEF Transferred
    <3>2. Transfers(e) # {}
      <4> SUFFICES ASSUME Transfers(e) = {} PROVE FALSE
        OBVIOUS
      <4>1. job[x].to = c
        BY <2>1, NoTransfer
      <4>2. section[e] = c
        BY <1>1, <1>5, <1>6, <1>7, <3>1, <4>1
      <4> QED BY <1>1, <3>1, <4>1, <4>2
    <3>3. OnExamDay(e) = job[x].to
      BY <2>1, <3>2, WithTransfer
    <3>4. today > ExamDay
      <4>1. today <= ExamDay => OnExamDay(e) = section[e]
        BY <1>1, <1>2, <1>3, <3>1, RowTyped DEF SatOK
      <4> QED BY <1>1, <3>1, <3>3, <4>1, RowTyped
    <3> QED BY <1>3, <2>3, <3>3, <3>4, TransferTells
  <2>4. CASE Rewrites(t, e)
    <3>1. Transfers(e) = {} /\ section[e] # None /\ sectionLock[section[e]] = t
      BY <1>3, <2>4, CorrectTells, RelocateFacts DEF Rewrites
    <3>2. job[x].to = c
      BY <2>1, <3>1, NoTransfer
    <3>3. section[e] = c
      BY <1>1, <1>5, <1>6, <1>7, <3>1, <3>2
    <3> QED BY <1>1, <3>1, <3>2, <3>3
  <2> QED BY <1>3, <2>2, <2>3, <2>4 DEF RowStep, Same, Entered, Left, Restored, Overwritten
<1>8. SectionOnExamDay(e, job[x].section)' = SectionOnExamDay(e, c)'
  BY <1>3, <1>6, SMTT(30) DEF SectionOnExamDay
<1> QED BY <1>4, <1>7, <1>8

LEMMA OthersHeld ==
    ASSUME BelongInv, NEW t \in Tx, FairStep(t), NEW x \in Tx, x # t
    PROVE  HeldOK(x)'
<1>1. pc'[x] = pc[x] /\ job'[x] = job[x] /\ today' = today /\ x \notin {None, t}
  BY ConstantFacts DEF FairStep
<1>2. HeldOK(x) /\ JobOK(x)
  BY DEF BelongInv, PlacementInv
<1>3. \A s \in Sections : sectionLock[s] = x => sectionLock'[s] = x
  BY <1>1 DEF FairStep
<1>4. ASSUME pc[x] \in Placed PROVE sectionLock'[job[x].section] = x
  BY <1>2, <1>3, <1>4 DEF HeldOK, JobOK, Moving
<1>5. ASSUME pc[x] = "correct"
      PROVE  /\ Transfers(job[x].of)' = {} /\ score'[job[x].of] = None
             /\ \A r \in records' : r.who # job[x].of
  <2>1. job[x].of \in Enrollments
    BY <1>2, <1>5 DEF JobOK, Moving, Placed
  <2>2. PICK e \in Enrollments : e = job[x].of
    BY <2>1
  <2>3. Transfers(e)' = {} /\ score'[e] = None /\ \A r \in records' : r.who # e
    BY <1>5, <2>2, CorrectHeld
  <2>4. Transfers(job[x].of)' = {}
    BY <1>1, <2>2, <2>3 DEF Transfers
  <2> QED BY <2>2, <2>3, <2>4
<1>6. ASSUME pc[x] = "sheet"
      PROVE  /\ sectionLock'[job[x].to] = x
             /\ \A e \in job[x].roster :
                   since'[e] # 0 /\ (section'[e] # None /\ e \notin rewound' => BeganIn(e)' = job[x].to)
  <2>1. job[x].to \in Sections /\ job[x].roster \subseteq Enrollments
    BY <1>2, <1>6, Typed DEF JobOK, Sheets, BelongInv, Jobs
  <2> QED BY <1>2, <1>3, <1>6, <2>1, SheetHeld DEF HeldOK
<1>7. ASSUME pc[x] \in Marking
      PROVE  /\ job[x].section \in Sections /\ since'[job[x].of] # 0
             /\ section'[job[x].of] # None /\ job[x].of \notin rewound' /\ Transfers(job[x].of)' = {} =>
                  Outdated(x)' \/ section'[job[x].of] = job[x].section
  <2>1. job[x].of \in Enrollments
    BY <1>2, <1>7 DEF JobOK
  <2> QED BY <1>1, <1>7, <2>1, CopyHeld
<1>8. ASSUME pc[x] = "score"
      PROVE  /\ sectionLock'[job[x].to] = x /\ examLock' = x
             /\ score'[job[x].of] \in {None, job[x].to}
             /\ score'[job[x].of] = None /\ job[x].of \notin rewound' =>
                   /\ since'[job[x].of] <= ExamDay
                   /\ \/ SectionOnExamDay(job[x].of, job[x].section)' = job[x].to
                      \/ Outdated(x)' /\ job[x].to = job[x].section
  <2>1. job[x].of \in Enrollments /\ job[x].to \in Sections
    BY <1>2, <1>8 DEF JobOK, Marking
  <2>2. sectionLock'[job[x].to] = x /\ examLock' = x
    BY <1>1, <1>2, <1>3, <1>8, <2>1 DEF HeldOK, FairStep
  <2>3. PICK e \in Enrollments : e = job[x].of
    BY <2>1
  <2>4. SectionOnExamDay(job[x].of, job[x].section)' = SectionOnExamDay(e, job[x].section)'
    BY <1>1, <2>3 DEF SectionOnExamDay, Transfers
  <2>5. score'[e] = None /\ e \notin rewound' =>
           /\ since'[e] <= ExamDay
           /\ \/ SectionOnExamDay(e, job[x].section)' = job[x].to
              \/ Outdated(x)' /\ job[x].to = job[x].section
    BY <1>8, <2>3, ScoreHeld
  <2>6. score'[e] = score[e] /\ score[e] \in {None, job[x].to}
    <3>1. pc[t] # "score"
      BY <1>1, <1>2, <1>8 DEF BelongInv, HeldOK
    <3> QED BY <1>2, <1>8, <2>3, <3>1 DEF FairStep, NewScore, HeldOK
  <2> QED BY <2>2, <2>3, <2>4, <2>5, <2>6
<1> QED BY <1>1, <1>4, <1>5, <1>6, <1>7, <1>8 DEF HeldOK, Transfers, SectionOnExamDay

LEMMA FairGood ==
    ASSUME BelongInv, NEW t \in Tx, FairStep(t), PlacementInv', StayShape', HeldOK(t)'
    PROVE  BelongInv'
<1>1. \A x \in Tx : HeldOK(x)'
  BY OthersHeld
<1>2. ASSUME NEW e \in Enrollments PROVE DaysOK(e)' /\ SatOK(e)'
  <2>1. /\ RowStep(t, e) /\ today' = today /\ (score'[e] = score[e] \/ NewScore(t, e))
        /\ rewound \subseteq rewound'
    BY DEF FairStep
  <2>2. section[e] = None => score[e] = None
    BY RowTyped DEF DaysOK
  <2>3. section[e] = None => section'[e] # None \/ score'[e] = None
    BY <2>1, <2>2 DEF NewScore
  <2>4. ASSUME section'[e] = None, section[e] # None PROVE score'[e] = None
    BY <2>1, <2>4, RelocateFacts, RestoredFacts, RowTyped
       DEF RowStep, Same, Entered, Left, Overwritten, Transferred, Rewrites
  <2> QED BY <2>1, <2>3, <2>4, RowsGood
<1>3. \A r \in records' : RecordOK(r)'
  BY RecordsGood
<1>4. \A e \in Enrollments : Unmoved(e)' => Agreed(e)'
  BY AgreedGood
<1> QED BY <1>1, <1>2, <1>3, <1>4 DEF BelongInv

-----------------------------------------------------------------------------
(* The steps are fair                                                         *)

LEMMA QuietRows ==
    ASSUME BelongInv, NEW t \in Tx, UNCHANGED <<section, since, log, stay>>
    PROVE  StayShape' /\ \A e \in Enrollments : Same(e) /\ RowStep(t, e)
BY DEF BelongInv, StayShape, Same, RowStep

LEMMA FinishFair ==
    ASSUME BelongInv, NEW t \in Tx, Finish(t), rewound \subseteq rewound',
           \A e \in Enrollments : RowStep(t, e) /\ (score'[e] = score[e] \/ NewScore(t, e)),
           \A r \in records' : r \in records \/ NewRecord(t, r)
    PROVE  FairStep(t) /\ HeldOK(t)'
<1>1. pc'[t] = "idle" /\ today' = today /\ (examLock \notin {None, t} => examLock' = examLock)
      /\ \A x \in Tx : x # t => pc'[x] = pc[x] /\ job'[x] = job[x]
  BY FinishFacts DEF BelongInv, Finish
<1>2. \A s \in Sections : sectionLock[s] \notin {None, t} => sectionLock'[s] = sectionLock[s]
  BY DEF Finish
<1>3. HeldOK(t)' /\ \A e \in Enrollments, s \in Sections : ~Claimed(t, e, s)'
  BY <1>1 DEF HeldOK, Claimed, Placed, Marking
<1> QED BY <1>1, <1>2, <1>3 DEF FairStep

LEMMA RefuseFair ==
    ASSUME BelongInv, NEW t \in Tx, Refuse(t)
    PROVE  FairStep(t) /\ HeldOK(t)' /\ StayShape'
<1>1. Finish(t) /\ UNCHANGED <<section, since, log, stay, rewound, records, score>>
  BY DEF Refuse, tables
<1> QED BY <1>1, QuietRows, FinishFair

\* A step that changes no row: t goes on to another label or begins.
LEMMA GoesOn ==
    ASSUME BelongInv, NEW t \in Tx, UNCHANGED <<tables, today>>,
           \A x \in Tx : x # t => pc'[x] = pc[x] /\ job'[x] = job[x],
           \A s \in Sections : sectionLock[s] \notin {None, t} => sectionLock'[s] = sectionLock[s],
           examLock \notin {None, t} => examLock' = examLock,
           \A e \in Enrollments, s \in Sections : Unmoved(e) /\ Claimed(t, e, s)' => Claim(e, s)
    PROVE  FairStep(t) /\ StayShape'
<1>1. UNCHANGED <<section, since, log, stay, rewound, records, score, today>>
  BY DEF tables
<1> QED BY <1>1, QuietRows DEF FairStep

Early == {"patch", "delete", "lock transfer", "lock correct", "lock sheet", "lock score"}

LEMMA BeginFair ==
    ASSUME BelongInv, NEW t \in Tx, NEW o, NEW label \in Early, NEW j, Begin(t, o, label, j),
           label \in {"patch", "lock score"} =>
               j.of \in Enrollments /\ j.section = section[j.of] /\ section[j.of] # None
    PROVE  FairStep(t) /\ HeldOK(t)' /\ StayShape'
<1>1. /\ pc' = [pc EXCEPT ![t] = label] /\ job' = [job EXCEPT ![t] = j]
      /\ UNCHANGED <<tables, today>> /\ sectionLock' = sectionLock /\ examLock' = examLock
  BY DEF Begin, locks
<1>2. /\ pc'[t] = label /\ job'[t] = j
      /\ \A x \in Tx : x # t => pc'[x] = pc[x] /\ job'[x] = job[x]
  BY <1>1, Typed DEF BelongInv
<1>3. label \notin Placed \cup {"sheet", "score", "correct"}
      /\ (label \in Marking => label = "lock score")
      /\ (label \in {"patch"} \cup Marking => label \in {"patch", "lock score"})
  BY DEF Early, Placed, Marking
<1>4. ASSUME NEW e \in Enrollments, NEW s \in Sections, Claimed(t, e, s)' PROVE Claim(e, s)
  BY <1>2, <1>3, <1>4 DEF Claimed, Claim
<1>5. HeldOK(t)'
  <2>1. CASE label = "lock score"
    <3>1. PICK e \in Enrollments : e = j.of /\ j.section = section[e] /\ section[e] # None
      BY <2>1
    <3>2. section[e] \in Sections /\ since[e] # 0
      BY <3>1, RowTyped
    <3>3. since' = since /\ section' = section
      BY <1>1 DEF tables
    <3> QED BY <1>2, <1>3, <2>1, <3>1, <3>2, <3>3 DEF HeldOK
  <2>2. CASE label # "lock score"
    BY <1>2, <1>3, <2>2 DEF HeldOK
  <2> QED BY <2>1, <2>2
<1> QED BY <1>1, <1>2, <1>4, <1>5, GoesOn

LEMMA RequestFair ==
    ASSUME BelongInv, NEW t \in Tx, NEW e \in Enrollments, NEW s \in Sections,
           \/ StartPatch(t, e) \/ StartDelete(t, e) \/ StartTransfer(t, e, s) \/ StartCorrect(t, e, s)
           \/ StartScore(t, e, s) \/ StartSheet(t, s)
    PROVE  FairStep(t) /\ HeldOK(t)' /\ StayShape'
<1>1. CASE StartPatch(t, e)
  <2>1. PICK j : j = [NoJob EXCEPT !.of = e, !.section = section[e]]
    OBVIOUS
  <2>2. j.of = e /\ j.section = section[e] /\ section[e] # None /\ Begin(t, "patch", "patch", j)
    BY <1>1, <2>1 DEF StartPatch, NoJob
  <2> QED BY <2>2, BeginFair DEF Early
<1>2. CASE StartScore(t, e, s)
  <2>1. PICK j : j = [NoJob EXCEPT !.of = e, !.section = section[e], !.to = s]
    OBVIOUS
  <2>2. j.of = e /\ j.section = section[e] /\ section[e] # None /\ Begin(t, "score", "lock score", j)
    BY <1>2, <2>1 DEF StartScore, NoJob
  <2> QED BY <2>2, BeginFair DEF Early
<1>3. CASE StartDelete(t, e) \/ StartTransfer(t, e, s) \/ StartCorrect(t, e, s) \/ StartSheet(t, s)
  <2>1. PICK o, label, j : /\ Begin(t, o, label, j)
                           /\ label \in {"delete", "lock transfer", "lock correct", "lock sheet"}
    BY <1>3 DEF StartDelete, StartTransfer, StartCorrect, StartSheet
  <2>2. label \in Early /\ label \notin {"patch", "lock score"}
    BY <2>1 DEF Early
  <2> QED BY <2>1, <2>2, BeginFair
<1> QED BY <1>1, <1>2, <1>3

LEMMA EnrollFair ==
    ASSUME BelongInv, NEW t \in Tx, NEW e \in Enrollments, NEW s \in Sections, Enroll(t, e, s)
    PROVE  FairStep(t) /\ HeldOK(t)' /\ StayShape'
<1>1. /\ since[e] = 0 /\ section' = [section EXCEPT ![e] = s] /\ since' = [since EXCEPT ![e] = today]
      /\ stay' = [stay EXCEPT ![e] = [d \in Days |-> IF d = today THEN <<s>> ELSE <<>>]]
      /\ UNCHANGED <<log, records, score, today, pc, job, sectionLock, examLock, rewound>>
      /\ pc[t] = "idle"
  BY DEF Enroll, NeverEnrolled, locks, Idle
<1>2. [d \in Days |-> IF d = today THEN <<s>> ELSE <<>>] \in [Days -> Seq(Sections)]
  OBVIOUS
<1>3. StayShape'
  BY <1>1, <1>2 DEF BelongInv, StayShape
<1>4. ASSUME NEW x \in Enrollments PROVE RowStep(t, x)
  <2>1. CASE x = e
    BY <1>1, <2>1, Typed DEF RowStep, Entered, BelongInv, StayShape
  <2>2. CASE x # e
    BY <1>1, <2>2, Typed DEF RowStep, Same, BelongInv, StayShape
  <2> QED BY <2>1, <2>2
<1>5. HeldOK(t)' /\ \A x \in Enrollments, z \in Sections : ~Claimed(t, x, z)'
  BY <1>1 DEF HeldOK, Claimed, Placed, Marking
<1> QED BY <1>1, <1>3, <1>4, <1>5 DEF FairStep

LEMMA PatchFair ==
    ASSUME BelongInv, NEW t \in Tx, Patch(t)
    PROVE  FairStep(t) /\ HeldOK(t)' /\ StayShape'
<1>1. PICK e \in Enrollments, s \in Sections : e = job[t].of /\ s = job[t].section
  BY DEF BelongInv, PlacementInv, JobOK, Patch
<1>2. /\ pc[t] = "patch" /\ section' = [section EXCEPT ![e] = s] /\ Finish(t)
      /\ stay' = IF section[e] # None THEN stay
                 ELSE [stay EXCEPT ![e] = [d \in Days |-> IF d \in since[e]..today THEN <<s>> ELSE <<>>]]
      /\ rewound' = IF section[e] \in {None, s} THEN rewound ELSE rewound \cup {e}
      /\ UNCHANGED <<since, log, records, score>>
  BY <1>1 DEF Patch
<1>3. [d \in Days |-> IF d \in since[e]..today THEN <<s>> ELSE <<>>] \in [Days -> Seq(Sections)]
  OBVIOUS
<1>4. StayShape'
  BY <1>2, <1>3 DEF BelongInv, StayShape
<1>5. ASSUME NEW x \in Enrollments PROVE RowStep(t, x)
  <2>1. CASE x = e
    <3>1. section'[e] = s /\ since'[e] = since[e] /\ log'[e] = log[e]
      BY <1>2, Typed DEF BelongInv
    <3>2. stay'[e] = IF section[e] # None THEN stay[e]
                     ELSE [d \in Days |-> IF d \in since[e]..today THEN <<s>> ELSE <<>>]
      BY <1>2 DEF BelongInv, StayShape
    <3>3. CASE section[e] = None
      BY <1>1, <1>2, <2>1, <3>1, <3>2, <3>3 DEF RowStep, Restored
    <3>4. CASE section[e] = s
      BY <2>1, <3>1, <3>2, <3>4, ConstantFacts DEF RowStep, Same
    <3>5. CASE section[e] \notin {None, s}
      BY <1>2, <2>1, <3>1, <3>2, <3>5, ConstantFacts DEF RowStep, Overwritten
    <3> QED BY <3>3, <3>4, <3>5
  <2>2. CASE x # e
    BY <1>2, <2>2, Typed DEF RowStep, Same, BelongInv, StayShape
  <2> QED BY <2>1, <2>2
<1> QED BY <1>2, <1>4, <1>5, FinishFair

LEMMA DeleteFair ==
    ASSUME BelongInv, NEW t \in Tx, Delete(t)
    PROVE  FairStep(t) /\ HeldOK(t)' /\ StayShape'
<1>1. CASE Refuse(t)
  BY <1>1, RefuseFair
<1>2. CASE ~Refuse(t)
  <2>1. PICK e \in Enrollments : e = job[t].of
    BY DEF BelongInv, PlacementInv, JobOK, Delete
  <2>2. /\ ~Referenced(e) /\ section' = [section EXCEPT ![e] = None] /\ Finish(t)
        /\ stay' = [stay EXCEPT ![e] = [d \in Days |-> <<>>]]
        /\ UNCHANGED <<since, log, records, score, rewound>>
    BY <1>2, <2>1 DEF Delete
  <2>3. score[e] = None /\ \A r \in records : r.who # e
    BY <2>2 DEF Referenced
  <2>4. [d \in Days |-> <<>>] \in [Days -> Seq(Sections)]
    OBVIOUS
  <2>5. StayShape'
    BY <2>2, <2>4 DEF BelongInv, StayShape
  <2>6. ASSUME NEW x \in Enrollments PROVE RowStep(t, x)
    <3>1. CASE x = e
      BY <2>2, <2>3, <3>1, Typed DEF RowStep, Left, BelongInv
    <3>2. CASE x # e
      BY <2>2, <3>2, Typed DEF RowStep, Same, BelongInv, StayShape
    <3> QED BY <3>1, <3>2
  <2> QED BY <2>2, <2>5, <2>6, FinishFair
<1> QED BY <1>1, <1>2

LEMMA MovesFair ==
    ASSUME BelongInv, NEW t \in Tx, Transfer(t) \/ Correct(t)
    PROVE  FairStep(t) /\ HeldOK(t)' /\ StayShape'
<1>1. pc[t] \in Placed /\ pc[t] \in Moving
  BY DEF Transfer, Correct, Placed, Moving
<1>2. PICK e \in Enrollments, s \in Sections : e = job[t].of /\ s = job[t].to /\ job[t].section \in Sections
  BY <1>1 DEF BelongInv, PlacementInv, JobOK
<1>3. PICK event \in {"transfer", "correct"} :
         /\ Moved(t, event) /\ Finish(t) /\ UNCHANGED <<since, records, score, rewound>>
         /\ pc[t] = event /\ (event = "transfer" <=> Transfer(t)) /\ (event = "correct" <=> Correct(t))
  BY DEF Transfer, Correct
<1>4. PICK m : m = [event |-> event, old |-> job[t].section, new |-> s, day |-> today]
  OBVIOUS
<1>5. m \in Moves /\ m.event = event /\ m.old = job[t].section /\ m.new = s /\ m.day = today
  BY <1>2, <1>4, Typed DEF Moves, BelongInv
<1>6. section' = [section EXCEPT ![e] = s] /\ log' = [log EXCEPT ![e] = Append(log[e], m)]
  BY <1>2, <1>3, <1>4, Typed DEF Moved, BelongInv
<1>7. /\ section'[e] = s /\ log'[e] = Append(log[e], m) /\ since'[e] = since[e]
      /\ \A x \in Enrollments : x # e => section'[x] = section[x] /\ log'[x] = log[x]
  BY <1>3, <1>6, Typed DEF BelongInv
<1>8. Relocated(t, e, m)
  BY <1>1, <1>2, <1>5, <1>7 DEF Relocated
<1>9. stay[e] \in [Days -> Seq(Sections)] /\ today \in Days
  BY RowTyped
<1>10. CASE Transfer(t)
  <2>1. stay' = [stay EXCEPT ![e][today] = Append(@, s)]
    BY <1>2, <1>10 DEF Transfer
  <2>2. PICK f \in [Days -> Seq(Sections)] : f = [stay[e] EXCEPT ![today] = Append(stay[e][today], s)]
    <3>1. PICK q \in Seq(Sections) : q = Append(stay[e][today], s)
      <4>1. PICK was \in Seq(Sections) : was = stay[e][today]
        BY <1>9
      <4>2. Append(was, s) \in Seq(Sections)
        OBVIOUS
      <4> QED BY <4>1, <4>2
    <3>2. [stay[e] EXCEPT ![today] = q] \in [Days -> Seq(Sections)]
      BY <1>9, <3>1
    <3> QED BY <3>1, <3>2
  <2>3. stay' = [stay EXCEPT ![e] = f]
    BY <1>9, <2>1, <2>2
  <2>4. StayShape'
    BY <2>2, <2>3 DEF BelongInv, StayShape
  <2>5. stay'[e] = f
    BY <2>3 DEF BelongInv, StayShape
  <2>6. stay'[e] = [stay[e] EXCEPT ![today] = Append(@, job[t].to)]
    BY <1>2, <1>9, <2>2, <2>5
  <2>7. Transferred(t, e)
    BY <1>3, <1>5, <1>8, <1>10, <2>6 DEF Transferred
  <2>8. ASSUME NEW x \in Enrollments PROVE RowStep(t, x)
    <3>1. CASE x = e
      BY <2>7, <3>1 DEF RowStep
    <3>2. CASE x # e
      <4>1. stay'[x] = stay[x]
        BY <2>3, <3>2 DEF BelongInv, StayShape
      <4> QED BY <1>3, <1>7, <3>2, <4>1 DEF RowStep, Same
    <3> QED BY <3>1, <3>2
  <2> QED BY <1>3, <2>4, <2>8, FinishFair
<1>11. CASE Correct(t)
  <2>1. PICK f \in [Days -> Seq(Sections)] :
           f = [d \in Days |-> IF stay[e][d] = <<>> THEN <<>> ELSE <<s>>]
    <3>1. [d \in Days |-> IF stay[e][d] = <<>> THEN <<>> ELSE <<s>>] \in [Days -> Seq(Sections)]
      OBVIOUS
    <3> QED BY <3>1
  <2>2. stay' = [stay EXCEPT ![e] = f]
    BY <1>2, <1>11, <2>1 DEF Correct
  <2>3. StayShape'
    BY <2>1, <2>2 DEF BelongInv, StayShape
  <2>4. stay'[e] = f
    BY <2>2 DEF BelongInv, StayShape
  <2>5. Rewrites(t, e)
    BY <1>2, <1>3, <1>5, <1>8, <1>11, <2>1, <2>4 DEF Rewrites
  <2>6. ASSUME NEW x \in Enrollments PROVE RowStep(t, x)
    <3>1. CASE x = e
      BY <2>5, <3>1 DEF RowStep
    <3>2. CASE x # e
      <4>1. stay'[x] = stay[x]
        BY <2>2, <3>2 DEF BelongInv, StayShape
      <4> QED BY <1>3, <1>7, <3>2, <4>1 DEF RowStep, Same
    <3> QED BY <3>1, <3>2
  <2> QED BY <1>3, <2>3, <2>6, FinishFair
<1> QED BY <1>3, <1>10, <1>11

LEMMA LockMoveFair ==
    ASSUME BelongInv, NEW t \in Tx, LockTransfer(t) \/ LockCorrect(t)
    PROVE  FairStep(t) /\ HeldOK(t)' /\ StayShape'
<1>1. CASE Refuse(t)
  BY <1>1, RefuseFair
<1>2. CASE ~Refuse(t)
  <2>1. PICK s \in Sections : s = job[t].section
    BY DEF BelongInv, PlacementInv, JobOK, LockTransfer, LockCorrect, Moving
  <2>2. PICK label \in {"transfer", "check correct"} :
           /\ TakePlacement(t) /\ Goto(t, label) /\ UNCHANGED <<tables, today, job>>
    BY <1>2 DEF LockTransfer, LockCorrect
  <2>3. /\ sectionLock[s] \in {None, t} /\ sectionLock' = [sectionLock EXCEPT ![s] = t]
        /\ pc' = [pc EXCEPT ![t] = label] /\ examLock' = examLock
    BY <2>1, <2>2 DEF TakePlacement, Referable, Goto
  <2>4. /\ pc'[t] = label /\ \A x \in Tx : x # t => pc'[x] = pc[x]
        /\ sectionLock'[s] = t /\ \A z \in Sections : z # s => sectionLock'[z] = sectionLock[z]
    BY <2>3, Typed DEF BelongInv
  <2>5. HeldOK(t)' /\ \A x \in Enrollments, z \in Sections : ~Claimed(t, x, z)'
    BY <2>1, <2>2, <2>4 DEF HeldOK, Claimed, Placed, Marking
  <2> QED BY <2>2, <2>3, <2>4, <2>5, GoesOn
<1> QED BY <1>1, <1>2

LEMMA CheckFair ==
    ASSUME BelongInv, NEW t \in Tx, CheckCorrect(t)
    PROVE  FairStep(t) /\ HeldOK(t)' /\ StayShape'
<1>1. CASE Refuse(t)
  BY <1>1, RefuseFair
<1>2. CASE ~Refuse(t)
  <2>1. /\ pc[t] = "check correct" /\ CorrectionAllowed(job[t].of, job[t].to)
        /\ pc' = [pc EXCEPT ![t] = "correct"] /\ sectionLock' = sectionLock /\ examLock' = examLock
        /\ UNCHANGED <<tables, today, job>>
    BY <1>2 DEF CheckCorrect, Goto, locks
  <2>2. pc'[t] = "correct" /\ \A x \in Tx : x # t => pc'[x] = pc[x]
    BY <2>1, Typed DEF BelongInv
  <2>3. HeldOK(t)' /\ \A x \in Enrollments, z \in Sections : ~Claimed(t, x, z)'
    <3>1. sectionLock[job[t].section] = t
      BY <2>1 DEF BelongInv, HeldOK, Placed
    <3>2. Transfers(job[t].of) = {} /\ score[job[t].of] = None /\ \A r \in records : r.who # job[t].of
      BY <2>1 DEF CorrectionAllowed
    <3>3. UNCHANGED <<log, records, score, job, sectionLock>>
      BY <2>1 DEF tables
    <3>4. Transfers(job[t].of)' = {}
      BY <3>2, <3>3 DEF Transfers
    <3> QED BY <2>2, <3>1, <3>2, <3>3, <3>4 DEF HeldOK, Claimed, Marking
  <2> QED BY <2>1, <2>2, <2>3, GoesOn
<1> QED BY <1>1, <1>2

LEMMA LockSheetFair ==
    ASSUME BelongInv, NEW t \in Tx, LockSheet(t)
    PROVE  FairStep(t) /\ HeldOK(t)' /\ StayShape'
<1>1. CASE Refuse(t)
  BY <1>1, RefuseFair
<1>2. CASE ~Refuse(t)
  <2>1. PICK s \in Sections : s = job[t].to
    BY DEF BelongInv, PlacementInv, JobOK, LockSheet, Sheets
  <2>2. /\ sectionLock[s] \in {None, t} /\ sectionLock' = [sectionLock EXCEPT ![s] = t]
        /\ pc' = [pc EXCEPT ![t] = "sheet"] /\ job[t].roster = Roster(s)
        /\ UNCHANGED <<tables, today, job>> /\ examLock' = examLock
    BY <1>2, <2>1 DEF LockSheet, Goto, Referable
  <2>3. /\ pc'[t] = "sheet" /\ \A x \in Tx : x # t => pc'[x] = pc[x]
        /\ sectionLock'[s] = t /\ \A z \in Sections : z # s => sectionLock'[z] = sectionLock[z]
    BY <2>2, Typed DEF BelongInv
  <2>4. UNCHANGED <<section, since, log, today, job>>
    BY <2>2 DEF tables
  <2>5. ASSUME NEW e \in Enrollments, e \in job[t].roster
        PROVE  section[e] # None /\ s = BeganIn(e) /\ since[e] # 0
    BY <2>2, <2>5, RowTyped DEF Roster
  <2>6. job[t].roster \subseteq Enrollments
    BY <2>2 DEF Roster
  <2>7. HeldOK(t)'
    <3>1. ASSUME NEW e \in job[t].roster PROVE since'[e] # 0 /\ BeganIn(e)' = s
      <4>1. BeganIn(e)' = BeganIn(e)
        BY <2>4, <2>6, LogSame
      <4> QED BY <2>4, <2>5, <2>6, <4>1
    <3> QED BY <2>1, <2>3, <2>4, <3>1 DEF HeldOK, Placed, Marking
  <2>8. ASSUME NEW e \in Enrollments, Unmoved(e), NEW z \in Sections, Claimed(t, e, z)'
        PROVE  Claim(e, z)
    <3>1. z = s /\ e \in job[t].roster
      BY <2>1, <2>3, <2>4, <2>8 DEF Claimed, Marking
    <3>2. log[e] = <<>>
      BY <2>8 DEF Unmoved
    <3>3. BeganIn(e) = section[e]
      BY <3>2 DEF BeganIn, TransfersToday, Transfers
    <3> QED BY <2>5, <3>1, <3>3 DEF Claim
  <2> QED BY <2>2, <2>3, <2>7, <2>8, GoesOn
<1> QED BY <1>1, <1>2

LEMMA LockScoreFair ==
    ASSUME BelongInv, NEW t \in Tx, LockScore(t)
    PROVE  FairStep(t) /\ HeldOK(t)' /\ StayShape'
<1>1. CASE Refuse(t)
  BY <1>1, RefuseFair
<1>2. CASE ~Refuse(t)
  <2>1. PICK e \in Enrollments, s \in Sections : e = job[t].of /\ s = job[t].to
    BY DEF BelongInv, PlacementInv, JobOK, LockScore, Marking
  <2>2. /\ pc[t] = "lock score" /\ ScoreAllowed(e, s, job[t].section)
        /\ sectionLock[s] \in {None, t} /\ sectionLock' = [sectionLock EXCEPT ![s] = t]
        /\ examLock = None /\ examLock' = t
        /\ pc' = [pc EXCEPT ![t] = "score"] /\ UNCHANGED <<tables, today, job>>
    BY <1>2, <2>1 DEF LockScore, Goto, Referable
  <2>3. /\ pc'[t] = "score" /\ \A x \in Tx : x # t => pc'[x] = pc[x]
        /\ sectionLock'[s] = t /\ \A z \in Sections : z # s => sectionLock'[z] = sectionLock[z]
    BY <2>2, Typed DEF BelongInv
  <2>4. UNCHANGED <<section, since, log, score, rewound, today, job>>
    BY <2>2 DEF tables
  <2>5. /\ job[t].section \in Sections /\ since[e] # 0
        /\ section[e] # None /\ e \notin rewound /\ Transfers(e) = {} =>
             Outdated(t) \/ section[e] = job[t].section
    BY <2>1, <2>2 DEF BelongInv, HeldOK, Marking
  <2>6. score[e] \in {None, s} /\ (score[e] = None => SectionOnExamDay(e, job[t].section) = s /\ since[e] <= ExamDay)
    BY <2>2 DEF ScoreAllowed
  <2>7. /\ Transfers(e)' = Transfers(e) /\ Outdated(t)' = Outdated(t)
        /\ SectionOnExamDay(e, job[t].section)' = SectionOnExamDay(e, job[t].section)
    <3>1. Outdated(t)' = Outdated(t)
      BY <2>4 DEF Outdated
    <3> QED BY <2>4, <3>1 DEF Transfers, SectionOnExamDay
  <2>8. HeldOK(t)'
    <3>1. job'[t] = job[t] /\ job'[t].of = e
      BY <2>1, <2>4
    <3>2. /\ Transfers(job[t].of)' = Transfers(e)
          /\ SectionOnExamDay(job[t].of, job[t].section)' = SectionOnExamDay(e, job[t].section)
      BY <2>4, <3>1 DEF Transfers, SectionOnExamDay
    <3>3. since'[e] = since[e] /\ section'[e] = section[e] /\ score'[e] = score[e] /\ rewound' = rewound
      BY <2>4
    <3>4. /\ job'[t].section \in Sections /\ since'[e] # 0
          /\ section'[e] # None /\ e \notin rewound' /\ Transfers(job[t].of)' = {} =>
               Outdated(t)' \/ section'[e] = job'[t].section
      BY <2>5, <2>7, <3>1, <3>2, <3>3
    <3>5. /\ sectionLock'[s] = t /\ examLock' = t /\ score'[e] \in {None, s}
          /\ score'[e] = None => since'[e] <= ExamDay /\ SectionOnExamDay(job[t].of, job[t].section)' = s
      BY <2>2, <2>3, <2>6, <3>2, <3>3
    <3>6. job'[t].of = e /\ job'[t].to = s
      BY <2>1, <3>1
    <3> QED BY <2>1, <2>3, <3>1, <3>3, <3>4, <3>5, <3>6 DEF HeldOK, Placed
  <2>9. ASSUME NEW x \in Enrollments, NEW z \in Sections, Claimed(t, x, z)' PROVE Claim(x, z)
    <3>1. job[t].of = x /\ job[t].section = z
      BY <2>3, <2>4, <2>9 DEF Claimed, Marking
    <3> QED BY <2>2, <3>1 DEF Claimed, Claim, Marking
  <2> QED BY <2>2, <2>3, <2>8, <2>9, GoesOn
<1> QED BY <1>1, <1>2

LEMMA StoreSheetFair ==
    ASSUME BelongInv, NEW t \in Tx, StoreSheet(t)
    PROVE  FairStep(t) /\ HeldOK(t)' /\ StayShape'
<1>1. CASE Refuse(t)
  BY <1>1, RefuseFair
<1>2. CASE ~Refuse(t)
  <2>1. /\ pc[t] = "sheet" /\ Finish(t) /\ UNCHANGED <<section, since, log, stay, score, rewound>>
        /\ \A e \in job[t].roster : Writable(t, e) /\ section[e] # None
        /\ records' = records \cup {[section |-> job[t].to, day |-> today, who |-> e] : e \in job[t].roster}
    BY <1>2 DEF StoreSheet
  <2>2. StayShape' /\ \A e \in Enrollments : Same(e) /\ RowStep(t, e)
    BY <2>1, QuietRows
  <2>3. job[t].roster \subseteq Enrollments
    BY Typed DEF BelongInv, Jobs
  <2>4. \A e \in job[t].roster : section[e] # None /\ e \notin rewound => BeganIn(e) = job[t].to
    BY <2>1 DEF BelongInv, HeldOK
  <2>5. ASSUME NEW r \in records', r \notin records PROVE NewRecord(t, r)
    <3>1. PICK e \in job[t].roster : r = [section |-> job[t].to, day |-> today, who |-> e]
      BY <2>1, <2>5
    <3>2. r.who = e /\ r.day = today /\ r.section = job[t].to
      BY <3>1
    <3>3. e \in Enrollments /\ section[e] # None /\ rowLock[e] \in {None, t} /\ Same(e)
      BY <2>1, <2>2, <2>3 DEF Writable
    <3> QED BY <2>4, <3>2, <3>3 DEF NewRecord
  <2> QED BY <2>1, <2>2, <2>5, FinishFair
<1> QED BY <1>1, <1>2

LEMMA StoreScoreFair ==
    ASSUME BelongInv, NEW t \in Tx, StoreScore(t)
    PROVE  FairStep(t) /\ HeldOK(t)' /\ StayShape'
<1>1. CASE Refuse(t)
  BY <1>1, RefuseFair
<1>2. CASE ~Refuse(t)
  <2>1. PICK e \in Enrollments, s \in Sections : e = job[t].of /\ s = job[t].to
    BY DEF BelongInv, PlacementInv, JobOK, StoreScore, Marking
  <2>2. /\ Finish(t) /\ UNCHANGED <<section, since, log, stay, records, rewound>>
        /\ section[e] # None /\ rowLock[e] \in {None, t} /\ score' = [score EXCEPT ![e] = s]
    BY <1>2, <2>1 DEF StoreScore, Writable
  <2>3. StayShape' /\ \A x \in Enrollments : Same(x) /\ RowStep(t, x)
    BY <2>2, QuietRows
  <2>4. pc[t] = "score" /\ score[e] \in {None, s}
    BY <2>1 DEF StoreScore, BelongInv, HeldOK
  <2>5. \A x \in Enrollments : score'[x] = score[x] \/ NewScore(t, x)
    BY <2>2, <2>3, <2>4, Typed DEF NewScore, BelongInv
  <2> QED BY <2>2, <2>3, <2>5, FinishFair
<1> QED BY <1>1, <1>2

-----------------------------------------------------------------------------
(* At midnight and at the beginning                                           *)

LEMMA MidnightGood ==
    ASSUME BelongInv, PlacementInv', NextDay
    PROVE  BelongInv'
<1>1. /\ today' = today + 1 /\ UNCHANGED <<section, since, log, records, score, rewound, pc, job>>
      /\ \A t \in Tx : pc[t] = "idle"
      /\ stay' = [e \in Enrollments |->
            IF section[e] = None THEN stay[e] ELSE [stay[e] EXCEPT ![today + 1] = <<section[e]>>]]
  BY DEF NextDay, Idle
<1>2. today \in Nat /\ ExamDay \in Nat /\ ExamDay \in Days /\ Days \subseteq Nat
      /\ today + 1 \in Days
  <2>1. PlacementInv
    BY DEF BelongInv
  <2>2. today' \in Days
    BY DEF PlacementInv, Shape, TypeOK
  <2> QED BY <1>1, <2>1, <2>2, Typed
<1>3. ASSUME NEW e \in Enrollments, section[e] # None
      PROVE  /\ <<section[e]>> \in Seq(Sections)
             /\ stay'[e] \in [Days -> Seq(Sections)]
             /\ stay'[e][today + 1] = <<section[e]>>
             /\ \A d \in Days : d <= today => stay'[e][d] = stay[e][d]
  <2>1. PICK s \in Sections : s = section[e]
    BY <1>3, RowTyped
  <2>2. stay[e] \in [Days -> Seq(Sections)] /\ stay'[e] = [stay[e] EXCEPT ![today + 1] = <<s>>]
    BY <1>1, <1>3, <2>1, RowTyped
  <2>3. <<s>> \in Seq(Sections)
    OBVIOUS
  <2> QED BY <1>2, <2>1, <2>2, <2>3
<1>4. StayShape'
  <2>1. \A e \in Enrollments : stay'[e] \in [Days -> Seq(Sections)]
    BY <1>1, <1>3, RowTyped
  <2> QED BY <1>1, <2>1 DEF StayShape
<1>5. ASSUME NEW e \in Enrollments PROVE DaysOK(e)' /\ SatOK(e)'
  <2>1. DaysOK(e) /\ SatOK(e) /\ since[e] \in Nat
    BY RowTyped
  <2>2. log'[e] = log[e] /\ since'[e] = since[e] /\ section'[e] = section[e] /\ score'[e] = score[e]
    BY <1>1
  <2>3. \A i \in 1..Len(log[e]) : log[e][i].day \in Nat /\ log[e][i].day <= today
    BY <1>2, <2>1, TypedLog DEF DaysOK, Moves, BelongInv
  <2>4. TransfersToday(e)' = {}
    <3>1. TransfersToday(e)' = {i \in Transfers(e) : log[e][i].day = today + 1}
      BY <1>1, <2>2, LogSame DEF TransfersToday
    <3>2. \A i \in Transfers(e) : log[e][i].day # today + 1
      BY <1>2, <2>3 DEF Transfers
    <3> QED BY <3>1, <3>2
  <2>5. BeganIn(e)' = section[e]
    BY <2>2, <2>4 DEF BeganIn
  <2>6. OnExamDay(e)' = OnExamDay(e)
    BY <2>2, LogSame DEF OnExamDay
  <2>7. section[e] # None => <<section[e]>> # <<>> /\ Head(<<section[e]>>) = section[e]
                             /\ <<section[e]>>[Len(<<section[e]>>)] = section[e]
    OBVIOUS
  <2>8. DaysOK(e)'
    <3>1. since[e] <= today + 1 /\ \A i \in 1..Len(log[e]) : log[e][i].day <= today + 1
      BY <1>2, <2>1, <2>3 DEF DaysOK
    <3>2. section[e] = None => score[e] = None
      BY <2>1 DEF DaysOK
    <3>3. section[e] # None => stay'[e][today + 1] # <<>> /\ Head(stay'[e][today + 1]) = section[e]
      BY <1>3, <2>7
    <3> QED BY <1>1, <2>2, <2>5, <3>1, <3>2, <3>3 DEF DaysOK
  <2>9. ASSUME section[e] # None, e \notin rewound, since[e] <= ExamDay
        PROVE  /\ today + 1 <= ExamDay => OnExamDay(e) = section[e]
               /\ today + 1 >= ExamDay => /\ stay'[e][ExamDay] # <<>>
                                          /\ stay'[e][ExamDay][Len(stay'[e][ExamDay])] = OnExamDay(e)
    <3>1. CASE today + 1 <= ExamDay
      <4>1. OnExamDay(e) = section[e]
        BY <1>2, <2>1, <2>9, <3>1 DEF SatOK
      <4>2. today + 1 >= ExamDay => today + 1 = ExamDay
        BY <1>2, <3>1
      <4> QED BY <1>3, <2>7, <2>9, <4>1, <4>2
    <3>2. CASE today >= ExamDay
      <4>1. stay'[e][ExamDay] = stay[e][ExamDay] /\ ~(today + 1 <= ExamDay)
        BY <1>2, <1>3, <2>9, <3>2
      <4> QED BY <2>1, <2>9, <3>2, <4>1 DEF SatOK
    <3> QED BY <1>2, <3>1, <3>2
  <2> QED BY <1>1, <2>2, <2>6, <2>8, <2>9 DEF SatOK
<1>6. ASSUME NEW r \in records' PROVE RecordOK(r)'
  <2>1. PICK e \in Enrollments, d \in Days : e = r.who /\ d = r.day /\ r \in records
    BY <1>1, <1>6, Typed DEF BelongInv, Records
  <2>2. /\ section[e] # None /\ d <= today
        /\ e \notin rewound => stay[e][d] # <<>> /\ Head(stay[e][d]) = r.section
    BY <2>1 DEF BelongInv, RecordOK
  <2>3. stay'[e][d] = stay[e][d] /\ d <= today + 1
    BY <1>2, <1>3, <2>2
  <2> QED BY <1>1, <2>1, <2>2, <2>3 DEF RecordOK
<1>7. ASSUME NEW t \in Tx PROVE HeldOK(t)'
  BY <1>1 DEF HeldOK, Placed, Marking
<1>8. \A e \in Enrollments : Unmoved(e)' => Agreed(e)'
  BY <1>1 DEF BelongInv, Unmoved, Agreed, Claim, Claimed
<1> QED BY <1>4, <1>5, <1>6, <1>7, <1>8 DEF BelongInv

LEMMA StutterGood ==
    ASSUME BelongInv, PlacementInv', UNCHANGED vars
    PROVE  BelongInv'
<1>1. UNCHANGED <<section, since, log, records, score, today, pc, job, sectionLock, examLock, stay, rewound>>
  BY DEF vars
<1>2. \A e \in Enrollments : /\ Transfers(e)' = Transfers(e) /\ BeganIn(e)' = BeganIn(e)
                             /\ OnExamDay(e)' = OnExamDay(e)
  BY <1>1 DEF Transfers, BeganIn, TransfersToday, OnExamDay, SectionOnExamDay
<1>3. \A e \in Enrollments : DaysOK(e)' /\ SatOK(e)'
  BY <1>1, <1>2 DEF BelongInv, DaysOK, SatOK
<1>4. ASSUME NEW t \in Tx PROVE HeldOK(t)'
  <2>1. Outdated(t)' = Outdated(t)
    BY <1>1 DEF Outdated
  <2>2. /\ Transfers(job[t].of)' = Transfers(job[t].of)
        /\ SectionOnExamDay(job[t].of, job[t].section)' = SectionOnExamDay(job[t].of, job[t].section)
    BY <1>1 DEF Transfers, SectionOnExamDay
  <2>3. HeldOK(t) /\ job[t].roster \subseteq Enrollments
    BY Typed DEF BelongInv, Jobs
  <2> QED BY <1>1, <1>2, <2>1, <2>2, <2>3 DEF HeldOK
<1>5. \A r \in records' : RecordOK(r)'
  BY <1>1 DEF BelongInv, RecordOK
<1>6. \A e \in Enrollments : Unmoved(e)' => Agreed(e)'
  BY <1>1 DEF BelongInv, Unmoved, Agreed, Claim, Claimed
<1> QED BY <1>1, <1>3, <1>4, <1>5, <1>6 DEF BelongInv, StayShape

LEMMA BelongInit ==
    ASSUME Init
    PROVE  BelongInv
<1>1. /\ section \in [Enrollments -> Sections \cup {None}] /\ today = 1 /\ records = {}
      /\ since = [e \in Enrollments |-> IF section[e] = None THEN 0 ELSE 1]
      /\ log = [e \in Enrollments |-> <<>>] /\ score = [e \in Enrollments |-> None]
      /\ pc = [t \in Tx |-> "idle"]
      /\ stay = [e \in Enrollments |-> [d \in Days |->
            IF d = 1 /\ section[e] # None THEN <<section[e]>> ELSE <<>>]]
  BY ConstantFacts DEF Init
<1>2. 1 \in Days /\ ExamDay \in Nat /\ ExamDay \in Days /\ ExamDay >= 1
  <2>1. LastDay \in Nat /\ ExamDay \in 1..LastDay
    BY PlacementAssumption DEF Days
  <2> QED BY <2>1 DEF Days
<1>3. ASSUME NEW e \in Enrollments
      PROVE  stay[e] \in [Days -> Seq(Sections)] /\ DaysOK(e) /\ SatOK(e)
             /\ \A a, b \in Sections : section[e] = a /\ section[e] = b => a = b
  <2>1. log[e] = <<>> /\ score[e] = None /\ since[e] = IF section[e] = None THEN 0 ELSE 1
    BY <1>1
  <2>2. Transfers(e) = {}
    BY <2>1 DEF Transfers
  <2>3. BeganIn(e) = section[e] /\ OnExamDay(e) = section[e]
    BY <2>2, NoTransfer DEF OnExamDay
  <2>4. CASE section[e] = None
    <3>1. stay[e] = [d \in Days |-> <<>>]
      BY <1>1, <2>4
    <3>2. [d \in Days |-> <<>>] \in [Days -> Seq(Sections)]
      OBVIOUS
    <3> QED BY <1>1, <2>1, <2>4, <3>1, <3>2 DEF DaysOK, SatOK
  <2>5. CASE section[e] # None
    <3>1. PICK s \in Sections : s = section[e]
      BY <1>1, <2>5
    <3>2. stay[e] = [d \in Days |-> IF d = 1 THEN <<s>> ELSE <<>>]
      BY <1>1, <2>5, <3>1
    <3>3. [d \in Days |-> IF d = 1 THEN <<s>> ELSE <<>>] \in [Days -> Seq(Sections)]
      OBVIOUS
    <3>4. stay[e][1] = <<s>> /\ <<s>> # <<>> /\ Head(<<s>>) = s /\ <<s>>[Len(<<s>>)] = s
      BY <1>2, <3>2
    <3>5. today >= ExamDay => ExamDay = 1
      BY <1>1, <1>2
    <3>6. section[e] = s /\ since[e] = 1 /\ stay[e][today] = <<s>>
          /\ (today >= ExamDay => stay[e][ExamDay] = <<s>>)
      BY <1>1, <2>1, <2>5, <3>1, <3>4, <3>5
    <3>7. DaysOK(e)
      BY <1>1, <2>1, <2>3, <2>5, <3>4, <3>6 DEF DaysOK
    <3>8. SatOK(e)
      BY <2>3, <3>4, <3>6 DEF SatOK
    <3>9. stay[e] \in [Days -> Seq(Sections)]
      BY <3>2, <3>3
    <3> QED BY <3>7, <3>8, <3>9
  <2> QED BY <2>4, <2>5
<1>4. StayShape
  <2>1. \A e \in Enrollments : stay[e] \in [Days -> Seq(Sections)]
    BY <1>3
  <2> QED BY <1>1, <2>1 DEF StayShape
<1>5. ASSUME NEW t \in Tx
      PROVE  HeldOK(t) /\ \A e \in Enrollments, s \in Sections : ~Claimed(t, e, s)
  BY <1>1 DEF HeldOK, Claimed, Placed, Marking
<1>6. \A e \in Enrollments : Agreed(e)
  BY <1>5 DEF Agreed, Claim
<1> QED BY <1>1, <1>3, <1>4, <1>5, <1>6, InitGood DEF BelongInv

\* Every step but midnight is one of a transaction, and fair.
LEMMA FairSteps ==
    ASSUME BelongInv, Next, ~NextDay
    PROVE  \E t \in Tx : FairStep(t) /\ HeldOK(t)' /\ StayShape'
<1>1. ASSUME NEW t \in Tx, Request(t) PROVE FairStep(t) /\ HeldOK(t)' /\ StayShape'
  <2>1. PICK e \in Enrollments :
           \/ StartPatch(t, e) \/ StartDelete(t, e)
           \/ \E s \in Sections : \/ Enroll(t, e, s) \/ StartTransfer(t, e, s)
                                  \/ StartCorrect(t, e, s) \/ StartScore(t, e, s)
    BY <1>1 DEF Request
  <2>2. ASSUME NEW s \in Sections, Enroll(t, e, s) PROVE FairStep(t) /\ HeldOK(t)' /\ StayShape'
    BY <2>2, EnrollFair
  <2>3. ASSUME NEW s \in Sections,
               StartTransfer(t, e, s) \/ StartCorrect(t, e, s) \/ StartScore(t, e, s)
        PROVE  FairStep(t) /\ HeldOK(t)' /\ StayShape'
    BY <2>3, RequestFair
  <2>4. CASE StartPatch(t, e) \/ StartDelete(t, e)
    <3>1. PICK s \in Sections : s = section[e]
      BY <2>4, RowTyped DEF StartPatch, StartDelete
    <3> QED BY <2>4, RequestFair
  <2> QED BY <2>1, <2>2, <2>3, <2>4
<1>2. ASSUME NEW t \in Tx, Step(t) PROVE FairStep(t) /\ HeldOK(t)' /\ StayShape'
  BY <1>2, PatchFair, DeleteFair, LockMoveFair, MovesFair, CheckFair, LockSheetFair,
     StoreSheetFair, LockScoreFair, StoreScoreFair, RefuseFair DEF Step, Abort
<1>3. ASSUME NEW t \in Tx, NEW s \in Sections, StartSheet(t, s)
      PROVE  FairStep(t) /\ HeldOK(t)' /\ StayShape'
  <2>1. \E e \in Enrollments : TRUE
    BY <1>3 DEF StartSheet, Roster
  <2> QED BY <1>3, <2>1, RequestFair
<1> QED BY <1>1, <1>2, <1>3 DEF Next

LEMMA BelongStep == BelongInv /\ [Next]_vars => BelongInv'
<1> SUFFICES ASSUME BelongInv, [Next]_vars PROVE BelongInv'
  OBVIOUS
<1>1. PlacementInv'
  BY StepGood DEF BelongInv
<1>2. CASE Next /\ ~NextDay
  BY <1>1, <1>2, FairSteps, FairGood
<1> QED BY <1>1, <1>2, MidnightGood, StutterGood

-----------------------------------------------------------------------------
(* Scores, and what they rest on                                              *)

LEMMA ScoreStep ==
    ASSUME BelongInv, NEW t \in Tx, StoreScore(t), ~Refuse(t),
           NEW e \in Enrollments, score[e] = None, score'[e] # None, e \notin rewound, ~Uncertain(e)
    PROVE  IF today < ExamDay THEN score'[e] = section[e]
           ELSE stay[e][ExamDay] # <<>> /\ score'[e] = Last(stay[e][ExamDay])
<1>1. /\ pc[t] = "score" /\ job[t].of \in Enrollments
      /\ section[job[t].of] # None /\ score' = [score EXCEPT ![job[t].of] = job[t].to]
  BY DEF StoreScore, BelongInv, PlacementInv, JobOK, Marking
<1>2. job[t].of = e /\ score'[e] = job[t].to /\ section[e] # None
  BY <1>1, Typed DEF BelongInv
<1>3. ~Outdated(t)
  BY <1>1, <1>2 DEF Uncertain
<1>4. /\ since[e] <= ExamDay
      /\ Transfers(e) = {} => section[e] = job[t].section
      /\ SectionOnExamDay(e, job[t].section) = job[t].to
  BY <1>1, <1>2, <1>3 DEF BelongInv, HeldOK, Marking
<1>5. OnExamDay(e) = job[t].to
  <2>1. CASE Transfers(e) = {}
    BY <1>4, <2>1 DEF OnExamDay
  <2>2. CASE Transfers(e) # {}
    BY <1>4, <2>2, WithTransfer
  <2> QED BY <2>1, <2>2
<1>6. today \in Nat /\ ExamDay \in Nat /\ SatOK(e)
  BY RowTyped
<1>7. CASE today < ExamDay
  BY <1>2, <1>4, <1>5, <1>6, <1>7 DEF SatOK
<1>8. CASE ~(today < ExamDay)
  BY <1>2, <1>4, <1>5, <1>6, <1>8 DEF SatOK, Last
<1> QED BY <1>7, <1>8

\* Only a request that stores scores changes one.
LEMMA ScoresStay ==
    ASSUME BelongInv, [Next]_vars, ~\E t \in Tx : StoreScore(t) /\ ~Refuse(t)
    PROVE  score' = score
<1>1. ASSUME NEW t \in Tx, Refuse(t) PROVE score' = score
  BY <1>1 DEF Refuse, tables
<1>2. ASSUME NEW t \in Tx, Request(t) PROVE score' = score
  BY <1>2 DEF Request, StartPatch, StartDelete, StartTransfer, StartCorrect, StartScore, Enroll, Begin, tables
<1>3. ASSUME NEW t \in Tx, Step(t) PROVE score' = score
  <2>1. CASE Patch(t) \/ Transfer(t) \/ Correct(t)
    BY <2>1 DEF Patch, Transfer, Correct
  <2>2. CASE Delete(t) \/ StoreSheet(t)
    BY <1>1, <2>2 DEF Delete, StoreSheet
  <2>3. CASE LockTransfer(t) \/ LockCorrect(t) \/ CheckCorrect(t) \/ LockSheet(t) \/ LockScore(t)
    BY <1>1, <2>3 DEF LockTransfer, LockCorrect, CheckCorrect, LockSheet, LockScore, tables
  <2> QED BY <1>1, <1>3, <2>1, <2>2, <2>3 DEF Step, Abort
<1>4. ASSUME NEW t \in Tx, NEW s \in Sections, StartSheet(t, s) PROVE score' = score
  BY <1>4 DEF StartSheet, Begin, tables
<1>5. NextDay \/ UNCHANGED vars => score' = score
  BY DEF NextDay, vars
<1> QED BY <1>2, <1>3, <1>4, <1>5 DEF Next

LEMMA PrefixFacts ==
    ASSUME NEW S, NEW past \in Seq(S)
    PROVE  IsPrefix(past, past) /\ \A x \in S : IsPrefix(past, Append(past, x))
<1>1. IsPrefix(past, past)
  BY DEF IsPrefix
<1>2. ASSUME NEW x \in S PROVE IsPrefix(past, Append(past, x))
  <2> DEFINE now == Append(past, x)
  <2>1. now \in Seq(S)
    OBVIOUS
  <2>2. /\ Len(past) \in Nat /\ Len(now) = Len(past) + 1
        /\ \A i \in 1..Len(past) : now[i] = past[i]
    BY <2>1
  <2>3. SubSeq(past, 1, Len(past)) = SubSeq(now, 1, Len(past))
    BY <2>2
  <2> QED BY <2>1, <2>2, <2>3 DEF IsPrefix
<1> QED BY <1>1, <1>2

\* What the register says of the days so far stays once there is a score.
LEMMA StayStep ==
    ASSUME BelongInv, [Next]_vars, NEW e \in Enrollments, score[e] # None
    PROVE  score'[e] = score[e] /\ \A d \in 1..today : IsPrefix(stay[e][d], stay'[e][d])
<1>1. section[e] # None /\ stay[e] \in [Days -> Seq(Sections)] /\ since[e] # 0 /\ PlacementInv
  BY RowTyped DEF DaysOK
<1>2. 1..today \subseteq Days /\ today \in Nat
  BY <1>1, Typed
<1>3. ASSUME NEW d \in 1..today
      PROVE  IsPrefix(stay[e][d], stay[e][d]) /\ \A x \in Sections : IsPrefix(stay[e][d], Append(stay[e][d], x))
  <2>1. stay[e][d] \in Seq(Sections)
    BY <1>1, <1>2
  <2> QED BY <2>1, PrefixFacts
<1>4. CASE UNCHANGED vars
  BY <1>3, <1>4 DEF vars
<1>5. CASE NextDay
  <2>1. \A d \in 1..today : stay'[e][d] = stay[e][d]
    BY <1>1, <1>2, <1>5 DEF NextDay
  <2> QED BY <1>3, <1>5, <2>1 DEF NextDay
<1>6. CASE Next /\ ~NextDay
  <2>1. PICK t \in Tx : FairStep(t)
    BY <1>6, FairSteps
  <2>2. RowStep(t, e) /\ score'[e] = score[e]
    BY <2>1 DEF FairStep, NewScore
  <2>3. CASE Transferred(t, e)
    <3>1. job[t].to \in Sections
      BY <2>3, RelocateFacts DEF Transferred, Relocated
    <3>2. \A d \in 1..today : stay'[e][d] = stay[e][d] \/ stay'[e][d] = Append(stay[e][d], job[t].to)
      BY <1>1, <1>2, <2>3 DEF Transferred
    <3> QED BY <1>3, <2>2, <3>1, <3>2
  <2>4. CASE Same(e) \/ Overwritten(e)
    BY <1>3, <2>2, <2>4 DEF Same, Overwritten
  <2>5. ~Entered(e) /\ ~Left(e) /\ ~Restored(t, e)
    BY <1>1, <2>2 DEF Entered, Left, Restored
  <2>6. ~Rewrites(t, e)
    BY <2>1, CorrectTells DEF FairStep
  <2> QED BY <2>2, <2>3, <2>4, <2>5, <2>6 DEF RowStep
<1> QED BY <1>4, <1>5, <1>6

-----------------------------------------------------------------------------
\* Rows, requests and locks have the shape of the tables and of the handlers.
THEOREM TypeCorrect == Spec => []TypeOK
<1>1. PlacementInv => TypeOK
  BY DEF PlacementInv, Shape
<1> QED BY <1>1, InitGood, StepGood, PTL DEF Spec

\* However many transfers and corrections, deletions, sheets, scores and PATCHes
\* run at the same time, every move of the audit log starts where the one before
\* ended and the last one ends where the student is, unless a PATCH has written
\* the section of its old copy over another one (transfer_student_between_sections
\* and correct_enrollment_placement, which lock the row that they log).
THEOREM HistoryUnbroken == Spec => []HistoryIsAChain
<1>1. PlacementInv => HistoryIsAChain
  BY DEF PlacementInv, RowOK, Chain, HistoryIsAChain
<1> QED BY <1>1, InitGood, StepGood, PTL DEF Spec

\* Attendance is on record for a student only in the section in which the day of
\* the student began, by the register as it is now: no transfer or correction
\* slips between the roster of a sheet and its rows (create_attendance_sheet,
\* which locks the section and rebuilds the roster), and a PATCH only where it
\* changes the section back.
THEOREM AttendanceBelongs == Spec => []PresentWhereTheyBelong
<1>1. BelongInv => PresentWhereTheyBelong
  BY DEF BelongInv, RecordOK, PresentWhereTheyBelong
<1>2. Init => BelongInv
  BY BelongInit
<1> QED BY <1>1, <1>2, BelongStep, PTL DEF Spec

\* A new score is under the section in which the exam day ended for the student,
\* by the register (save_assessment_scores_bulk, which locks the section and the
\* exam but not the enrollment), unless the request has a copy from before a
\* correction; and neither the score's section nor what the register says of
\* days gone by changes from then on.
THEOREM ScoresBelong == Spec => ScoresMeetHistory
<1> DEFINE Good(e) ==
      /\ score[e] = None /\ score'[e] # None /\ e \notin rewound /\ ~Uncertain(e) =>
            IF today < ExamDay
            THEN score'[e] = section[e]
            ELSE stay[e][ExamDay] # <<>> /\ score'[e] = Last(stay[e][ExamDay])
      /\ score[e] # None =>
            /\ score'[e] = score[e]
            /\ \A d \in 1..today : IsPrefix(stay[e][d], stay'[e][d])
<1>1. ASSUME BelongInv, [Next]_vars, NEW e \in Enrollments PROVE Good(e)
  <2>1. ASSUME score[e] = None, score'[e] # None, e \notin rewound, ~Uncertain(e)
        PROVE  IF today < ExamDay THEN score'[e] = section[e]
               ELSE stay[e][ExamDay] # <<>> /\ score'[e] = Last(stay[e][ExamDay])
    <3>1. PICK t \in Tx : StoreScore(t) /\ ~Refuse(t)
      BY <1>1, <2>1, ScoresStay
    <3> QED BY <1>1, <2>1, <3>1, ScoreStep
  <2>2. score[e] # None => /\ score'[e] = score[e]
                           /\ \A d \in 1..today : IsPrefix(stay[e][d], stay'[e][d])
    BY <1>1, StayStep
  <2> QED BY <2>1, <2>2
<1>2. BelongInv /\ [Next]_vars => [\A e \in Enrollments : Good(e)]_vars
  BY <1>1
<1>3. Init => BelongInv
  BY BelongInit
<1> QED BY <1>2, <1>3, BelongStep, PTL DEF Spec, ScoresMeetHistory
================================================================================
