------------------------------ MODULE Postings ------------------------------
(* Announcements and homework: rows that several people edit, the grades and *)
(* sections of an announcement, which are in tables of their own, the file   *)
(* that a row names, the notifications that go out when a row is published,  *)
(* and the timer command that publishes what has become due (announcements/, *)
(* homework/, config/attachment_storage.py).                                 *)
(*                                                                           *)
(* A write is a step that finds and validates the row, one that locks it     *)
(* (announcements only), one that stores the file, one that commits, and one *)
(* that removes the previous file.                                           *)
EXTENDS Naturals, FiniteSets

CONSTANTS
    Announcements, Homework, \* ids, disjoint sets of numbers
    Sections, GradeOf,
    Children, SectionOf, GuardianOf,
    Editors,
    StagesOf,    \* the grades a supervisor looks after, all for others
    Assignments, \* of teachers, whose sections are AssignedTo
    AssignedTo,
    TeacherOf,
    BatchSize,   \* DUE_BATCH_SIZE
    Scenarios,   \* who sends what, and how much goes wrong (bounds)
    MaxRequests, \* bound on the requests of a behaviour
    LastDay,
    None

Posts == Announcements \cup Homework
Never == LastDay + 1   \* expiry_date NULL
Files == 1..MaxRequests   \* names of uploads, one of its own for each (uuid4)
Grades == {GradeOf[s] : s \in Sections}

\* The shape of the rows, of the two many-to-many tables, of what a request
\* says, and of a request.
AnnouncementRows ==
    [scope : {"", "all", "grades", "sections"}, publish : 0..LastDay, expiry : 1..Never,
     file : Files \cup {None}]
TargetSets == [grades : SUBSET Grades, sections : SUBSET Sections]
HomeworkRows == [assignment : Assignments \cup {None}, file : Files \cup {None}]
RowsOf(id) == IF id \in Announcements THEN AnnouncementRows ELSE HomeworkRows

Values ==
    [scope |-> {"all", "grades", "sections"}, grades |-> SUBSET Grades, sections |-> SUBSET Sections,
     publish |-> 1..LastDay, expiry |-> 1..Never,
     assignment |-> Assignments, file |-> {"upload", None}]
IsBody(b) == DOMAIN b \subseteq DOMAIN Values /\ \A f \in DOMAIN b : b[f] \in Values[f]

NoBody == <<>>
Requests ==
    [op : {"create", "update", "delete"}, id : Posts,
     body : (UNION {s.bodies : s \in Scenarios}) \cup {NoBody},
     upload : Files \cup {None}, seen : AnnouncementRows \cup HomeworkRows, among : TargetSets,
     flag : BOOLEAN, at : {"asked", "locked", "stored", "committed"}, previous : Files \cup {None}]

\* The constants: ids of the two tables are different, None is none of the
\* values, and scenarios are about what there is.
Sensible ==
    /\ Announcements \cap Homework = {}
    /\ LastDay \in Nat /\ MaxRequests \in Nat
    /\ None \notin Editors \cup Files \cup Requests
    /\ None \notin AnnouncementRows \cup HomeworkRows
    /\ \A s \in Scenarios : /\ s.posts \subseteq Posts /\ s.mishaps \in Nat
                            /\ \A b \in s.bodies : IsBody(b)

VARIABLES
    row,       \* of a post, or None
    targets,   \* the grades and sections of an announcement
    notified,  \* publish_notified_at is set
    told,      \* recipients of notifications: guardians, children for homework
    files,     \* in the storage
    disputed,  \* ghost: files of requests that overtook each other
    rowLock,
    request,   \* of an editor, or None
    job,       \* what the run of notify_due_announcements has fetched, by key
    linked,    \* children that are active and have an active guardian
    ended,     \* assignments past their end date
    asked,     \* how many requests there were
    mishaps,   \* removals of a file that failed or never happened
    scenario,
    today

tables == <<row, targets, notified, told>>
vars == <<row, targets, notified, told, files, disputed, rowLock, request, job, linked, ended, asked, mishaps,
          scenario, today>>

-----------------------------------------------------------------------------
(* Rows *)

Draft == [scope |-> "", publish |-> 0, expiry |-> Never, file |-> None]
Exercise == [assignment |-> None, file |-> None]
New(id) == IF id \in Announcements THEN Draft ELSE Exercise
NoTargets == [grades |-> {}, sections |-> {}]

\* What a request says, and its upload, goes over what is there.
Merged(body, upload, old) ==
    [f \in DOMAIN old |-> IF f \notin DOMAIN body THEN old[f]
                          ELSE IF f = "file" THEN upload ELSE body[f]]

\* save() writes every column, those the request does not name as they were
\* read; of the target sets it replaces only those the request names.
NewRow(r) == Merged(r.body, r.upload, r.seen)
NewTargets(r) == Merged(r.body, None, targets[r.id])

\* What the request was validated for: the sets as they were read.
MeantTargets(r) == Merged(r.body, None, r.among)

Targets(r, t) ==
    CASE r.scope = "all" -> Sections
      [] r.scope = "grades" -> {s \in Sections : GradeOf[s] \in t.grades}
      [] r.scope = "sections" -> t.sections

Fits(r, t) ==
    /\ t.grades # {} <=> r.scope = "grades"
    /\ t.sections # {} <=> r.scope = "sections"

Complete(r) == r.scope # "" /\ r.publish # 0 /\ r.expiry >= r.publish

ValidHomework(r) == r.assignment \in Assignments

Filled(id, r) == IF id \in Announcements THEN Complete(r) ELSE ValidHomework(r)

\* Mutant: sets that the scope does not need are let through.
ValidLoosely(id, r, t) ==
    /\ Filled(id, r)
    /\ id \in Announcements => /\ r.scope = "grades" => t.grades # {}
                               /\ r.scope = "sections" => t.sections # {}

\* AnnouncementSerializer.validate, HomeworkSerializer.validate
Valid(id, r, t) == Filled(id, r) /\ (id \in Announcements => Fits(r, t))

\* require_supervisor_targets; an announcement to all is everybody's to make.
TargetsAllowed(a, t) ==
    /\ t.grades \subseteq StagesOf[a]
    /\ \A s \in t.sections : GradeOf[s] \in StagesOf[a]

\* validate_teacher_assignment_write_access
Teachers == {TeacherOf[b] : b \in Assignments}
AssignmentWritable(a, assignment) ==
    a \in Teachers => a = TeacherOf[assignment] /\ assignment \notin ended

\* validate_supervisor_assignment_scope
InStages(a, assignment) == GradeOf[AssignedTo[assignment]] \in StagesOf[a]

\* validate_teacher_assignment_access: the old assignment and the new one.
AssignmentsAllowed(a, old, new) ==
    /\ InStages(a, new)
    /\ old # None => AssignmentWritable(a, old)
    /\ AssignmentWritable(a, new)

Allowed(a, r) ==
    IF r.id \in Announcements
    THEN TargetsAllowed(a, MeantTargets(r))
    ELSE AssignmentsAllowed(a, r.seen.assignment, NewRow(r).assignment)

\* get_queryset: of announcements for staff and supervisors, who edit them; of
\* homework for teachers too.  A supervisor of some stages does not find an
\* announcement whose scope and sets disagree.
Visible(a, id) ==
    /\ row[id] # None
    /\ IF id \in Announcements
       THEN TargetsAllowed(a, targets[id]) /\ (StagesOf[a] = Grades \/ Fits(row[id], targets[id]))
       ELSE /\ InStages(a, row[id].assignment)
            /\ a \in Teachers => a = TeacherOf[row[id].assignment]

-----------------------------------------------------------------------------
(* Who is told, and what the phones show *)

Published(r) == r.publish <= today
Expired(r) == r.expiry < today
IsActive(r) == Published(r) /\ ~Expired(r)

\* _create_publish_notifications: every guardian once.
Audience(r, t) == {GuardianOf[c] : c \in {d \in linked : SectionOf[d] \in Targets(r, t)}}

\* notify_homework_created: every child of the section.
Class(r) == {c \in linked : SectionOf[c] = AssignedTo[r.assignment]}

\* notify_announcement_published
Announce(id, r, t) ==
    /\ notified' = [notified EXCEPT ![id] = TRUE]
    /\ told' = [told EXCEPT ![id] = IF Expired(r) THEN @ ELSE @ \cup Audience(r, t)]

PhoneAnnouncements(c) ==
    {id \in Announcements :
        /\ c \in linked
        /\ row[id] # None /\ IsActive(row[id])
        /\ SectionOf[c] \in Targets(row[id], targets[id])}

PhoneHomework(c) ==
    {id \in Homework :
        /\ c \in linked
        /\ row[id] # None /\ AssignedTo[row[id].assignment] = SectionOf[c]}

-----------------------------------------------------------------------------
(* Requests *)

\* An upload is prepared under a name of its own before anything is stored.
Upload(body) == IF "file" \in DOMAIN body /\ body.file # None THEN asked + 1 ELSE None

Ask(a, op, id, body) ==
    /\ request[a] = None /\ a \in scenario.editors /\ op \in scenario.ops
    /\ asked < MaxRequests
    /\ request' = [request EXCEPT ![a] = [op |-> op, id |-> id, body |-> body, upload |-> Upload(body),
           seen |-> IF op = "create" THEN New(id) ELSE row[id], among |-> targets[id],
           flag |-> notified[id], at |-> "asked", previous |-> None]]
    /\ asked' = asked + 1
    /\ UNCHANGED <<tables, files, disputed, rowLock, job, linked, ended, mishaps, scenario, today>>

\* A new row has an id of its own (uuid4).
Fresh(id) ==
    /\ row[id] = None /\ targets[id] = NoTargets /\ told[id] = {} /\ ~notified[id]
    /\ \A a \in Editors : request[a] # None => request[a].id # id

AskCreate(a, id, body) ==
    /\ Fresh(id)
    /\ Valid(id, Merged(body, None, New(id)), Merged(body, None, targets[id]))
    /\ Ask(a, "create", id, body)

AskUpdate(a, id, body) ==
    /\ Visible(a, id)
    /\ Valid(id, Merged(body, None, row[id]), Merged(body, None, targets[id]))
    /\ Ask(a, "update", id, body)

AskDelete(a, id) ==
    /\ Visible(a, id)
    /\ Ask(a, "delete", id, NoBody)

Unlocked(a, id) == rowLock[id] \in {None, a}

Goto(a, label) == request' = [request EXCEPT ![a].at = label]

\* discard_new_attachment_on_error: the transaction fails, its upload goes.
Fail(a) ==
    LET r == request[a] IN
    /\ r # None /\ r.at # "committed"
    /\ files' = IF r.at = "stored" THEN files \ {r.upload} ELSE files
    /\ rowLock' = [i \in Posts |-> IF rowLock[i] = a THEN None ELSE rowLock[i]]
    /\ request' = [request EXCEPT ![a] = None]
    /\ UNCHANGED <<tables, disputed, job, linked, ended, asked, mishaps, scenario, today>>

\* Mutant: the flag of the row as it was found.
SeenFlag(a) == request[a].flag

\* The flag is read again under the lock.
FreshFlag(a) == notified[request[a].id]

\* The first half of perform_update of announcements.
Lock(a) ==
    LET r == request[a] IN
    /\ r # None /\ r.at = "asked" /\ r.op = "update" /\ r.id \in Announcements
    /\ Unlocked(a, r.id)
    /\ IF row[r.id] = None
       THEN Fail(a)
       ELSE /\ rowLock' = [rowLock EXCEPT ![r.id] = a]
            /\ request' = [request EXCEPT ![a].at = "locked", ![a].flag = FreshFlag(a)]
            /\ UNCHANGED <<tables, files, disputed, job, linked, ended, asked, mishaps, scenario,
                           today>>

ReadyToStore(r) ==
    \/ r.at = "locked"
    \/ r.at = "asked" /\ r.op = "create"
    \/ r.at = "asked" /\ r.op = "update" /\ r.id \in Homework

\* FileField writes the file during save(), before the commit.
Store(a) ==
    LET r == request[a] IN
    /\ r # None /\ ReadyToStore(r)
    /\ Unlocked(a, r.id)
    /\ IF ~Allowed(a, r)
       THEN Fail(a)
       ELSE /\ files' = files \cup ({r.upload} \ {None})
            /\ rowLock' = [rowLock EXCEPT ![r.id] = a]
            /\ Goto(a, "stored")
            /\ UNCHANGED <<tables, disputed, job, linked, ended, asked, mishaps, scenario, today>>

\* delete_replaced_attachment_on_commit
Replaced(seen, new) == IF seen.file # new.file THEN seen.file ELSE None

\* Two requests that read a row and replace its file one after the other: of
\* the file of the row and of the outdated copy nothing is promised.
Disputed(r) ==
    IF row[r.id] # None /\ row[r.id].file = r.seen.file THEN {}
    ELSE ({r.seen.file} \cup (IF row[r.id] = None THEN {} ELSE {row[r.id].file})) \ {None}

\* Homework is announced when it is created, an announcement when its date has
\* come and its flag is not set, to the sets that are then in the tables.
Commit(a) ==
    LET r == request[a]
        new == NewRow(r)
    IN  /\ r # None /\ r.at = "stored"
        /\ row' = [row EXCEPT ![r.id] = new]
        /\ targets' = [targets EXCEPT ![r.id] = NewTargets(r)]
        /\ disputed' = disputed \cup Disputed(r)
        /\ IF r.id \in Homework
           THEN /\ told' = IF r.op = "create" THEN [told EXCEPT ![r.id] = Class(new)] ELSE told
                /\ UNCHANGED notified
           ELSE IF Published(new) /\ ~r.flag
           THEN Announce(r.id, new, NewTargets(r))
           ELSE /\ notified' = [notified EXCEPT ![r.id] = r.flag]
                /\ UNCHANGED told
        /\ rowLock' = [rowLock EXCEPT ![r.id] = None]
        /\ request' = [request EXCEPT ![a].at = "committed", ![a].previous = Replaced(r.seen, new)]
        /\ UNCHANGED <<files, job, linked, ended, asked, mishaps, scenario, today>>

\* perform_destroy
Delete(a) ==
    LET r == request[a] IN
    /\ r # None /\ r.at = "asked" /\ r.op = "delete"
    /\ Unlocked(a, r.id)
    /\ IF r.id \in Homework /\ ~AssignmentWritable(a, r.seen.assignment)
       THEN Fail(a)
       ELSE /\ row' = [row EXCEPT ![r.id] = None]
            /\ targets' = [targets EXCEPT ![r.id] = NoTargets]
            /\ disputed' = disputed \cup Disputed(r)
            /\ request' = [request EXCEPT ![a].at = "committed", ![a].previous = r.seen.file]
            /\ UNCHANGED <<notified, told, files, rowLock, job, linked, ended, asked, mishaps,
                           scenario, today>>

\* Mutant: the previous file goes whether or not the row dropped it.
RemoveSeen(a) ==
    /\ files' = files \ {request[a].seen.file}
    /\ UNCHANGED mishaps

\* The callback after the commit; a failure is logged, and a process that dies
\* in between leaves the file behind.
RemovePrevious(a) ==
    \/ /\ files' = files \ {request[a].previous}
       /\ UNCHANGED mishaps
    \/ /\ request[a].previous # None
       /\ mishaps < scenario.mishaps
       /\ mishaps' = mishaps + 1
       /\ UNCHANGED files

CleanUp(a) ==
    /\ request[a] # None /\ request[a].at = "committed"
    /\ RemovePrevious(a)
    /\ request' = [request EXCEPT ![a] = None]
    /\ UNCHANGED <<tables, disputed, rowLock, job, linked, ended, asked, scenario, today>>

-----------------------------------------------------------------------------
(* notify_due_announcements *)

Due(id) == row[id] # None /\ ~notified[id] /\ Published(row[id])

Key(id) == <<row[id].publish, id>>
Before(k, l) == k[1] < l[1] \/ (k[1] = l[1] /\ k[2] < l[2])

\* Keyset paging: the first of the due rows after the last one fetched.
Batch(last) ==
    LET due == {Key(id) : id \in {i \in Announcements : Due(i) /\ Before(last, Key(i))}}
    IN  {k \in due : Cardinality({l \in due : Before(l, k)}) < BatchSize}

StartJob ==
    /\ job = {} /\ "job" \in scenario.ops
    /\ job' = Batch(<<0, 0>>)
    /\ job' # {}
    /\ UNCHANGED <<tables, files, disputed, rowLock, request, linked, ended, asked, mishaps, scenario, today>>

\* The rows of a batch are taken in order, and then there is the next batch.
IsNext(k) == k \in job /\ \A l \in job \ {k} : Before(k, l)
Proceed(k) == job' = IF job # {k} THEN job \ {k} ELSE Batch(k)

\* A row that is locked, deleted or handled already is passed over.
SkipRow(k) ==
    /\ IsNext(k)
    /\ rowLock[k[2]] # None \/ ~Due(k[2])
    /\ Proceed(k)
    /\ UNCHANGED <<tables, files, disputed, rowLock, request, linked, ended, asked, mishaps, scenario, today>>

\* An exception is logged and leaves the row due.
FailRow(k) ==
    /\ IsNext(k)
    /\ mishaps < scenario.mishaps
    /\ mishaps' = mishaps + 1
    /\ Proceed(k)
    /\ UNCHANGED <<tables, files, disputed, rowLock, request, linked, ended, asked, scenario, today>>

NotifyRow(k) ==
    /\ IsNext(k)
    /\ rowLock[k[2]] = None /\ Due(k[2])
    /\ Announce(k[2], row[k[2]], targets[k[2]])
    /\ Proceed(k)
    /\ UNCHANGED <<row, targets, files, disputed, rowLock, request, linked, ended, asked, mishaps, scenario, today>>

-----------------------------------------------------------------------------
EndLink(c) ==
    /\ c \in linked /\ "leave" \in scenario.ops
    /\ linked' = linked \ {c}
    /\ UNCHANGED <<tables, files, disputed, rowLock, request, job, ended, asked, mishaps, scenario, today>>

EndAssignment(b) ==
    /\ b \notin ended /\ "leave" \in scenario.ops
    /\ ended' = ended \cup {b}
    /\ UNCHANGED <<tables, files, disputed, rowLock, request, job, linked, asked, mishaps, scenario, today>>

\* The command does not run over midnight (a bound).
NextDay ==
    /\ today < LastDay /\ job = {}
    /\ today' = today + 1
    /\ UNCHANGED <<tables, files, disputed, rowLock, request, job, linked, ended, asked, mishaps, scenario>>

Init ==
    /\ scenario \in Scenarios
    /\ row = [id \in Posts |-> None]
    /\ targets = [id \in Posts |-> NoTargets]
    /\ notified = [id \in Posts |-> FALSE]
    /\ told = [id \in Posts |-> {}]
    /\ files = {}
    /\ disputed = {}
    /\ rowLock = [id \in Posts |-> None]
    /\ request = [a \in Editors |-> None]
    /\ job = {}
    /\ linked = Children
    /\ ended = {}
    /\ asked = 0
    /\ mishaps = 0
    /\ today = 1

Asking(a) ==
    \E id \in scenario.posts :
        \/ \E body \in scenario.bodies : AskCreate(a, id, body) \/ AskUpdate(a, id, body)
        \/ AskDelete(a, id)

Answering(a) == Lock(a) \/ Store(a) \/ Commit(a) \/ Delete(a) \/ CleanUp(a) \/ Fail(a)

Next ==
    \/ \E a \in Editors : Asking(a) \/ Answering(a)
    \/ StartJob
    \/ \E k \in job : SkipRow(k) \/ FailRow(k) \/ NotifyRow(k)
    \/ \E c \in Children : EndLink(c)
    \/ \E b \in Assignments : EndAssignment(b)
    \/ NextDay

Spec == Init /\ [][Next]_vars

-----------------------------------------------------------------------------
(* Properties *)

\* Rows have the shape of the tables, and in their columns values that the
\* forms allow.
TypeOK ==
    /\ \A id \in Posts : row[id] # None => row[id] \in RowsOf(id) /\ Filled(id, row[id])
    /\ targets \in [Posts -> TargetSets]
    /\ \A a \in Editors : request[a] # None => request[a] \in Requests
    /\ files \subseteq Files /\ disputed \subseteq Files
    /\ rowLock \in [Posts -> Editors \cup {None}]
    /\ linked \subseteq Children
    /\ mishaps \in 0..scenario.mishaps

Named == {row[id].file : id \in {i \in Posts : row[i] # None}} \ {None}
InHand == {request[a].upload : a \in {b \in Editors : request[b] # None /\ request[b].at # "committed"}}
          \cup {request[a].previous : a \in {b \in Editors : request[b] # None}}

\* A row never names a file that is gone, whatever fails, and what is stored
\* without a name is in the hands of a request or was left by a failed removal
\* (config/attachment_storage.py), but for the files of requests that overtook
\* each other.
FilesMatchRows ==
    /\ Named \ disputed \subseteq files
    /\ Cardinality(files \ (Named \cup InHand \cup disputed)) <= mishaps

\* The scope of an announcement and its target sets agree, as the form demands
\* (announcements/serializers.py), unless a request that was validated for other
\* sets than those in the tables commits.
Overtaken(id) ==
    \E a \in Editors :
        /\ request[a] # None /\ request[a].id = id /\ request[a].at = "stored"
        /\ request'[a] # None /\ request'[a].at = "committed"
        /\ request[a].among # targets[id]

Misfit(id) == row[id] # None /\ ~Fits(row[id], targets[id])

ScopesFit == \A id \in Announcements : Misfit(id)' /\ ~Misfit(id) => Overtaken(id)

\* An announcement goes out once, by a request or by the timer, to those who
\* then find it on their phones; a flag that is set is not lost to a PATCH
\* that read the row before (announcements/services.py and views.py).
AnnouncedOnce ==
    /\ \A id \in Announcements :
          LET out == ~notified[id] /\ notified'[id] IN
          /\ notified[id] => notified'[id]
          /\ out /\ ~Expired(row'[id]) =>
                \A c \in linked :
                    SectionOf[c] \in Targets(row'[id], targets'[id]) => GuardianOf[c] \in told'[id]
          /\ \A g \in told'[id] \ told[id] :
                out /\ \E c \in linked : GuardianOf[c] = g /\ id \in PhoneAnnouncements(c)'
    /\ \A id \in Homework :
          \A c \in told'[id] \ told[id] : id \in PhoneHomework(c)'

AnnouncementsReachFamilies == [][AnnouncedOnce]_vars
=============================================================================
