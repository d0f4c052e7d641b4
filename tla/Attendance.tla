------------------------------ MODULE Attendance ------------------------------
(* The attendance sheets of one section: taken in the morning, corrected and *)
(* completed afterwards by several people at a time, read on the phones of   *)
(* the guardians (attendance/).  Placement says who is on a sheet.           *)
(*                                                                           *)
(* The method and note fields of a record follow the times and the status;   *)
(* they are left out.  A time is a number, 0 stands for NULL.                *)
EXTENDS Naturals, FiniteSets

CONSTANTS
    Pupils,    \* the roster of the section, or part of it
    Staff,     \* web users with the attendance permissions
    LastDay,
    Weekend,   \* days on which no attendance is taken
    Times,     \* times of departure asked for
    Mornings,  \* what a new sheet says of every pupil
    Inputs,    \* what a request says of a record, a function on some fields
    Batches,   \* what a bulk request says of some or all
    MaxEdits,  \* bound on the changes after the first sheet
    None

Days == 1..LastDay

\* AttendanceRecord, as far as it is modelled, and its defaults.
Blank == [status |-> "unmarked", arrival |-> 0, departure |-> 0,
          absence_type |-> "", reason |-> FALSE, source |-> FALSE]
Fields == DOMAIN Blank
AbsenceFields == {"absence_type", "reason", "source"}
Records == [status : {"unmarked", "present", "absent"}, arrival : Nat, departure : Nat,
            absence_type : {"", "excused", "unexcused"}, reason : BOOLEAN, source : BOOLEAN]

\* What is said of a record: some of its fields.
Values == [status |-> {"unmarked", "present", "absent"}, arrival |-> Nat, departure |-> Nat,
           absence_type |-> {"", "excused", "unexcused"}, reason |-> BOOLEAN, source |-> BOOLEAN]
IsData(d) == DOMAIN d \subseteq Fields /\ \A f \in DOMAIN d : d[f] \in Values[f]

\* The constants: requests say something of records of pupils, and a departure
\* has a time.
Sensible ==
    /\ \A items \in Mornings, p \in Pupils : IsData(items[p])
    /\ \A data \in Inputs : IsData(data)
    /\ \A items \in Batches : DOMAIN items \subseteq Pupils /\ \A p \in DOMAIN items : IsData(items[p])
    /\ Times \subseteq Nat \ {0}
    /\ LastDay \in Nat \ {0} /\ MaxEdits \in Nat
    /\ None \notin Records \cup [Pupils -> Records]

VARIABLES
    sheet,    \* of a day: the record of every pupil on it, or None
    notices,  \* notifications of an absence, by day and pupil
    reached,  \* pupils that are active and have an active guardian
    manages,  \* the staff whose assignment or stages cover the section today
    request,  \* of a member of the staff, validated and not yet applied
    edits,
    today

vars == <<sheet, notices, reached, manages, request, edits, today>>

-----------------------------------------------------------------------------
(* normalize_and_validate_record *)

Given(r, f) == f \in DOMAIN r /\ r[f] # Blank[f]
Cleared(r, fs) == [f \in Fields |-> IF f \in fs THEN Blank[f] ELSE r[f]]
Merged(data, current) == [f \in Fields |-> IF f \in DOMAIN data THEN data[f] ELSE current[f]]

AsUnmarked(r, final) == IF final THEN None ELSE Cleared(r, Fields)

\* Who turns out to be present after all loses the data of the absence, unless
\* the request insists on it.
BackFromAbsence(data, current) ==
    /\ current.status = "absent"
    /\ Given(data, "status") /\ data.status = "present"
    /\ ~\E f \in AbsenceFields : Given(data, f)

AsPresent(r) ==
    IF \/ \E f \in AbsenceFields : Given(r, f)
       \/ r.arrival # 0 /\ r.departure # 0 /\ r.departure < r.arrival
    THEN None ELSE r

AsAbsent(r) ==
    IF \/ r.absence_type = ""
       \/ r.absence_type = "excused" /\ ~(r.reason /\ r.source)
    THEN None ELSE Cleared(r, {"arrival", "departure"})

\* None: ValidationError.
Normalized(data, current, final, morning) ==
    LET r == Cleared(Merged(data, current), IF morning THEN {"departure"} ELSE {})
    IN  CASE r.status = "unmarked" -> AsUnmarked(r, final)
          [] r.status = "present" ->
                AsPresent(IF BackFromAbsence(data, current) THEN Cleared(r, AbsenceFields) ELSE r)
          [] r.status = "absent" -> AsAbsent(r)

-----------------------------------------------------------------------------
(* Announcing an absence *)

\* Mutant: a notification without an event key.
NotifyAgain(d, ps) ==
    notices' = [notices EXCEPT ![d] =
        [p \in Pupils |-> IF p \in ps \cap reached THEN @[p] + 1 ELSE @[p]]]

\* _notify_final_absences: the event key names the record.
Notify(d, ps) ==
    notices' = [notices EXCEPT ![d] =
        [p \in Pupils |-> IF p \in ps \cap reached /\ @[p] = 0 THEN 1 ELSE @[p]]]

-----------------------------------------------------------------------------
(* create_attendance_sheet *)

\* ensure_actor_can_manage_attendance_scope
InScope(a) == a \in manages

TakeAttendance(a, items) ==
    LET new == [p \in Pupils |-> Normalized(items[p], Blank, TRUE, TRUE)] IN
    /\ today \notin Weekend
    /\ InScope(a)
    /\ sheet[today] = None
    /\ \A p \in Pupils : "status" \in DOMAIN items[p] /\ new[p] # None
    /\ sheet' = [sheet EXCEPT ![today] = new]
    /\ Notify(today, {p \in Pupils : new[p].status = "absent"})
    /\ UNCHANGED <<reached, manages, request, edits, today>>

-----------------------------------------------------------------------------
(* Changes of a sheet.  A request finds its objects, then waits for the row  *)
(* locks and does the rest under them.                                       *)

\* get_queryset, for sheets and for records: what the scope of the user covers.
SheetFound(a, d) == sheet[d] # None /\ InScope(a)
RecordFound(a, d, p) == SheetFound(a, d) /\ p \in DOMAIN sheet[d]

Ask(a, r) ==
    /\ request[a] = None
    /\ edits < MaxEdits
    /\ request' = [request EXCEPT ![a] = r]
    /\ edits' = edits + 1
    /\ UNCHANGED <<sheet, notices, reached, manages, today>>

Change(kind, d, items, time, seen) ==
    [kind |-> kind, day |-> d, items |-> items, time |-> time, seen |-> seen]

\* The serializer validates against the copy get_object returned.
Accepted(data, record) == Normalized(data, record, FALSE, FALSE) # None

AskPatch(a, d, p, data) ==
    /\ RecordFound(a, d, p)
    /\ Accepted(data, sheet[d][p])
    /\ Ask(a, Change("patch", d, [q \in {p} |-> data], 0, sheet[d]))

AskBulk(a, d, items) ==
    /\ SheetFound(a, d)
    /\ Ask(a, Change("bulk", d, items, 0, sheet[d]))

AskDeparture(a, d, time) ==
    /\ SheetFound(a, d)
    /\ Ask(a, Change("departure", d, <<>>, time, sheet[d]))

\* Mutant: the records as the request found them.
FoundRecords(r) == r.seen

\* SELECT FOR UPDATE reads the records again.
LockedRecords(r) == sheet[r.day]

Answer(a, new) ==
    LET r == request[a]
        newlyAbsent == {p \in Pupils : new[p].status = "absent" /\ sheet[r.day][p].status # "absent"}
    IN  /\ sheet' = [sheet EXCEPT ![r.day] = new]
        /\ Notify(r.day, newlyAbsent)
        /\ request' = [request EXCEPT ![a] = None]
        /\ UNCHANGED <<reached, manages, edits, today>>

Refuse(a) ==
    /\ request' = [request EXCEPT ![a] = None]
    /\ UNCHANGED <<sheet, notices, reached, manages, edits, today>>

\* update_attendance_record and bulk_update_attendance: all or nothing.
Edit(a) ==
    LET r == request[a]
        old == LockedRecords(r)
        new == [p \in Pupils |->
                  IF p \in DOMAIN r.items THEN Normalized(r.items[p], old[p], FALSE, FALSE) ELSE old[p]]
    IN  /\ r # None
        /\ r.kind \in {"patch", "bulk"}
        /\ IF \E p \in Pupils : new[p] = None THEN Refuse(a) ELSE Answer(a, new)

StillHere(records) == {p \in Pupils : records[p].status = "present" /\ records[p].departure = 0}

\* apply_normal_departure; one pupil who came later than that refuses it all.
NormalDeparture(a) ==
    LET r == request[a]
        old == LockedRecords(r)
        new == [p \in Pupils |->
                  IF p \in StillHere(old)
                  THEN Normalized([departure |-> r.time], old[p], FALSE, FALSE) ELSE old[p]]
    IN  /\ r # None
        /\ r.kind = "departure"
        /\ IF \E p \in Pupils : new[p] = None THEN Refuse(a) ELSE Answer(a, new)

-----------------------------------------------------------------------------
(* The phones: MobileChildTodayAttendanceView and ...HistoryView *)

\* UNMARKED is shown as not recorded.
Today(p) ==
    IF sheet[today] = None \/ sheet[today][p].status = "unmarked" THEN None ELSE sheet[today][p]

HistoryDays(p, from, to) ==
    {d \in from..to : sheet[d] # None /\ sheet[d][p].status # "unmarked"}

Summary(p, from, to) ==
    LET days == HistoryDays(p, from, to)
        absent == {d \in days : sheet[d][p].status = "absent"}
        Absences(type) == Cardinality({d \in absent : sheet[d][p].absence_type = type})
    IN  [total_recorded_days |-> Cardinality(days),
         present_count |-> Cardinality({d \in days : sheet[d][p].status = "present"}),
         absent_count |-> Cardinality(absent),
         excused_absence_count |-> Absences("excused"),
         unexcused_absence_count |-> Absences("unexcused")]

\* In hundredths of a percent, ROUND_HALF_UP.
Rate(s) ==
    IF s.total_recorded_days = 0 THEN 0
    ELSE (2 * 10000 * s.present_count + s.total_recorded_days) \div (2 * s.total_recorded_days)

-----------------------------------------------------------------------------
(* Elsewhere: a guardian link or an assignment ends, the day goes on        *)

EndLink(p) ==
    /\ p \in reached /\ edits < MaxEdits
    /\ reached' = reached \ {p}
    /\ edits' = edits + 1
    /\ UNCHANGED <<sheet, notices, manages, request, today>>

EndAssignment(a) ==
    /\ a \in manages /\ edits < MaxEdits
    /\ manages' = manages \ {a}
    /\ edits' = edits + 1
    /\ UNCHANGED <<sheet, notices, reached, request, today>>

NextDay ==
    /\ today < LastDay
    /\ today' = today + 1
    /\ UNCHANGED <<sheet, notices, reached, manages, request, edits>>

Init ==
    /\ sheet = [d \in Days |-> None]
    /\ notices = [d \in Days |-> [p \in Pupils |-> 0]]
    /\ reached = Pupils
    /\ manages = Staff
    /\ request = [a \in Staff |-> None]
    /\ edits = 0
    /\ today = 1

Next ==
    \/ \E a \in Staff :
          \/ \E items \in Mornings : TakeAttendance(a, items)
          \/ \E d \in 1..today :
                \/ \E p \in Pupils, data \in Inputs : AskPatch(a, d, p, data)
                \/ \E items \in Batches : AskBulk(a, d, items)
                \/ \E time \in Times : AskDeparture(a, d, time)
          \/ Edit(a)
          \/ NormalDeparture(a)
          \/ EndAssignment(a)
    \/ \E p \in Pupils : EndLink(p)
    \/ NextDay

Spec == Init /\ [][Next]_vars

-----------------------------------------------------------------------------
(* Properties *)

\* Sheets hold a record for every pupil, requests what they were given.
TypeOK ==
    /\ \A d \in Days : sheet[d] # None => sheet[d] \in [Pupils -> Records]
    /\ notices \in [Days -> [Pupils -> 0..1]]
    /\ reached \subseteq Pupils
    /\ manages \subseteq Staff
    /\ \A a \in Staff : request[a] # None => request[a].day \in 1..today /\ sheet[request[a].day] # None
    /\ edits \in 0..MaxEdits
    /\ today \in Days

MakesSense(r) ==
    /\ r.status = "unmarked" => r = Blank
    /\ r.status = "present" => /\ \A f \in AbsenceFields : ~Given(r, f)
                               /\ r.arrival # 0 /\ r.departure # 0 => r.departure >= r.arrival
    /\ r.status = "absent" => /\ r.arrival = 0 /\ r.departure = 0
                              /\ r.absence_type # ""
                              /\ r.absence_type = "excused" => r.reason /\ r.source

\* Whatever a record went through, it says one consistent thing, and what the
\* guardian's phone counts adds up (domain.py and mobile_selectors.py).
RecordsMakeSense ==
    /\ \A d \in Days : sheet[d] # None => \A p \in Pupils : MakesSense(sheet[d][p])
    /\ \A p \in Pupils :
          LET s == Summary(p, 1, today) IN
          /\ s.total_recorded_days = s.present_count + s.absent_count
          /\ s.absent_count = s.excused_absence_count + s.unexcused_absence_count
          /\ Rate(s) <= 10000

Status(d, p) == IF sheet[d] = None THEN "unmarked" ELSE sheet[d][p].status

\* A guardian hears of an absence when it is recorded, by whichever path, once
\* (services.py, the event key of _notify_final_absences).
AnnouncedOnce ==
    \A d \in Days, p \in Pupils :
        /\ notices'[d][p] <= 1
        /\ Status(d, p) # "absent" /\ Status(d, p)' = "absent" /\ p \in reached
              => notices'[d][p] = 1 /\ (d = today => Today(p)' # None)

AbsencesAreAnnounced == [][AnnouncedOnce]_vars

\* Of two people who change a sheet at a time, neither undoes what the other
\* wrote: a request changes only what it names and what follows from it, and
\* a normal departure only completes (services.py, the row locks).
OnlyNamedChanges ==
    \A a \in Staff, p \in Pupils :
        LET r == request[a] IN
        r # None /\ request'[a] = None =>
           LET old == sheet[r.day][p]
               new == sheet'[r.day][p]
           IN  CASE r.kind = "departure" -> old.departure # 0 => new = old
                 [] OTHER ->
                     LET named == IF p \in DOMAIN r.items THEN DOMAIN r.items[p] ELSE {} IN
                     \/ old.status # new.status /\ "status" \in named
                     \/ \A f \in Fields : new[f] # old[f] => f \in named

EditsKeepEditsOfOthers == [][OnlyNamedChanges]_vars
=============================================================================
