------------------------------ MODULE SchoolYear ------------------------------
(* Periods of time that must fit into each other: academic years, the terms   *)
(* of a year (academics/), and the assignments of teachers to a subject of a  *)
(* section (teaching/).                                                       *)
(*                                                                            *)
(* A request reads the row it is about and validates it against the other     *)
(* rows, without a lock; a second step saves every column of what it read.    *)
(* The constraints of the tables are checked as the row is saved.             *)
EXTENDS Naturals, FiniteSets

CONSTANTS
    Years, Terms, Assignments, \* ids, disjoint
    Slots,       \* a subject in a section
    YearOf,      \* of a slot
    Used,        \* terms and assignments that other tables refer to
    Editors,
    Supervisors, \* of the editors, each for the slots SlotsOf
    SlotsOf,
    LastDay,
    MaxRequests, \* bound on the requests of a behaviour
    Plans,       \* the rows to begin with, who asks, what for
    None

Ids == Years \cup Terms \cup Assignments
OpenEnd == LastDay + 1  \* end_date NULL

-----------------------------------------------------------------------------
(* Rows *)

Columns(id) ==
    CASE id \in Years -> {"start", "end", "status"}
      [] id \in Terms -> {"year", "number", "start", "end", "status"}
      [] id \in Assignments -> {"slot", "start", "end"}

Statuses == {"draft", "active", "closed"}
YearRows == [start : 1..LastDay, end : 1..OpenEnd, status : Statuses]
TermRows == [year : Years, number : Nat, start : 1..LastDay, end : 1..OpenEnd, status : Statuses]
AssignmentRows == [slot : Slots, start : 1..LastDay, end : 1..OpenEnd]
Rows == YearRows \cup TermRows \cup AssignmentRows

RowsOf(id) ==
    CASE id \in Years -> YearRows
      [] id \in Terms -> TermRows
      [] id \in Assignments -> AssignmentRows

\* What a request may say of a row: some of its columns.
Values == [start |-> 1..LastDay, end |-> 1..OpenEnd, status |-> Statuses,
           year |-> Years, number |-> Nat, slot |-> Slots]
IsBody(b) ==
    /\ b = [f \in DOMAIN b |-> b[f]]
    /\ DOMAIN b \subseteq DOMAIN Values /\ \A f \in DOMAIN b : b[f] \in Values[f]

Overlap(p, q) == p.start <= q.end /\ q.start <= p.end
Within(p, q) == q.start <= p.start /\ p.end <= q.end

-----------------------------------------------------------------------------
(* Periods in order *)

AtMostOne(S) == \A i, j \in S : i = j
Held(rows, ids) == {i \in ids : rows[i] # None}
TermsIn(rows, y) == {t \in Held(rows, Terms) : rows[t].year = y}
ActiveIn(rows, ids) == {i \in Held(rows, ids) : rows[i].status = "active"}

\* Teachers of a subject in a section on a day.
TeachingOn(rows, slot, day) ==
    {b \in Held(rows, Assignments) : rows[b].slot = slot /\ rows[b].start <= day /\ day <= rows[b].end}

\* One year and one term of it are active, and every term has its year.
OneIsActive(rows) ==
    /\ AtMostOne(ActiveIn(rows, Years))
    /\ \A y \in Held(rows, Years) : AtMostOne(ActiveIn(rows, TermsIn(rows, y)))
    /\ \A t \in Held(rows, Terms) : rows[rows[t].year] # None

\* A day belongs to one term of its year, and a subject of a section has one
\* teacher a day.
Orderly(rows) ==
    /\ \A t \in Held(rows, Terms) : Within(rows[t], rows[rows[t].year])
    /\ \A y \in Years : \A t, u \in TermsIn(rows, y) : t = u \/ ~Overlap(rows[t], rows[u])
    /\ \A s \in Slots, day \in 1..LastDay : AtMostOne(TeachingOn(rows, s, day))

\* The constants: a school begins with periods in order.
Sensible ==
    /\ Years \cap Terms = {} /\ Years \cap Assignments = {} /\ Terms \cap Assignments = {}
    /\ YearOf \in [Slots -> Years] /\ LastDay \in Nat
    /\ \A p \in Plans : /\ p.rows \in [Ids -> Rows \cup {None}]
                        /\ \A id \in Held(p.rows, Ids) : p.rows[id] \in RowsOf(id)
                        /\ \A s \in Slots : p.rows[YearOf[s]] # None
                        /\ OneIsActive(p.rows) /\ Orderly(p.rows)
                        /\ \A b \in p.bodies : IsBody(b)
                        /\ p.ends \subseteq 1..LastDay
    /\ None \notin Rows

VARIABLES
    row,     \* of an id, or None
    request, \* of an editor, or None
    saves,   \* how many rows were written
    raced,   \* history: a row was written after one that its validation missed
    asked,
    plan

vars == <<row, request, saves, raced, asked, plan>>

-----------------------------------------------------------------------------
There(ids) == {i \in ids : row[i] # None}

\* What a request says goes over the row as it was read.
Merged(body, seen) == [f \in DOMAIN seen |-> IF f \in DOMAIN body THEN body[f] ELSE seen[f]]

-----------------------------------------------------------------------------
(* What the serializers validate *)

ValidYear(id, new) ==
    /\ new.start < new.end
    /\ \A t \in There(Terms) : row[t].year = id => Within(row[t], new)

TermsOf(year) == {t \in There(Terms) : row[t].year = year}

ValidTerm(id, new) ==
    /\ row[new.year] # None
    /\ new.start < new.end
    /\ Within(new, row[new.year])
    /\ \A t \in TermsOf(new.year) \ {id} : ~Overlap(new, row[t])

\* Mutant: the assignment that was there first counts while it has no end.
OpenTeaching(slot) == {b \in There(Assignments) : row[b].slot = slot /\ row[b].end = OpenEnd}

Teaching(slot) == {b \in There(Assignments) : row[b].slot = slot}

\* The year of a slot is there as long as the slot is (PROTECT).
ValidAssignment(id, new) ==
    LET year == row[YearOf[new.slot]] IN
    /\ year.start <= new.start /\ new.start <= year.end
    /\ new.end # OpenEnd => new.start <= new.end /\ Within(new, year)
    /\ \A b \in Teaching(new.slot) \ {id} : ~Overlap(new, row[b])

Valid(id, new) ==
    CASE id \in Years -> ValidYear(id, new)
      [] id \in Terms -> ValidTerm(id, new)
      [] id \in Assignments -> ValidAssignment(id, new)

-----------------------------------------------------------------------------
(* The constraints of the tables *)

OthersActive(id, ids) == {i \in There(ids) \ {id} : row[i].status = "active"}

YearFits(id, new) ==
    /\ new.start < new.end
    /\ \A y \in There(Years) \ {id} : <<row[y].start, row[y].end>> # <<new.start, new.end>>
    /\ new.status = "active" => OthersActive(id, Years) = {}

TermFits(id, new) ==
    /\ row[new.year] # None
    /\ new.start < new.end
    /\ \A t \in TermsOf(new.year) \ {id} : row[t].number # new.number
    /\ new.status = "active" => OthersActive(id, TermsOf(new.year)) = {}

AssignmentFits(new) == new.start <= new.end

Fits(id, new) ==
    CASE id \in Years -> YearFits(id, new)
      [] id \in Terms -> TermFits(id, new)
      [] id \in Assignments -> AssignmentFits(new)

\* PROTECT
Protected(id) ==
    \/ id \in Used
    \/ id \in Years /\ (TermsOf(id) # {} \/ \E s \in Slots : YearOf[s] = id)

-----------------------------------------------------------------------------
(* Requests *)

\* What a supervisor finds, and is allowed to write: assignments in stages of
\* the supervisor, never years or terms.
InScope(a, id, r) == a \in Supervisors => id \in Assignments /\ r.slot \in SlotsOf[a]

Ask(a, id, op, new) ==
    /\ request[a] = None /\ a \in plan.editors
    /\ asked < MaxRequests
    /\ asked' = asked + 1
    /\ request' = [request EXCEPT ![a] = [id |-> id, op |-> op, new |-> new, saves |-> saves]]
    /\ UNCHANGED <<row, saves, raced, plan>>

\* A new row has an id of its own (uuid4).
AskCreate(a, id, new) ==
    /\ row[id] = None
    /\ \A b \in Editors : request[b] # None => request[b].id # id
    /\ DOMAIN new = Columns(id)
    /\ Valid(id, new)
    /\ InScope(a, id, new)
    /\ Ask(a, id, "save", new)

AskUpdate(a, id, body) ==
    /\ row[id] # None
    /\ DOMAIN body \subseteq Columns(id)
    /\ Valid(id, Merged(body, row[id]))
    /\ InScope(a, id, row[id]) /\ InScope(a, id, Merged(body, row[id]))
    /\ Ask(a, id, "save", Merged(body, row[id]))

\* end: of an assignment that has no end
AskEnd(a, id, day) ==
    /\ id \in Assignments /\ row[id] # None
    /\ row[id].end = OpenEnd
    /\ AskUpdate(a, id, [end |-> day])

\* reopen
AskReopen(a, id) ==
    /\ id \in Assignments /\ row[id] # None
    /\ row[id].end # OpenEnd
    /\ AskUpdate(a, id, [end |-> OpenEnd])

AskDelete(a, id) ==
    /\ row[id] # None
    /\ InScope(a, id, row[id])
    /\ Ask(a, id, "delete", None)

\* serializer.save(); a row that is gone by now is inserted again.
Save(a) ==
    LET r == request[a] IN
    /\ r # None /\ r.op = "save"
    /\ request' = [request EXCEPT ![a] = None]
    /\ IF Fits(r.id, r.new)
       THEN /\ row' = [row EXCEPT ![r.id] = r.new]
            /\ saves' = saves + 1
            /\ raced' = (raced \/ r.saves # saves)
       ELSE UNCHANGED <<row, saves, raced>>
    /\ UNCHANGED <<asked, plan>>

\* perform_destroy; ProtectedError is answered with a refusal.
Delete(a) ==
    LET r == request[a] IN
    /\ r # None /\ r.op = "delete"
    /\ request' = [request EXCEPT ![a] = None]
    /\ IF Protected(r.id)
       THEN UNCHANGED <<row, saves>>
       ELSE /\ row' = [row EXCEPT ![r.id] = None]
            /\ saves' = saves + 1
    /\ UNCHANGED <<raced, asked, plan>>

Init ==
    /\ plan \in Plans
    /\ row = plan.rows
    /\ request = [a \in Editors |-> None]
    /\ saves = 0
    /\ raced = FALSE
    /\ asked = 0

Asking(a, id) ==
    \/ \E body \in plan.bodies : AskCreate(a, id, body) \/ AskUpdate(a, id, body)
    \/ \E day \in plan.ends : AskEnd(a, id, day)
    \/ plan.ends # {} /\ AskReopen(a, id)
    \/ plan.deletes /\ AskDelete(a, id)

Next == \E a \in Editors : Save(a) \/ Delete(a) \/ \E id \in Ids : Asking(a, id)

Spec == Init /\ [][Next]_vars

-----------------------------------------------------------------------------
(* Properties *)

\* Rows have the shape of the tables.
TypeOK == \A id \in There(Ids) : row[id] \in RowsOf(id)

\* One year and one term of it are active, whoever edits at the same time; and
\* as long as no request is overtaken by another, a day belongs to one term of
\* its year and a subject of a section has one teacher a day, through ends,
\* reopenings and changes of the dates of a year (academics/serializers.py,
\* teaching/serializers.py, the constraints of the tables).
PeriodsInOrder == OneIsActive(row) /\ (~raced => Orderly(row))
=============================================================================
