------------------------------ MODULE Decisions ------------------------------
(* What guardians ask of the school and the school decides once: appointments *)
(* (appointments/), approved or rejected, and letters - complaints, questions *)
(* and suggestions (school_requests/) -, answered.                            *)
(*                                                                            *)
(* A decision finds its row, then locks it and reads it again, and commits    *)
(* the outcome together with the notification of the guardian.                *)
EXTENDS Naturals, FiniteSets

CONSTANTS
    Appointments, Letters, \* ids, disjoint
    Guardians, Students,
    Staff,       \* web users with the permissions to decide and to answer
    StudentsOf,  \* the students in the stages of a supervisor, all for others
    Supervisors, \* of the staff
    Texts,       \* reasons, notes and responses given; "" is blank
    LastTime,    \* a time is a number, a day is two of them
    MaxChanges,  \* bound on the accounts and links that are closed
    None

Cases == Appointments \cup Letters
Day(time) == (time + 1) \div 2

VARIABLES
    row,     \* of a case, or None
    told,    \* of a case: the outcomes its guardian was notified of
    rowLock,
    request, \* of a member of the staff, or None
    active,  \* guardians whose account is active
    linked,  \* active [guardian, student] links of active students
    changes,
    now

vars == <<row, told, rowLock, request, active, linked, changes, now>>

Open(c) == IF c \in Appointments THEN "pending" ELSE "new"
Outcomes(c) == IF c \in Appointments THEN {"approved", "rejected"} ELSE {"answered"}

\* AppointmentRequest and SchoolRequest; `reason` is decision_reason of the
\* one and school_response of the other.
Blank(c, g, s) ==
    [guardian |-> g, student |-> s, status |-> Open(c), reason |-> "", note |-> "", by |-> None]

\* The shape of the rows, and of what a request carries.
Rows == [guardian : Guardians, student : Students \cup {None},
         status : {"pending", "approved", "rejected", "new", "answered"},
         reason : Texts, note : Texts, by : Staff \cup {None}]

Requests == [case : Cases, outcome : {"approved", "rejected", "answered"}, text : Texts,
             seen : Rows, at : {"found", "locked"}]

\* The constants: None is none of the ids and rows, a text that is not given is
\* blank, a case is one thing, and there is a first time.
Sensible ==
    /\ None \notin Staff \cup Rows \cup Requests
    /\ "" \in Texts
    /\ Appointments \cap Letters = {}
    /\ LastTime \in Nat \ {0}

-----------------------------------------------------------------------------
(* Guardians ask *)

Submit(c, new) ==
    /\ row[c] = None
    /\ row' = [row EXCEPT ![c] = new]
    /\ UNCHANGED <<told, rowLock, request, active, linked, changes, now>>

\* MobileAppointmentRequestSerializer; the create of the web viewset has no
\* permission that would allow it to anybody.
MobileAppointmentValid(day, time) == day >= Day(now) /\ Day(time) = day /\ time > now

RequestAppointment(g, c, day, time) ==
    /\ c \in Appointments
    /\ g \in active
    /\ MobileAppointmentValid(day, time)
    /\ Submit(c, Blank(c, g, None))

\* validate_student
OwnsStudent(g, s) == s # None => <<g, s>> \in linked

SendLetter(g, c, s) ==
    /\ c \in Letters
    /\ g \in active
    /\ OwnsStudent(g, s)
    /\ Submit(c, Blank(c, g, s))

\* What the phone of a guardian lists.
PhoneCases(g) == {c \in Cases : g \in active /\ row[c] # None /\ row[c].guardian = g}

-----------------------------------------------------------------------------
(* The school decides *)

\* filter_school_requests_by_supervisor_scope: through the student only.
InScope(a, c) == a \in Supervisors => row[c].student \in StudentsOf[a]

\* get_queryset: appointments know no scope.
Found(a, c) == row[c] # None /\ (c \in Letters => InScope(a, c))

\* _validate_decision_reason; the note of an approval may be blank.
TextAllowed(outcome, text) == outcome \in {"rejected", "answered"} => text # ""

Ask(a, c, outcome, text) ==
    /\ request[a] = None
    /\ Found(a, c)
    /\ outcome \in Outcomes(c)
    /\ TextAllowed(outcome, text)
    /\ request' = [request EXCEPT ![a] =
          [case |-> c, outcome |-> outcome, text |-> text, seen |-> row[c], at |-> "found"]]
    /\ UNCHANGED <<row, told, rowLock, active, linked, changes, now>>

\* A validation error, or the connection is lost: the transaction has no effect.
Fail(a) ==
    /\ request[a] # None
    /\ request' = [request EXCEPT ![a] = None]
    /\ rowLock' = [c \in Cases |-> IF rowLock[c] = a THEN None ELSE rowLock[c]]
    /\ UNCHANGED <<row, told, active, linked, changes, now>>

\* Mutant: the status get_object returned.
SeenStatus(a) == request[a].seen.status

\* The status under the row lock.
LockedStatus(a) == row[request[a].case].status

Lock(a) ==
    LET c == request[a].case IN
    /\ request[a] # None /\ request[a].at = "found"
    /\ rowLock[c] = None
    /\ IF LockedStatus(a) # Open(c) \/ ~Found(a, c)
       THEN Fail(a)
       ELSE /\ rowLock' = [rowLock EXCEPT ![c] = a]
            /\ request' = [request EXCEPT ![a].at = "locked"]
            /\ UNCHANGED <<row, told, active, linked, changes, now>>

Decided(a, r, outcome, text) ==
    [r EXCEPT !.status = outcome, !.by = a,
              !.reason = IF outcome = "approved" THEN "" ELSE text,
              !.note = IF outcome = "approved" THEN text ELSE ""]

\* The event key names the case and the outcome.
Notify(c, outcome) == told' = [told EXCEPT ![c] = @ \cup {outcome}]

Conclude(a) ==
    /\ row' = [row EXCEPT ![request[a].case] =
          Decided(a, @, request[a].outcome, request[a].text)]
    /\ rowLock' = [rowLock EXCEPT ![request[a].case] = None]
    /\ request' = [request EXCEPT ![a] = None]
    /\ UNCHANGED <<active, linked, changes, now>>

\* create_notification refuses an inactive recipient, and with it the decision.
DecideAppointment(a) ==
    LET c == request[a].case IN
    /\ request[a] # None /\ request[a].at = "locked" /\ c \in Appointments
    /\ IF row[c].guardian \in active
       THEN Conclude(a) /\ Notify(c, request[a].outcome)
       ELSE Fail(a)

Reachable(r) == r.guardian \in active /\ OwnsStudent(r.guardian, r.student)

\* notify_school_request_answered leaves out who cannot be reached.
AnswerLetter(a) ==
    LET c == request[a].case IN
    /\ request[a] # None /\ request[a].at = "locked" /\ c \in Letters
    /\ Conclude(a)
    /\ IF Reachable(row[c]) THEN Notify(c, "answered") ELSE UNCHANGED told

-----------------------------------------------------------------------------
(* Elsewhere *)

CloseAccount(g) ==
    /\ g \in active /\ changes < MaxChanges
    /\ active' = active \ {g}
    /\ changes' = changes + 1
    /\ UNCHANGED <<row, told, rowLock, request, linked, now>>

EndLink(g, s) ==
    /\ <<g, s>> \in linked /\ changes < MaxChanges
    /\ linked' = linked \ {<<g, s>>}
    /\ changes' = changes + 1
    /\ UNCHANGED <<row, told, rowLock, request, active, now>>

Tick ==
    /\ now < LastTime
    /\ now' = now + 1
    /\ UNCHANGED <<row, told, rowLock, request, active, linked, changes>>

Init ==
    /\ row = [c \in Cases |-> None]
    /\ told = [c \in Cases |-> {}]
    /\ rowLock = [c \in Cases |-> None]
    /\ request = [a \in Staff |-> None]
    /\ active = Guardians
    /\ linked = Guardians \X Students
    /\ changes = 0
    /\ now = 1

Next ==
    \/ \E g \in Guardians, c \in Cases :
          \/ \E day \in 1..Day(LastTime), time \in 1..LastTime : RequestAppointment(g, c, day, time)
          \/ \E s \in Students \cup {None} : SendLetter(g, c, s)
    \/ \E a \in Staff :
          \/ \E c \in Cases, text \in Texts : \E outcome \in Outcomes(c) : Ask(a, c, outcome, text)
          \/ Lock(a) \/ DecideAppointment(a) \/ AnswerLetter(a) \/ Fail(a)
    \/ \E g \in Guardians : CloseAccount(g) \/ \E s \in Students : EndLink(g, s)
    \/ Tick

Spec == Init /\ [][Next]_vars

-----------------------------------------------------------------------------
(* Properties *)

\* Rows have the shape of the tables.
TypeOK ==
    /\ \A c \in Cases : row[c] = None \/ row[c] \in Rows
    /\ told \in [Cases -> SUBSET {"approved", "rejected", "answered"}]
    /\ rowLock \in [Cases -> Staff \cup {None}]
    /\ active \subseteq Guardians /\ linked \subseteq Guardians \X Students
    /\ now \in 1..LastTime

\* The check constraint appt_decision_state_valid, and the same of letters.
Consistent(c) ==
    LET r == row[c] IN
    r # None =>
        /\ r.status = Open(c) <=> r.by = None
        /\ r.status \in {"rejected", "answered"} <=> r.reason # ""
        /\ r.note # "" => r.status = "approved"

\* Of several who decide one case at a time one prevails, whole: what is
\* decided never changes again, and no second answer goes out (services.py and
\* views.py, the status read again under the row lock).
OnceDecided ==
    \A c \in Cases :
        /\ Consistent(c)'
        /\ row[c] # None /\ row[c].status # Open(c) => row'[c] = row[c] /\ told'[c] = told[c]

DecisionsStand == [][OnceDecided]_vars

\* A guardian who can be reached hears of the decision as it is made, of that
\* one and no other, and finds it on the phone; the decision on an appointment
\* is not made without (create_notification, in the same transaction).
Answered ==
    \A c \in Cases :
        /\ told'[c] # {} => told'[c] = {row'[c].status}
        /\ told[c] # told'[c] => \E g \in Guardians : row[c].guardian = g /\ c \in PhoneCases(g)'
        /\ row[c] # None /\ row[c].status = Open(c) /\ row'[c].status # Open(c) =>
              (c \in Appointments \/ Reachable(row[c]) => told'[c] # {})

GuardiansAreAnswered == [][Answered]_vars
=============================================================================
