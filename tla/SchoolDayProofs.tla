---------------------------- MODULE SchoolDayProofs ----------------------------
(* Proofs about the parts of SchoolDay.  For each part one invariant, the     *)
(* steps that keep it, and what those steps promise; at the end the school    *)
(* day, of which every step is one of a single part or leaves it as it is.    *)
EXTENDS SchoolDay, PlacementProofs, FiniteSetTheorems, SequenceTheorems, TLAPS

-----------------------------------------------------------------------------
(* Decisions: whoever of the staff decides at the same time, a case is       *)
(* decided once, and its guardian is told that decision and no other.        *)

DecidingOK(a) ==
    request[a] # None =>
        /\ request[a] \in D!Requests
        /\ row[request[a].case] # None
        /\ request[a].outcome \in D!Outcomes(request[a].case)
        /\ D!TextAllowed(request[a].outcome, request[a].text)
        /\ request[a].at = "locked" =>
              /\ rowLocks[request[a].case] = a
              /\ row[request[a].case].status = D!Open(request[a].case)

CaseTold(c) ==
    told[c] # {} => /\ row[c] # None
                    /\ row[c].status # D!Open(c) /\ told[c] = {row[c].status}

CaseLocked(c) ==
    rowLocks[c] # None => /\ request[rowLocks[c]] # None
                         /\ request[rowLocks[c]].case = c /\ request[rowLocks[c]].at = "locked"

CasesShape ==
    /\ row \in [D!Cases -> D!Rows \cup {None}]
    /\ told \in [D!Cases -> SUBSET {"approved", "rejected", "answered"}]
    /\ rowLocks \in [D!Cases -> Office \cup {None}]
    /\ DOMAIN request = Office
    /\ active \subseteq Guardians /\ linked \subseteq Guardians \X Students
    /\ now \in 1..LastTime

DecisionsInv ==
    /\ CasesShape
    /\ \A c \in D!Cases : D!Consistent(c) /\ CaseTold(c) /\ CaseLocked(c)
    /\ \A a \in Office : DecidingOK(a)

-----------------------------------------------------------------------------
(* What a step may do *)

\* A case that is decided stays as it is; the others' requests and their cases
\* are left alone.  a is the member of the staff who acts, or None.
CourteousToCases(a) ==
    /\ \A b \in Office : b # a => request'[b] = request[b]
    /\ \A c \in D!Cases : rowLocks[c] \notin {None, a} => rowLocks'[c] = rowLocks[c] /\ row'[c] = row[c]
    /\ \A c \in D!Cases : row[c] # None => row'[c] # None

GoodDecision(a) ==
    /\ CourteousToCases(a)
    /\ CasesShape'
    /\ \A c \in D!Cases : D!Consistent(c)' /\ CaseTold(c)' /\ CaseLocked(c)'
    /\ a \in Office => DecidingOK(a)'
    /\ D!OnceDecided /\ D!Answered

LEMMA GoodDecisionKeepsInv ==
    ASSUME D!Sensible, DecisionsInv, NEW a, GoodDecision(a)
    PROVE  DecisionsInv'
<1>1. ASSUME NEW b \in Office, b # a PROVE DecidingOK(b)'
  <2> SUFFICES ASSUME request[b] # None PROVE DecidingOK(b)'
    BY <1>1 DEF GoodDecision, CourteousToCases, DecidingOK
  <2>1. request'[b] = request[b] /\ DecidingOK(b)
    BY <1>1 DEF GoodDecision, CourteousToCases, DecisionsInv
  <2>2. PICK c \in D!Cases : c = request[b].case /\ row[c] # None /\ row'[c] # None
    BY <2>1 DEF DecidingOK, D!Requests, GoodDecision, CourteousToCases
  <2>3. request[b].at = "locked" => rowLocks'[c] = rowLocks[c] /\ row'[c] = row[c]
    BY <1>1, <2>1, <2>2 DEF DecidingOK, GoodDecision, CourteousToCases, D!Sensible
  <2> QED BY <2>1, <2>2, <2>3 DEF DecidingOK
<1> QED BY <1>1 DEF DecisionsInv, GoodDecision

LEMMA CaseFacts ==
    ASSUME D!Sensible, NEW c \in D!Cases
    PROVE  /\ D!Open(c) \in {"pending", "new"} /\ D!Open(c) \notin D!Outcomes(c)
           /\ D!Outcomes(c) \subseteq {"approved", "rejected", "answered"}
           /\ c \in Letters => D!Outcomes(c) = {"answered"}
BY DEF D!Sensible, D!Open, D!Outcomes

\* A step that leaves every case alone.
LEMMA QuietForCases ==
    ASSUME D!Sensible, DecisionsInv, NEW a, UNCHANGED <<row, told>>,
           rowLocks' \in [D!Cases -> Office \cup {None}], DOMAIN request' = Office,
           active' \subseteq Guardians, linked' \subseteq Guardians \X Students, now' \in 1..LastTime,
           \A b \in Office : b # a => request'[b] = request[b],
           \A c \in D!Cases : rowLocks[c] \notin {None, a} => rowLocks'[c] = rowLocks[c],
           \A c \in D!Cases : CaseLocked(c)',
           a \in Office => DecidingOK(a)'
    PROVE  DecisionsInv' /\ D!OnceDecided /\ D!Answered
<1>1. \A c \in D!Cases : D!Consistent(c)' /\ CaseTold(c)'
  BY DEF DecisionsInv, D!Consistent, CaseTold
<1>2. CourteousToCases(a) /\ CasesShape'
  BY DEF CourteousToCases, CasesShape, DecisionsInv
<1>3. D!OnceDecided /\ D!Answered
  BY <1>1 DEF D!OnceDecided, D!Answered, CaseTold
<1>4. GoodDecision(a)
  BY <1>1, <1>2, <1>3 DEF GoodDecision
<1> QED BY <1>3, <1>4, GoodDecisionKeepsInv

\* A case that is not there yet is neither locked nor told.
LEMMA FreshCase ==
    ASSUME D!Sensible, DecisionsInv, NEW c \in D!Cases, row[c] = None
    PROVE  rowLocks[c] = None /\ told[c] = {}
<1>1. CaseLocked(c) /\ CaseTold(c) /\ rowLocks[c] \in Office \cup {None}
  BY DEF DecisionsInv, CasesShape
<1>2. rowLocks[c] \in Office => DecidingOK(rowLocks[c])
  BY DEF DecisionsInv
<1> QED BY <1>1, <1>2 DEF CaseLocked, CaseTold, DecidingOK, D!Sensible

LEMMA SubmitGood ==
    ASSUME D!Sensible, DecisionsInv, NEW c \in D!Cases, NEW g \in Guardians, NEW s \in Students \cup {None},
           D!Submit(c, D!Blank(c, g, s))
    PROVE  DecisionsInv' /\ D!OnceDecided /\ D!Answered
<1>1. PICK new : new = D!Blank(c, g, s)
  OBVIOUS
<1>2. /\ row[c] = None /\ row' = [row EXCEPT ![c] = new]
      /\ UNCHANGED <<told, rowLocks, request, active, linked, changes, now>>
  BY <1>1 DEF D!Submit
<1>3. /\ new \in D!Rows /\ new # None /\ new.status = D!Open(c) /\ new.by = None
      /\ new.reason = "" /\ new.note = ""
  <2>1. D!Open(c) \in {"pending", "new"}
    BY CaseFacts
  <2>2. new \in D!Rows /\ new.status = D!Open(c) /\ new.by = None /\ new.reason = "" /\ new.note = ""
    BY <1>1, <2>1 DEF D!Blank, D!Rows, D!Sensible
  <2> QED BY <2>2 DEF D!Sensible
<1>4. row' \in [D!Cases -> D!Rows \cup {None}] /\ row'[c] = new /\ \A x \in D!Cases : x # c => row'[x] = row[x]
  BY <1>2, <1>3 DEF DecisionsInv, CasesShape
<1>5. \A x \in D!Cases : D!Consistent(x)' /\ CaseTold(x)' /\ CaseLocked(x)'
  <2> SUFFICES ASSUME NEW x \in D!Cases PROVE D!Consistent(x)' /\ CaseTold(x)' /\ CaseLocked(x)'
    OBVIOUS
  <2>1. CaseLocked(x)'
    BY <1>2 DEF DecisionsInv, CaseLocked
  <2>2. CASE x # c
    BY <1>2, <1>4, <2>1, <2>2 DEF DecisionsInv, D!Consistent, CaseTold
  <2>3. CASE x = c
    <3>1. told'[c] = {}
      BY <1>2, FreshCase
    <3>2. D!Consistent(c)'
      BY <1>3, <1>4, CaseFacts DEF D!Consistent
    <3> QED BY <2>1, <2>3, <3>1, <3>2 DEF CaseTold
  <2> QED BY <2>2, <2>3
<1>6. CourteousToCases(None)
  BY <1>2, <1>3, <1>4, FreshCase DEF CourteousToCases
<1>7. CasesShape'
  BY <1>2, <1>4 DEF DecisionsInv, CasesShape
<1>8. D!OnceDecided /\ D!Answered
  BY <1>2, <1>4, <1>5 DEF D!OnceDecided, D!Answered, CaseTold
<1>9. GoodDecision(None)
  BY <1>5, <1>6, <1>7, <1>8 DEF GoodDecision, D!Sensible
<1> QED BY <1>8, <1>9, GoodDecisionKeepsInv

LEMMA GuardianAsksGood ==
    ASSUME D!Sensible, DecisionsInv, NEW g \in Guardians, NEW c \in D!Cases,
           \/ \E day, time : D!RequestAppointment(g, c, day, time)
           \/ \E s \in Students \cup {None} : D!SendLetter(g, c, s)
    PROVE  DecisionsInv' /\ D!OnceDecided /\ D!Answered
BY SubmitGood DEF D!RequestAppointment, D!SendLetter

LEMMA AskDecisionGood ==
    ASSUME D!Sensible, DecisionsInv, NEW a \in Office, NEW c \in D!Cases, NEW text \in Texts,
           NEW outcome \in D!Outcomes(c), D!Ask(a, c, outcome, text)
    PROVE  DecisionsInv' /\ D!OnceDecided /\ D!Answered
<1>1. PICK q : q = [case |-> c, outcome |-> outcome, text |-> text, seen |-> row[c], at |-> "found"]
  OBVIOUS
<1>2. /\ request[a] = None /\ row[c] # None /\ D!TextAllowed(outcome, text)
      /\ request' = [request EXCEPT ![a] = q]
      /\ UNCHANGED <<row, told, rowLocks, active, linked, changes, now>>
  BY <1>1 DEF D!Ask, D!Found
<1>3. row[c] \in D!Rows
  BY <1>2 DEF DecisionsInv, CasesShape
<1>4. /\ q \in D!Requests /\ q.case = c /\ q.outcome = outcome /\ q.text = text
      /\ q.at = "found"
  BY <1>1, <1>3, CaseFacts DEF D!Requests
<1>5. /\ DOMAIN request' = Office /\ request'[a] = q
      /\ \A b \in Office : b # a => request'[b] = request[b]
  BY <1>2 DEF DecisionsInv, CasesShape
<1>6. DecidingOK(a)'
  BY <1>2, <1>4, <1>5 DEF DecidingOK
<1>7. \A x \in D!Cases : CaseLocked(x)'
  <2> SUFFICES ASSUME NEW x \in D!Cases, rowLocks[x] # None PROVE CaseLocked(x)'
    BY <1>2 DEF CaseLocked
  <2>1. CaseLocked(x) /\ rowLocks[x] \in Office
    BY DEF DecisionsInv, CasesShape
  <2> QED BY <1>2, <1>5, <2>1 DEF CaseLocked
<1> QED BY <1>2, <1>5, <1>6, <1>7, QuietForCases DEF DecisionsInv, CasesShape

\* The locks of a that are given back, and those of the others.
LEMMA FailDecisionGood ==
    ASSUME D!Sensible, DecisionsInv, NEW a \in Office, D!Fail(a)
    PROVE  DecisionsInv' /\ D!OnceDecided /\ D!Answered
<1>1. /\ UNCHANGED <<row, told, active, linked, changes, now>>
      /\ request' = [request EXCEPT ![a] = None]
      /\ rowLocks' = [c \in D!Cases |-> IF rowLocks[c] = a THEN None ELSE rowLocks[c]]
  BY DEF D!Fail
<1>2. /\ DOMAIN request' = Office /\ request'[a] = None
      /\ \A b \in Office : b # a => request'[b] = request[b]
  BY <1>1 DEF DecisionsInv, CasesShape
<1>3. /\ rowLocks' \in [D!Cases -> Office \cup {None}]
      /\ \A c \in D!Cases : rowLocks'[c] = IF rowLocks[c] = a THEN None ELSE rowLocks[c]
  BY <1>1 DEF DecisionsInv, CasesShape
<1>4. DecidingOK(a)'
  BY <1>2 DEF DecidingOK
<1>5. \A x \in D!Cases : CaseLocked(x)'
  <2> SUFFICES ASSUME NEW x \in D!Cases, rowLocks'[x] # None PROVE CaseLocked(x)'
    BY DEF CaseLocked
  <2>1. CaseLocked(x) /\ rowLocks[x] \in Office /\ rowLocks'[x] = rowLocks[x] /\ rowLocks[x] # a
    BY <1>3 DEF DecisionsInv, CasesShape
  <2> QED BY <1>2, <2>1 DEF CaseLocked
<1> QED BY <1>1, <1>2, <1>3, <1>4, <1>5, QuietForCases DEF DecisionsInv, CasesShape

LEMMA LockCaseGood ==
    ASSUME D!Sensible, DecisionsInv, NEW a \in Office, D!Lock(a)
    PROVE  DecisionsInv' /\ D!OnceDecided /\ D!Answered
<1>1. PICK c \in D!Cases : c = request[a].case
  BY DEF D!Lock, DecisionsInv, DecidingOK, D!Requests
<1>2. CASE D!LockedStatus(a) # D!Open(c) \/ ~D!Found(a, c)
  BY <1>1, <1>2, FailDecisionGood DEF D!Lock
<1>3. CASE ~(D!LockedStatus(a) # D!Open(c) \/ ~D!Found(a, c))
  <2>1. PICK q : q = [request[a] EXCEPT !.at = "locked"]
    OBVIOUS
  <2>2. /\ request[a] # None /\ rowLocks[c] = None /\ row[c].status = D!Open(c)
        /\ rowLocks' = [rowLocks EXCEPT ![c] = a] /\ request' = [request EXCEPT ![a] = q]
        /\ UNCHANGED <<row, told, active, linked, changes, now>>
    BY <1>1, <1>3, <2>1 DEF D!Lock, D!LockedStatus
  <2>3. DecidingOK(a) /\ request[a] \in D!Requests
    BY <2>2 DEF DecisionsInv, DecidingOK
  <2>4. /\ q \in D!Requests /\ q.case = c /\ q.outcome = request[a].outcome
        /\ q.text = request[a].text /\ q.at = "locked"
    BY <1>1, <2>1, <2>3 DEF D!Requests
  <2>5. /\ DOMAIN request' = Office /\ request'[a] = q
        /\ \A b \in Office : b # a => request'[b] = request[b]
    BY <2>2 DEF DecisionsInv, CasesShape
  <2>6. /\ rowLocks' \in [D!Cases -> Office \cup {None}] /\ rowLocks'[c] = a
        /\ \A x \in D!Cases : x # c => rowLocks'[x] = rowLocks[x]
    BY <2>2 DEF DecisionsInv, CasesShape
  <2>7. DecidingOK(a)'
    BY <1>1, <2>2, <2>3, <2>4, <2>5, <2>6 DEF DecidingOK
  <2>8. \A x \in D!Cases : CaseLocked(x)'
    <3> SUFFICES ASSUME NEW x \in D!Cases, rowLocks'[x] # None PROVE CaseLocked(x)'
      BY DEF CaseLocked
    <3>1. CASE x = c
      BY <2>2, <2>4, <2>5, <2>6, <3>1 DEF CaseLocked, D!Sensible
    <3>2. CASE x # c
      <4>1. CaseLocked(x) /\ rowLocks[x] \in Office /\ rowLocks'[x] = rowLocks[x]
        BY <2>6, <3>2 DEF DecisionsInv, CasesShape
      <4>2. rowLocks[x] = a => request[a].case = x
        BY <4>1 DEF CaseLocked, D!Sensible
      <4> QED BY <1>1, <2>5, <3>2, <4>1, <4>2 DEF CaseLocked
    <3> QED BY <3>1, <3>2
  <2> QED BY <2>2, <2>5, <2>6, <2>7, <2>8, QuietForCases DEF DecisionsInv, CasesShape
<1> QED BY <1>2, <1>3

\* A decision under the lock: the row as Conclude writes it.
LEMMA ConcludeFacts ==
    ASSUME D!Sensible, DecisionsInv, NEW a \in Office, request[a] # None, request[a].at = "locked",
           D!Conclude(a), NEW c \in D!Cases, c = request[a].case
    PROVE  /\ row[c] \in D!Rows /\ row[c].status = D!Open(c) /\ rowLocks[c] = a /\ told[c] = {}
           /\ request[a].outcome \in D!Outcomes(c)
           /\ row' \in [D!Cases -> D!Rows \cup {None}] /\ \A x \in D!Cases : x # c => row'[x] = row[x]
           /\ row'[c] \in D!Rows /\ row'[c] # None /\ row'[c].status = request[a].outcome
           /\ row'[c].guardian = row[c].guardian
           /\ D!Consistent(c)'
           /\ rowLocks' \in [D!Cases -> Office \cup {None}] /\ rowLocks'[c] = None
           /\ \A x \in D!Cases : x # c => rowLocks'[x] = rowLocks[x]
           /\ DOMAIN request' = Office /\ request'[a] = None
           /\ \A b \in Office : b # a => request'[b] = request[b]
           /\ UNCHANGED <<active, linked, now>>
<1>1. DecidingOK(a)
  BY DEF DecisionsInv
<1>2. /\ request[a] \in D!Requests /\ row[c] # None /\ request[a].outcome \in D!Outcomes(c)
      /\ D!TextAllowed(request[a].outcome, request[a].text)
      /\ rowLocks[c] = a /\ row[c].status = D!Open(c)
  BY <1>1 DEF DecidingOK
<1>3. row[c] \in D!Rows /\ CaseTold(c)
  BY <1>2 DEF DecisionsInv, CasesShape
<1>4. PICK o, text : /\ o = request[a].outcome /\ text = request[a].text
                     /\ o \in D!Outcomes(c) /\ text \in Texts /\ D!TextAllowed(o, text)
  BY <1>2 DEF D!Requests
<1>5. PICK new : new = D!Decided(a, row[c], o, text)
  OBVIOUS
<1>6. /\ row' = [row EXCEPT ![c] = new] /\ rowLocks' = [rowLocks EXCEPT ![c] = None]
      /\ request' = [request EXCEPT ![a] = None] /\ UNCHANGED <<active, linked, changes, now>>
  BY <1>2, <1>4, <1>5 DEF D!Conclude, DecisionsInv, CasesShape
<1>7. o \in {"approved", "rejected", "answered"} /\ o # D!Open(c)
  BY <1>4, CaseFacts
<1>8. /\ new \in D!Rows /\ new.status = o /\ new.by = a /\ new.guardian = row[c].guardian
      /\ new.reason = (IF o = "approved" THEN "" ELSE text)
      /\ new.note = (IF o = "approved" THEN text ELSE "")
  BY <1>3, <1>4, <1>5, <1>7, ZenonT(30) DEF D!Decided, D!Rows, D!Sensible
<1>9. new # None /\ a # None
  BY <1>8 DEF D!Sensible
<1>10. row' \in [D!Cases -> D!Rows \cup {None}] /\ row'[c] = new /\ \A x \in D!Cases : x # c => row'[x] = row[x]
  BY <1>6, <1>8 DEF DecisionsInv, CasesShape
<1>11. D!Consistent(c)'
  BY <1>4, <1>7, <1>8, <1>9, <1>10, ZenonT(30) DEF D!Consistent, D!TextAllowed
<1>12. /\ rowLocks' \in [D!Cases -> Office \cup {None}] /\ rowLocks'[c] = None
       /\ \A x \in D!Cases : x # c => rowLocks'[x] = rowLocks[x]
  BY <1>6 DEF DecisionsInv, CasesShape
<1>13. /\ DOMAIN request' = Office /\ request'[a] = None
       /\ \A b \in Office : b # a => request'[b] = request[b]
  BY <1>6 DEF DecisionsInv, CasesShape
<1>14. told[c] = {}
  BY <1>2, <1>3 DEF CaseTold
<1> QED BY <1>2, <1>3, <1>4, <1>6, <1>8, <1>9, <1>10, <1>11, <1>12, <1>13, <1>14

LEMMA ConcludeGood ==
    ASSUME D!Sensible, DecisionsInv, NEW a \in Office, request[a] # None, request[a].at = "locked",
           D!Conclude(a), NEW c \in D!Cases, c = request[a].case,
           \/ row[c].guardian \in active /\ D!Notify(c, request[a].outcome)
           \/ c \notin Appointments /\ ~D!Reachable(row[c]) /\ UNCHANGED told
    PROVE  DecisionsInv' /\ D!OnceDecided /\ D!Answered
<1>1. PICK o \in D!Outcomes(c) : o = request[a].outcome
  BY ConcludeFacts
<1>2. /\ \A x \in D!Cases : x # c => told'[x] = told[x]
      /\ told' \in [D!Cases -> SUBSET {"approved", "rejected", "answered"}]
      /\ told'[c] = {} \/ told'[c] = {o}
      /\ told'[c] = {o} => row[c].guardian \in active
      /\ c \in Appointments \/ D!Reachable(row[c]) => told'[c] = {o}
  <2>1. told \in [D!Cases -> SUBSET {"approved", "rejected", "answered"}] /\ told[c] = {}
    BY ConcludeFacts DEF DecisionsInv, CasesShape
  <2>2. o \in {"approved", "rejected", "answered"}
    BY <1>1, CaseFacts
  <2>3. CASE row[c].guardian \in active /\ told' = [told EXCEPT ![c] = @ \cup {o}]
    BY <2>1, <2>2, <2>3
  <2>4. CASE c \notin Appointments /\ ~D!Reachable(row[c]) /\ told' = told
    BY <2>1, <2>4
  <2> QED BY <1>1, <2>3, <2>4 DEF D!Notify
<1>3. o # D!Open(c) /\ row'[c].status = o /\ row'[c] # None
  BY <1>1, ConcludeFacts, CaseFacts
<1>4. \A x \in D!Cases : D!Consistent(x)' /\ CaseTold(x)' /\ CaseLocked(x)'
  <2> SUFFICES ASSUME NEW x \in D!Cases PROVE D!Consistent(x)' /\ CaseTold(x)' /\ CaseLocked(x)'
    OBVIOUS
  <2>1. CASE x # c
    <3>1. row'[x] = row[x] /\ told'[x] = told[x] /\ rowLocks'[x] = rowLocks[x]
      BY <1>2, <2>1, ConcludeFacts
    <3>2. D!Consistent(x)' /\ CaseTold(x)'
      BY <3>1, ZenonT(30) DEF DecisionsInv, D!Consistent, CaseTold
    <3>3. CaseLocked(x)'
      <4> SUFFICES ASSUME rowLocks[x] # None PROVE CaseLocked(x)'
        BY <3>1 DEF CaseLocked
      <4>1. CaseLocked(x) /\ rowLocks[x] \in Office
        BY DEF DecisionsInv, CasesShape
      <4>2. rowLocks[x] # a
        BY <2>1, <4>1 DEF CaseLocked, D!Sensible
      <4>3. request'[rowLocks[x]] = request[rowLocks[x]]
        BY <4>1, <4>2, ConcludeFacts
      <4> QED BY <3>1, <4>1, <4>3 DEF CaseLocked
    <3> QED BY <3>2, <3>3
  <2>2. CASE x = c
    <3>1. D!Consistent(c)' /\ rowLocks'[c] = None
      BY ConcludeFacts
    <3> QED BY <1>2, <1>3, <2>2, <3>1 DEF CaseTold, CaseLocked
  <2> QED BY <2>1, <2>2
<1>5. CourteousToCases(a)
  BY <1>3, ConcludeFacts DEF CourteousToCases
<1>6. CasesShape'
  BY <1>2, ConcludeFacts DEF CasesShape, DecisionsInv
<1>7. DecidingOK(a)'
  BY ConcludeFacts DEF DecidingOK
<1>8. D!OnceDecided
  <2> SUFFICES ASSUME NEW x \in D!Cases, row[x] # None, row[x].status # D!Open(x)
               PROVE  row'[x] = row[x] /\ told'[x] = told[x]
    BY <1>4 DEF D!OnceDecided
  <2>1. x # c
    BY ConcludeFacts
  <2> QED BY <1>2, <2>1, ConcludeFacts
<1>9. D!Answered
  <2>1. ASSUME NEW x \in D!Cases, told'[x] # {} PROVE told'[x] = {row'[x].status}
    BY <1>4, <2>1 DEF CaseTold
  <2>2. ASSUME NEW x \in D!Cases, told[x] # told'[x]
        PROVE  \E g \in Guardians : row[x].guardian = g /\ x \in D!PhoneCases(g)'
    <3>1. x = c /\ told'[c] = {o}
      BY <1>2, <2>2, ConcludeFacts, ZenonT(30)
    <3>2. row[c].guardian \in active /\ row[c].guardian \in Guardians /\ row'[c].guardian = row[c].guardian
      BY <1>2, <3>1, ConcludeFacts DEF DecisionsInv, CasesShape
    <3>3. active' = active
      BY ConcludeFacts
    <3> QED BY <1>3, <3>1, <3>2, <3>3 DEF D!PhoneCases
  <2>3. ASSUME NEW x \in D!Cases, row[x] # None, row[x].status = D!Open(x), row'[x].status # D!Open(x),
               x \in Appointments \/ D!Reachable(row[x])
        PROVE  told'[x] # {}
    <3>1. x = c
      BY <2>3, ConcludeFacts
    <3> QED BY <1>2, <2>3, <3>1
  <2> QED BY <2>1, <2>2, <2>3 DEF D!Answered
<1>10. GoodDecision(a)
  BY <1>4, <1>5, <1>6, <1>7, <1>8, <1>9 DEF GoodDecision
<1> QED BY <1>8, <1>9, <1>10, GoodDecisionKeepsInv

LEMMA DecideGood ==
    ASSUME D!Sensible, DecisionsInv, NEW a \in Office, D!DecideAppointment(a) \/ D!AnswerLetter(a)
    PROVE  DecisionsInv' /\ D!OnceDecided /\ D!Answered
<1>1. PICK c \in D!Cases : c = request[a].case /\ request[a] # None /\ request[a].at = "locked"
  BY DEF D!DecideAppointment, D!AnswerLetter, DecisionsInv, DecidingOK, D!Requests
<1>2. CASE D!DecideAppointment(a)
  <2>1. CASE D!Fail(a)
    BY <2>1, FailDecisionGood
  <2>2. CASE ~D!Fail(a)
    <3>1. D!Conclude(a) /\ row[c].guardian \in active /\ D!Notify(c, request[a].outcome)
      BY <1>1, <1>2, <2>2 DEF D!DecideAppointment
    <3> QED BY <1>1, <3>1, ConcludeGood
  <2> QED BY <2>1, <2>2
<1>3. CASE D!AnswerLetter(a)
  <2>1. /\ D!Conclude(a) /\ c \in Letters
        /\ IF D!Reachable(row[c]) THEN D!Notify(c, "answered") ELSE UNCHANGED told
    BY <1>1, <1>3 DEF D!AnswerLetter
  <2>2. request[a].outcome = "answered"
    BY <1>1, <2>1, CaseFacts, ConcludeFacts
  <2>3. c \notin Appointments
    BY <2>1 DEF D!Sensible
  <2> QED BY <1>1, <2>1, <2>2, <2>3, ConcludeGood DEF D!Reachable
<1> QED BY <1>2, <1>3

LEMMA CasesElsewhere ==
    ASSUME D!Sensible, DecisionsInv,
           \/ \E g \in Guardians : D!CloseAccount(g) \/ \E s \in Students : D!EndLink(g, s)
           \/ D!Tick
           \/ UNCHANGED D!vars
    PROVE  DecisionsInv' /\ D!OnceDecided /\ D!Answered
<1>1. /\ UNCHANGED <<row, told, rowLocks, request>>
      /\ active' \subseteq active /\ linked' \subseteq linked
  BY DEF D!CloseAccount, D!EndLink, D!Tick, D!vars
<1>2. now' \in 1..LastTime
  <2>1. now \in 1..LastTime
    BY DEF DecisionsInv, CasesShape
  <2>2. now' = now \/ (now < LastTime /\ now' = now + 1)
    BY DEF D!CloseAccount, D!EndLink, D!Tick, D!vars
  <2>3. LastTime \in Nat
    BY DEF D!Sensible
  <2> QED BY <2>1, <2>2, <2>3
<1>3. \A c \in D!Cases : CaseLocked(c)'
  BY <1>1 DEF DecisionsInv, CaseLocked
<1>4. /\ rowLocks' \in [D!Cases -> Office \cup {None}] /\ DOMAIN request' = Office
      /\ active' \subseteq Guardians /\ linked' \subseteq Guardians \X Students
      /\ \A b \in Office : request'[b] = request[b]
      /\ \A c \in D!Cases : rowLocks'[c] = rowLocks[c]
  BY <1>1 DEF DecisionsInv, CasesShape
<1>5. None \notin Office
  BY DEF D!Sensible
<1> QED BY <1>1, <1>2, <1>3, <1>4, <1>5, QuietForCases

LEMMA CasesStep ==
    D!Sensible /\ DecisionsInv /\ [D!Next]_D!vars => DecisionsInv' /\ D!OnceDecided /\ D!Answered
<1> SUFFICES ASSUME D!Sensible, DecisionsInv, [D!Next]_D!vars
             PROVE  DecisionsInv' /\ D!OnceDecided /\ D!Answered
  OBVIOUS
<1>1. ASSUME NEW g \in Guardians, NEW c \in D!Cases,
             \/ \E day \in 1..D!Day(LastTime), time \in 1..LastTime : D!RequestAppointment(g, c, day, time)
             \/ \E s \in Students \cup {None} : D!SendLetter(g, c, s)
      PROVE  DecisionsInv' /\ D!OnceDecided /\ D!Answered
  BY <1>1, GuardianAsksGood
<1>2. ASSUME NEW a \in Office,
             \/ \E c \in D!Cases, text \in Texts : \E outcome \in D!Outcomes(c) : D!Ask(a, c, outcome, text)
             \/ D!Lock(a) \/ D!DecideAppointment(a) \/ D!AnswerLetter(a) \/ D!Fail(a)
      PROVE  DecisionsInv' /\ D!OnceDecided /\ D!Answered
  BY <1>2, AskDecisionGood, LockCaseGood, DecideGood, FailDecisionGood
<1> QED BY <1>1, <1>2, CasesElsewhere DEF D!Next

LEMMA CasesInit == D!Sensible /\ D!Init => DecisionsInv
<1> SUFFICES ASSUME D!Sensible, D!Init PROVE DecisionsInv
  OBVIOUS
<1>1. CasesShape
  <2>1. 1 \in 1..LastTime
    <3>1. LastTime \in Nat /\ LastTime # 0
      BY DEF D!Sensible
    <3> QED BY <3>1
  <2> QED BY <2>1 DEF D!Init, CasesShape
<1>2. ASSUME NEW c \in D!Cases PROVE D!Consistent(c) /\ CaseTold(c) /\ CaseLocked(c)
  BY DEF D!Init, D!Consistent, CaseTold, CaseLocked
<1>3. ASSUME NEW a \in Office PROVE DecidingOK(a)
  BY DEF D!Init, DecidingOK
<1> QED BY <1>1, <1>2, <1>3 DEF DecisionsInv

-----------------------------------------------------------------------------
(* Attendance: the records *)

LEMMA FieldsAre == A!Fields = {"status", "arrival", "departure", "absence_type", "reason", "source"}
  BY DEF A!Fields, A!Blank

LEMMA ValuesAre ==
    /\ A!Values["status"] = {"unmarked", "present", "absent"}
    /\ A!Values["arrival"] = Nat /\ A!Values["departure"] = Nat
    /\ A!Values["absence_type"] = {"", "excused", "unexcused"}
    /\ A!Values["reason"] = BOOLEAN /\ A!Values["source"] = BOOLEAN
  BY DEF A!Values

\* A record, field by field.
LEMMA RecordIs ==
    ASSUME NEW r, r = [f \in A!Fields |-> r[f]], \A f \in A!Fields : r[f] \in A!Values[f]
    PROVE  r \in A!Records
<1>1. /\ r.status \in {"unmarked", "present", "absent"}
      /\ r.arrival \in Nat /\ r.departure \in Nat
      /\ r.absence_type \in {"", "excused", "unexcused"}
      /\ r.reason \in BOOLEAN /\ r.source \in BOOLEAN
  BY FieldsAre, ValuesAre
<1> QED BY <1>1 DEF A!Records, A!Fields, A!Blank

LEMMA RecordFacts ==
    ASSUME NEW r \in A!Records
    PROVE  /\ r = [f \in A!Fields |-> r[f]] /\ \A f \in A!Fields : r[f] \in A!Values[f]
           /\ r.status \in {"unmarked", "present", "absent"}
           /\ r.arrival \in Nat /\ r.departure \in Nat
           /\ r.absence_type \in {"", "excused", "unexcused"}
           /\ r.reason \in BOOLEAN /\ r.source \in BOOLEAN
<1>1. /\ r.status \in {"unmarked", "present", "absent"}
      /\ r.arrival \in Nat /\ r.departure \in Nat
      /\ r.absence_type \in {"", "excused", "unexcused"}
      /\ r.reason \in BOOLEAN /\ r.source \in BOOLEAN
  BY DEF A!Records
<1>2. r = [f \in A!Fields |-> r[f]]
  BY DEF A!Records, A!Fields, A!Blank
<1> QED BY <1>1, <1>2, FieldsAre, ValuesAre

LEMMA BlankFacts ==
    /\ A!Blank \in A!Records /\ A!Blank = [f \in A!Fields |-> A!Blank[f]]
    /\ A!Blank.status = "unmarked" /\ A!Blank.arrival = 0 /\ A!Blank.departure = 0
    /\ A!Blank.absence_type = "" /\ A!Blank.reason = FALSE /\ A!Blank.source = FALSE
  BY DEF A!Blank, A!Fields, A!Records

LEMMA ClearedFacts ==
    ASSUME NEW r \in A!Records, NEW fs
    PROVE  /\ A!Cleared(r, fs) \in A!Records
           /\ \A f \in A!Fields : A!Cleared(r, fs)[f] = IF f \in fs THEN A!Blank[f] ELSE r[f]
<1>1. PICK c : c = [f \in A!Fields |-> IF f \in fs THEN A!Blank[f] ELSE r[f]]
  OBVIOUS
<1>2. /\ c = [f \in A!Fields |-> c[f]]
      /\ \A f \in A!Fields : c[f] = IF f \in fs THEN A!Blank[f] ELSE r[f]
  BY <1>1
<1>3. \A f \in A!Fields : c[f] \in A!Values[f]
  BY <1>2, RecordFacts, BlankFacts
<1>4. c \in A!Records
  BY <1>2, <1>3, RecordIs
<1> QED BY <1>1, <1>2, <1>4 DEF A!Cleared

LEMMA ClearedWhole == \A r : A!Cleared(r, A!Fields) = A!Blank
  BY BlankFacts DEF A!Cleared

LEMMA MergedFacts ==
    ASSUME NEW d, A!IsData(d), NEW r \in A!Records
    PROVE  /\ A!Merged(d, r) \in A!Records
           /\ \A f \in A!Fields : A!Merged(d, r)[f] = IF f \in DOMAIN d THEN d[f] ELSE r[f]
<1>1. PICK m : m = [f \in A!Fields |-> IF f \in DOMAIN d THEN d[f] ELSE r[f]]
  OBVIOUS
<1>2. /\ m = [f \in A!Fields |-> m[f]]
      /\ \A f \in A!Fields : m[f] = IF f \in DOMAIN d THEN d[f] ELSE r[f]
  BY <1>1
<1>3. \A f \in A!Fields : m[f] \in A!Values[f]
  BY <1>2, RecordFacts DEF A!IsData
<1>4. m \in A!Records
  BY <1>2, <1>3, RecordIs
<1> QED BY <1>1, <1>2, <1>4 DEF A!Merged

\* Whatever a request says of whatever record: either it is refused, or the
\* outcome says one consistent thing (normalize_and_validate_record).
LEMMA NormalizedMakesSense ==
    ASSUME NEW d, A!IsData(d), NEW r \in A!Records, NEW final, NEW morning,
           NEW n, n = A!Normalized(d, r, final, morning), n # None
    PROVE  n \in A!Records /\ A!MakesSense(n)
<1>1. PICK m \in A!Records : m = A!Cleared(A!Merged(d, r), IF morning THEN {"departure"} ELSE {})
  BY MergedFacts, ClearedFacts
<1>2. n = (CASE m.status = "unmarked" -> A!AsUnmarked(m, final)
             [] m.status = "present" ->
                   A!AsPresent(IF A!BackFromAbsence(d, r) THEN A!Cleared(m, A!AbsenceFields) ELSE m)
             [] m.status = "absent" -> A!AsAbsent(m))
  BY <1>1 DEF A!Normalized
<1>3. CASE m.status = "unmarked"
  <2>1. n = A!Blank
    BY <1>2, <1>3, ClearedWhole DEF A!AsUnmarked
  <2> QED BY <2>1, BlankFacts DEF A!MakesSense
<1>4. CASE m.status = "present"
  <2>1. PICK c : c = IF A!BackFromAbsence(d, r) THEN A!Cleared(m, A!AbsenceFields) ELSE m
    OBVIOUS
  <2>2. c \in A!Records /\ c.status = "present"
    BY <1>4, <2>1, ClearedFacts, FieldsAre DEF A!AbsenceFields
  <2>3. n = A!AsPresent(c)
    BY <1>2, <1>4, <2>1
  <2>4. /\ n = c /\ \A f \in A!AbsenceFields : ~A!Given(c, f)
        /\ ~(c.arrival # 0 /\ c.departure # 0 /\ c.departure < c.arrival)
    BY <2>3 DEF A!AsPresent
  <2>5. n.arrival # 0 /\ n.departure # 0 => n.departure >= n.arrival
    <3>1. c.arrival \in Nat /\ c.departure \in Nat
      BY <2>2, RecordFacts
    <3> QED BY <2>4, <3>1
  <2>6. n.status = "present" /\ n \in A!Records
    BY <2>2, <2>4
  <2>7. \A f \in A!AbsenceFields : ~A!Given(n, f)
    BY <2>4
  <2> QED BY <2>5, <2>6, <2>7 DEF A!MakesSense
<1>5. CASE m.status = "absent"
  <2>1. n = A!AsAbsent(m)
    BY <1>2, <1>5
  <2>2. /\ n = A!Cleared(m, {"arrival", "departure"})
        /\ m.absence_type # ""
        /\ m.absence_type = "excused" => m.reason /\ m.source
    BY <2>1 DEF A!AsAbsent
  <2>3. /\ n \in A!Records /\ n.status = "absent" /\ n.arrival = 0 /\ n.departure = 0
        /\ n.absence_type = m.absence_type /\ n.reason = m.reason /\ n.source = m.source
    <3>1. PICK fs : fs = {"arrival", "departure"}
      OBVIOUS
    <3>2. n \in A!Records /\ \A f \in A!Fields : n[f] = IF f \in fs THEN A!Blank[f] ELSE m[f]
      <4>1. n = A!Cleared(m, fs)
        BY <2>2, <3>1
      <4> QED BY <4>1, ClearedFacts
    <3>3. n["status"] = m["status"] /\ n["arrival"] = A!Blank["arrival"]
          /\ n["departure"] = A!Blank["departure"] /\ n["absence_type"] = m["absence_type"]
          /\ n["reason"] = m["reason"] /\ n["source"] = m["source"]
      BY <3>1, <3>2, FieldsAre
    <3> QED BY <1>5, <3>2, <3>3, BlankFacts
  <2> QED BY <2>2, <2>3 DEF A!MakesSense
<1> QED BY <1>3, <1>4, <1>5, RecordFacts

\* A correction changes what it names, or the status with what follows from it.
LEMMA NormalizedChangesNamed ==
    ASSUME NEW d, A!IsData(d), NEW r \in A!Records, A!MakesSense(r),
           NEW n, n = A!Normalized(d, r, FALSE, FALSE), n # None
    PROVE  \/ r.status # n.status /\ "status" \in DOMAIN d
           \/ \A f \in A!Fields : n[f] # r[f] => f \in DOMAIN d
<1>1. PICK m \in A!Records : m = A!Cleared(A!Merged(d, r), {})
  BY MergedFacts, ClearedFacts
<1>2. \A f \in A!Fields : m[f] = IF f \in DOMAIN d THEN d[f] ELSE r[f]
  <2>1. PICK g \in A!Records : g = A!Merged(d, r)
    BY MergedFacts
  <2>2. \A f \in A!Fields : g[f] = IF f \in DOMAIN d THEN d[f] ELSE r[f]
    BY <2>1, MergedFacts
  <2>3. PICK fs : fs = {} /\ m = A!Cleared(g, fs)
    BY <1>1, <2>1
  <2>4. \A f \in A!Fields : m[f] = IF f \in fs THEN A!Blank[f] ELSE g[f]
    BY <2>3, ClearedFacts
  <2> QED BY <2>2, <2>3, <2>4
<1>3. n = (CASE m.status = "unmarked" -> A!AsUnmarked(m, FALSE)
             [] m.status = "present" ->
                   A!AsPresent(IF A!BackFromAbsence(d, r) THEN A!Cleared(m, A!AbsenceFields) ELSE m)
             [] m.status = "absent" -> A!AsAbsent(m))
  BY <1>1 DEF A!Normalized
<1>4. m.status = r.status \/ "status" \in DOMAIN d
  BY <1>2, FieldsAre
<1>5. CASE m.status = "unmarked"
  <2>1. n = A!Blank
    BY <1>3, <1>5, ClearedWhole DEF A!AsUnmarked
  <2>2. r.status = "unmarked" => n = r
    BY <2>1 DEF A!MakesSense
  <2> QED BY <1>4, <1>5, <2>1, <2>2, BlankFacts
<1>6. CASE m.status = "present"
  <2>1. CASE r.status = "present"
    <3>1. n = A!AsPresent(m)
      BY <1>3, <1>6, <2>1 DEF A!BackFromAbsence
    <3>2. n = m
      BY <3>1 DEF A!AsPresent
    <3> QED BY <1>2, <3>2
  <2>2. CASE r.status # "present"
    <3>1. PICK c : c = IF A!BackFromAbsence(d, r) THEN A!Cleared(m, A!AbsenceFields) ELSE m
      OBVIOUS
    <3>2. c.status = "present"
      BY <1>6, <3>1, ClearedFacts, FieldsAre DEF A!AbsenceFields
    <3>3. n = A!AsPresent(c)
      BY <1>3, <1>6, <3>1
    <3>4. n.status = "present"
      BY <3>2, <3>3 DEF A!AsPresent
    <3> QED BY <1>4, <1>6, <2>2, <3>4
  <2> QED BY <2>1, <2>2
<1>7. CASE m.status = "absent"
  <2>1. PICK fs : fs = {"arrival", "departure"}
    OBVIOUS
  <2>2. n = A!Cleared(m, fs)
    BY <1>3, <1>7, <2>1 DEF A!AsAbsent
  <2>3. n \in A!Records /\ \A f \in A!Fields : n[f] = IF f \in fs THEN A!Blank[f] ELSE m[f]
    <3>1. /\ A!Cleared(m, fs) \in A!Records
          /\ \A f \in A!Fields : A!Cleared(m, fs)[f] = IF f \in fs THEN A!Blank[f] ELSE m[f]
      BY ClearedFacts
    <3> QED BY <2>2, <3>1
  <2>4. n.status = "absent"
    BY <1>7, <2>1, <2>3, FieldsAre
  <2>5. CASE r.status = "absent"
    <3>1. r.arrival = 0 /\ r.departure = 0
      BY <2>5 DEF A!MakesSense
    <3>2. \A f \in A!Fields : f \in fs => n[f] = r[f]
      BY <2>1, <2>3, <3>1, BlankFacts
    <3>3. \A f \in A!Fields : f \notin fs => n[f] = m[f]
      BY <2>3
    <3> QED BY <1>2, <3>2, <3>3
  <2>6. CASE r.status # "absent"
    BY <1>4, <1>7, <2>4, <2>6
  <2> QED BY <2>5, <2>6
<1> QED BY <1>5, <1>6, <1>7, RecordFacts

-----------------------------------------------------------------------------
(* The sheets *)

\* What a request knows: its sheet is there, and what it says is data.
RequestedOK(a) ==
    request[a] # None =>
        /\ request[a].day \in 1..date /\ sheet[request[a].day] # None
        /\ request[a].kind \in {"patch", "bulk"} =>
              \A p \in DOMAIN request[a].items : A!IsData(request[a].items[p])
        /\ request[a].kind = "departure" => request[a].time \in Times

SheetsOK ==
    /\ sheet \in [A!Days -> [Pupils -> A!Records] \cup {None}]
    /\ \A d \in A!Days : sheet[d] # None => \A p \in Pupils : A!MakesSense(sheet[d][p])
    /\ notices \in [A!Days -> [Pupils -> 0..1]]

AttendanceInv ==
    /\ SheetsOK
    /\ reached \subseteq Pupils /\ manages \subseteq Staff
    /\ DOMAIN request = Staff /\ \A a \in Staff : RequestedOK(a)
    /\ edits \in 0..MaxEdits /\ date \in A!Days

\* A sheet is written, and the absences that are new are announced.
LEMMA SheetWritten ==
    ASSUME AttendanceInv, NEW d \in A!Days, NEW new \in [Pupils -> A!Records],
           \A p \in Pupils : A!MakesSense(new[p]),
           NEW ps, \A p \in Pupils : new[p].status = "absent" /\ A!Status(d, p) # "absent" => p \in ps,
           sheet' = [sheet EXCEPT ![d] = new], A!Notify(d, ps), UNCHANGED <<reached, date>>
    PROVE  SheetsOK' /\ A!AnnouncedOnce /\ \A x \in A!Days : sheet[x] # None => sheet'[x] # None
<1>1. /\ sheet'[d] = new /\ \A x \in A!Days : x # d => sheet'[x] = sheet[x]
      /\ sheet' \in [A!Days -> [Pupils -> A!Records] \cup {None}]
  BY DEF AttendanceInv, SheetsOK
<1>2. new # None /\ \A p \in Pupils : new[p] # None
  BY AttendanceAssumption DEF A!Sensible
<1>3. \A x \in A!Days : sheet'[x] # None => \A p \in Pupils : A!MakesSense(sheet'[x][p])
  BY <1>1 DEF AttendanceInv, SheetsOK
<1>4. /\ notices' \in [A!Days -> [Pupils -> 0..1]]
      /\ \A x \in A!Days : x # d => notices'[x] = notices[x]
      /\ \A p \in Pupils : notices'[d][p] = IF p \in ps \cap reached /\ notices[d][p] = 0 THEN 1 ELSE notices[d][p]
  <2>1. PICK mark : mark = [p \in Pupils |-> IF p \in ps \cap reached /\ notices[d][p] = 0 THEN 1 ELSE notices[d][p]]
    OBVIOUS
  <2>2. notices \in [A!Days -> [Pupils -> 0..1]] /\ notices' = [notices EXCEPT ![d] = mark]
    BY <2>1 DEF A!Notify, AttendanceInv, SheetsOK
  <2>3. mark \in [Pupils -> 0..1]
    BY <2>1, <2>2
  <2> QED BY <2>1, <2>2, <2>3
<1>5. A!AnnouncedOnce
  <2> SUFFICES ASSUME NEW x \in A!Days, NEW p \in Pupils
               PROVE  /\ notices'[x][p] <= 1
                      /\ A!Status(x, p) # "absent" /\ A!Status(x, p)' = "absent" /\ p \in reached
                            => notices'[x][p] = 1 /\ (x = date => A!Today(p)' # None)
    BY DEF A!AnnouncedOnce
  <2>1. notices'[x][p] \in 0..1 /\ notices[x][p] \in 0..1
    BY <1>4 DEF AttendanceInv, SheetsOK
  <2>2. CASE x # d
    BY <1>1, <2>1, <2>2 DEF A!Status
  <2>3. ASSUME x = d, A!Status(x, p) # "absent", A!Status(x, p)' = "absent", p \in reached
        PROVE  notices'[x][p] = 1 /\ (x = date => A!Today(p)' # None)
    <3>1. new[p].status = "absent"
      BY <1>1, <1>2, <2>3 DEF A!Status
    <3>2. notices'[x][p] = 1
      BY <1>4, <2>1, <2>3, <3>1
    <3>3. x = date => A!Today(p)' # None
      BY <1>1, <1>2, <2>3, <3>1 DEF A!Today
    <3> QED BY <3>2, <3>3
  <2> QED BY <2>1, <2>2, <2>3
<1> QED BY <1>1, <1>2, <1>3, <1>4, <1>5 DEF SheetsOK

\* Steps that leave the sheets alone.
LEMMA QuietForSheets ==
    ASSUME AttendanceInv, UNCHANGED <<sheet, notices>>, reached' \subseteq reached,
           manages' \subseteq manages, DOMAIN request' = Staff, \A a \in Staff : RequestedOK(a)',
           edits' \in 0..MaxEdits, date' \in A!Days
    PROVE  AttendanceInv' /\ A!AnnouncedOnce /\ A!OnlyNamedChanges
<1>1. AttendanceInv'
  BY DEF AttendanceInv, SheetsOK
<1>2. A!AnnouncedOnce
  <2>1. \A d \in A!Days, p \in Pupils : notices[d][p] \in 0..1
    BY DEF AttendanceInv, SheetsOK
  <2> QED BY <2>1 DEF A!AnnouncedOnce, A!Status
<1>3. A!OnlyNamedChanges
  BY DEF A!OnlyNamedChanges
<1> QED BY <1>1, <1>2, <1>3

LEMMA TakeAttendanceGood ==
    ASSUME AttendanceInv, NEW a \in Staff, NEW items \in Mornings, A!TakeAttendance(a, items)
    PROVE  AttendanceInv' /\ A!AnnouncedOnce /\ A!OnlyNamedChanges
<1>1. PICK new : new = [p \in Pupils |-> A!Normalized(items[p], A!Blank, TRUE, TRUE)]
  OBVIOUS
<1>2. /\ sheet[date] = None /\ \A p \in Pupils : new[p] # None
      /\ sheet' = [sheet EXCEPT ![date] = new]
      /\ A!Notify(date, {p \in Pupils : new[p].status = "absent"})
      /\ UNCHANGED <<reached, manages, request, edits, date>>
  BY <1>1 DEF A!TakeAttendance
<1>3. \A p \in Pupils : new[p] \in A!Records /\ A!MakesSense(new[p])
  <2> SUFFICES ASSUME NEW p \in Pupils PROVE new[p] \in A!Records /\ A!MakesSense(new[p])
    OBVIOUS
  <2>1. PICK d : d = items[p] /\ A!IsData(d)
    BY AttendanceAssumption DEF A!Sensible
  <2>2. PICK n : n = A!Normalized(d, A!Blank, TRUE, TRUE) /\ n = new[p] /\ n # None
    BY <1>1, <1>2, <2>1
  <2>3. n \in A!Records /\ A!MakesSense(n)
    BY <2>1, <2>2, BlankFacts, NormalizedMakesSense
  <2> QED BY <2>2, <2>3
<1>4. new \in [Pupils -> A!Records] /\ date \in A!Days
  BY <1>1, <1>3 DEF AttendanceInv
<1>5. PICK ps : ps = {p \in Pupils : new[p].status = "absent"} /\ A!Notify(date, ps)
  BY <1>2
<1>6. SheetsOK' /\ A!AnnouncedOnce /\ \A x \in A!Days : sheet[x] # None => sheet'[x] # None
  BY <1>2, <1>3, <1>4, <1>5, SheetWritten
<1>7. \A b \in Staff : RequestedOK(b)'
  BY <1>2, <1>6 DEF AttendanceInv, RequestedOK, A!Days
<1>8. A!OnlyNamedChanges
  BY <1>2 DEF A!OnlyNamedChanges
<1> QED BY <1>2, <1>6, <1>7, <1>8 DEF AttendanceInv

LEMMA AskChangeGood ==
    ASSUME AttendanceInv, NEW a \in Staff, NEW d \in 1..date,
           \/ \E p \in Pupils, data \in Inputs : A!AskPatch(a, d, p, data)
           \/ \E items \in Batches : A!AskBulk(a, d, items)
           \/ \E time \in Times : A!AskDeparture(a, d, time)
    PROVE  AttendanceInv' /\ A!AnnouncedOnce /\ A!OnlyNamedChanges
<1>1. PICK r : /\ A!Ask(a, r) /\ r.day = d /\ sheet[d] # None
               /\ r.kind \in {"patch", "bulk"} => \A p \in DOMAIN r.items : A!IsData(r.items[p])
               /\ r.kind = "departure" => r.time \in Times
  <2>1. CASE \E p \in Pupils, data \in Inputs : A!AskPatch(a, d, p, data)
    <3>1. PICK p \in Pupils, data \in Inputs : A!AskPatch(a, d, p, data)
      BY <2>1
    <3>2. PICK items, r : items = [q \in {p} |-> data] /\ r = A!Change("patch", d, items, 0, sheet[d])
      OBVIOUS
    <3>3. A!Ask(a, r) /\ sheet[d] # None
      BY <3>1, <3>2 DEF A!AskPatch, A!RecordFound, A!SheetFound
    <3>4. r.day = d /\ r.kind = "patch" /\ r.items = items
      BY <3>2 DEF A!Change
    <3>5. \A q \in DOMAIN items : A!IsData(items[q])
      BY <3>2, AttendanceAssumption DEF A!Sensible
    <3> QED BY <3>3, <3>4, <3>5
  <2>2. CASE \E items \in Batches : A!AskBulk(a, d, items)
    <3>1. PICK items \in Batches : A!AskBulk(a, d, items)
      BY <2>2
    <3>2. PICK r : r = A!Change("bulk", d, items, 0, sheet[d])
      OBVIOUS
    <3>3. A!Ask(a, r) /\ sheet[d] # None
      BY <3>1, <3>2 DEF A!AskBulk, A!SheetFound
    <3>4. r.day = d /\ r.kind = "bulk" /\ r.items = items
      BY <3>2 DEF A!Change
    <3>5. \A q \in DOMAIN items : A!IsData(items[q])
      BY AttendanceAssumption DEF A!Sensible
    <3> QED BY <3>3, <3>4, <3>5
  <2>3. CASE \E time \in Times : A!AskDeparture(a, d, time)
    <3>1. PICK time \in Times : A!AskDeparture(a, d, time)
      BY <2>3
    <3>2. PICK r : r = A!Change("departure", d, <<>>, time, sheet[d])
      OBVIOUS
    <3>3. A!Ask(a, r) /\ sheet[d] # None
      BY <3>1, <3>2 DEF A!AskDeparture, A!SheetFound
    <3>4. r.day = d /\ r.kind = "departure" /\ r.time = time
      BY <3>2 DEF A!Change
    <3> QED BY <3>3, <3>4
  <2> QED BY <2>1, <2>2, <2>3
<1>2. /\ request' = [request EXCEPT ![a] = r] /\ edits < MaxEdits /\ edits' = edits + 1
      /\ UNCHANGED <<sheet, notices, reached, manages, date>>
  BY <1>1 DEF A!Ask
<1>3. DOMAIN request' = Staff /\ request'[a] = r /\ \A b \in Staff : b # a => request'[b] = request[b]
  BY <1>2 DEF AttendanceInv
<1>4. RequestedOK(a)'
  BY <1>1, <1>2, <1>3 DEF RequestedOK
<1>5. \A b \in Staff : RequestedOK(b)'
  BY <1>2, <1>3, <1>4 DEF RequestedOK, AttendanceInv
<1>6. edits' \in 0..MaxEdits
  <2>1. edits \in 0..MaxEdits /\ MaxEdits \in Nat
    BY AttendanceAssumption DEF AttendanceInv, A!Sensible
  <2> QED BY <1>2, <2>1
<1> QED BY <1>2, <1>3, <1>5, <1>6, QuietForSheets DEF AttendanceInv

\* What a request may change of the record of p.
NamedChange(r, p, old, new) ==
    IF r.kind = "departure" THEN old.departure # 0 => new = old
    ELSE LET named == IF p \in DOMAIN r.items THEN DOMAIN r.items[p] ELSE {} IN
         \/ old.status # new.status /\ "status" \in named
         \/ \A f \in A!Fields : new[f] # old[f] => f \in named

\* The end of a request: refused, or the sheet written.
LEMMA AnswerGood ==
    ASSUME AttendanceInv, NEW a \in Staff, request[a] # None, NEW r, r = request[a], NEW new,
           \/ A!Refuse(a)
           \/ /\ A!Answer(a, new)
              /\ \A p \in Pupils : /\ new[p] \in A!Records /\ A!MakesSense(new[p])
                                   /\ NamedChange(r, p, sheet[r.day][p], new[p])
              /\ new = [p \in Pupils |-> new[p]]
    PROVE  AttendanceInv' /\ A!AnnouncedOnce /\ A!OnlyNamedChanges
<1>1. /\ request' = [request EXCEPT ![a] = None]
      /\ UNCHANGED <<reached, manages, edits, date>>
  BY DEF A!Refuse, A!Answer
<1>2. DOMAIN request' = Staff /\ request'[a] = None /\ \A b \in Staff : b # a => request'[b] = request[b]
  BY <1>1 DEF AttendanceInv
<1>3. CASE A!Refuse(a)
  <2>1. UNCHANGED <<sheet, notices>>
    BY <1>3 DEF A!Refuse
  <2>2. \A b \in Staff : RequestedOK(b)'
    BY <1>1, <1>2, <2>1 DEF AttendanceInv, RequestedOK
  <2> QED BY <1>1, <1>2, <2>1, <2>2, QuietForSheets DEF AttendanceInv
<1>4. CASE ~A!Refuse(a)
  <2>1. /\ new \in [Pupils -> A!Records] /\ \A p \in Pupils : A!MakesSense(new[p])
        /\ \A p \in Pupils : NamedChange(r, p, sheet[r.day][p], new[p])
    BY <1>4
  <2>2. PICK d \in A!Days : d = r.day /\ sheet[d] # None
    <3>1. r.day \in 1..date /\ sheet[r.day] # None
      BY DEF AttendanceInv, RequestedOK
    <3>2. date \in 1..SchoolDays /\ SchoolDays \in Nat
      BY AttendanceAssumption DEF AttendanceInv, A!Days, A!Sensible
    <3>3. r.day \in 1..SchoolDays
      BY <3>1, <3>2
    <3> QED BY <3>1, <3>3 DEF A!Days
  <2>3. PICK ps : /\ ps = {p \in Pupils : new[p].status = "absent" /\ sheet[r.day][p].status # "absent"}
                  /\ A!Notify(d, ps) /\ sheet' = [sheet EXCEPT ![d] = new]
    BY <1>4, <2>2 DEF A!Answer
  <2>4. \A p \in Pupils : new[p].status = "absent" /\ A!Status(d, p) # "absent" => p \in ps
    BY <2>2, <2>3 DEF A!Status
  <2>5. SheetsOK' /\ A!AnnouncedOnce /\ \A x \in A!Days : sheet[x] # None => sheet'[x] # None
    BY <1>1, <2>1, <2>3, <2>4, SheetWritten
  <2>6. \A b \in Staff : request[b] # None => request[b].day \in A!Days
    <3>1. \A b \in Staff : request[b] # None => request[b].day \in 1..date
      BY DEF AttendanceInv, RequestedOK
    <3>2. date \in 1..SchoolDays /\ SchoolDays \in Nat
      BY AttendanceAssumption DEF AttendanceInv, A!Days, A!Sensible
    <3> QED BY <3>1, <3>2 DEF A!Days
  <2>7. \A b \in Staff : RequestedOK(b)'
    BY <1>1, <1>2, <2>5, <2>6 DEF AttendanceInv, RequestedOK
  <2>8. A!OnlyNamedChanges
    <3> SUFFICES ASSUME NEW b \in Staff, NEW p \in Pupils, request[b] # None, request'[b] = None
                 PROVE  NamedChange(request[b], p, sheet[request[b].day][p], sheet'[request[b].day][p])
      BY DEF A!OnlyNamedChanges, NamedChange
    <3>1. b = a
      BY <1>2
    <3>2. sheet'[r.day] = new
      BY <2>2, <2>3 DEF AttendanceInv, SheetsOK
    <3> QED BY <2>1, <3>1, <3>2, SMTT(30)
  <2> QED BY <1>1, <1>2, <2>5, <2>7, <2>8 DEF AttendanceInv
<1> QED BY <1>3, <1>4

LEMMA LockedSheet ==
    ASSUME AttendanceInv, NEW a \in Staff, request[a] # None
    PROVE  /\ \A p \in Pupils : sheet[request[a].day][p] \in A!Records
           /\ \A p \in Pupils : A!MakesSense(sheet[request[a].day][p])
<1>1. request[a].day \in 1..date /\ sheet[request[a].day] # None
  BY DEF AttendanceInv, RequestedOK
<1>2. date \in 1..SchoolDays /\ SchoolDays \in Nat
  BY AttendanceAssumption DEF AttendanceInv, A!Days, A!Sensible
<1>3. request[a].day \in A!Days
  BY <1>1, <1>2 DEF A!Days
<1> QED BY <1>1, <1>3 DEF AttendanceInv, SheetsOK

LEMMA EditGood ==
    ASSUME AttendanceInv, NEW a \in Staff, A!Edit(a)
    PROVE  AttendanceInv' /\ A!AnnouncedOnce /\ A!OnlyNamedChanges
<1>1. PICK r, old : r = request[a] /\ old = A!LockedRecords(r)
  OBVIOUS
<1>2. PICK new : new = [p \in Pupils |-> IF p \in DOMAIN r.items
                                       THEN A!Normalized(r.items[p], old[p], FALSE, FALSE) ELSE old[p]]
  OBVIOUS
<1>3. /\ r # None /\ r.kind \in {"patch", "bulk"}
      /\ IF \E p \in Pupils : new[p] = None THEN A!Refuse(a) ELSE A!Answer(a, new)
  BY <1>1, <1>2 DEF A!Edit
<1>4. old = sheet[r.day] /\ \A p \in Pupils : old[p] \in A!Records /\ A!MakesSense(old[p])
  BY <1>1, <1>3, LockedSheet DEF A!LockedRecords
<1>5. \A p \in DOMAIN r.items : A!IsData(r.items[p])
  BY <1>1, <1>3 DEF AttendanceInv, RequestedOK
<1>6. CASE \E p \in Pupils : new[p] = None
  BY <1>1, <1>3, <1>6, AnswerGood
<1>7. CASE ~\E p \in Pupils : new[p] = None
  <2>1. ASSUME NEW p \in Pupils
        PROVE  new[p] \in A!Records /\ A!MakesSense(new[p]) /\ NamedChange(r, p, old[p], new[p])
    <3>1. CASE p \in DOMAIN r.items
      <4>1. PICK d, o, n : d = r.items[p] /\ o = old[p] /\ n = new[p]
        OBVIOUS
      <4>2. A!IsData(d) /\ o \in A!Records /\ A!MakesSense(o)
        BY <1>4, <1>5, <3>1, <4>1
      <4>3. n = A!Normalized(d, o, FALSE, FALSE) /\ n # None
        BY <1>2, <1>7, <3>1, <4>1
      <4>4. n \in A!Records /\ A!MakesSense(n)
        BY <4>2, <4>3, NormalizedMakesSense
      <4>5. \/ o.status # n.status /\ "status" \in DOMAIN d
            \/ \A f \in A!Fields : n[f] # o[f] => f \in DOMAIN d
        BY <4>2, <4>3, NormalizedChangesNamed
      <4>6. r.kind # "departure"
        BY <1>3
      <4> QED BY <3>1, <4>1, <4>4, <4>5, <4>6 DEF NamedChange
    <3>2. CASE p \notin DOMAIN r.items
      <4>1. new[p] = old[p]
        BY <1>2, <3>2
      <4> QED BY <1>3, <1>4, <4>1 DEF NamedChange
    <3> QED BY <3>1, <3>2
  <2>2. new = [p \in Pupils |-> new[p]]
    BY <1>2
  <2>3. A!Answer(a, new)
    BY <1>3, <1>7
  <2> QED BY <1>1, <1>3, <1>4, <2>1, <2>2, <2>3, AnswerGood
<1> QED BY <1>6, <1>7

LEMMA DepartureGood ==
    ASSUME AttendanceInv, NEW a \in Staff, A!NormalDeparture(a)
    PROVE  AttendanceInv' /\ A!AnnouncedOnce /\ A!OnlyNamedChanges
<1>1. PICK r, old : r = request[a] /\ old = A!LockedRecords(r)
  OBVIOUS
<1>2. PICK new : new = [p \in Pupils |-> IF p \in A!StillHere(old)
                                       THEN A!Normalized([departure |-> r.time], old[p], FALSE, FALSE) ELSE old[p]]
  OBVIOUS
<1>3. /\ r # None /\ r.kind = "departure"
      /\ IF \E p \in Pupils : new[p] = None THEN A!Refuse(a) ELSE A!Answer(a, new)
  BY <1>1, <1>2 DEF A!NormalDeparture
<1>4. old = sheet[r.day] /\ \A p \in Pupils : old[p] \in A!Records /\ A!MakesSense(old[p])
  BY <1>1, <1>3, LockedSheet DEF A!LockedRecords
<1>5. PICK d : d = [departure |-> r.time] /\ A!IsData(d)
  <2>1. r.time \in Nat
    BY <1>1, <1>3, AttendanceAssumption DEF AttendanceInv, RequestedOK, A!Sensible
  <2>2. PICK d : d = [departure |-> r.time]
    OBVIOUS
  <2>3. DOMAIN d = {"departure"} /\ d["departure"] = r.time
    BY <2>2
  <2> QED BY <2>1, <2>2, <2>3, FieldsAre, ValuesAre DEF A!IsData
<1>6. CASE \E p \in Pupils : new[p] = None
  BY <1>1, <1>3, <1>6, AnswerGood
<1>7. CASE ~\E p \in Pupils : new[p] = None
  <2>1. ASSUME NEW p \in Pupils
        PROVE  new[p] \in A!Records /\ A!MakesSense(new[p]) /\ NamedChange(r, p, old[p], new[p])
    <3>1. CASE p \in A!StillHere(old)
      <4>1. PICK o, n : o = old[p] /\ n = new[p]
        OBVIOUS
      <4>2. n = A!Normalized(d, o, FALSE, FALSE) /\ n # None /\ o \in A!Records
        BY <1>2, <1>4, <1>5, <1>7, <3>1, <4>1
      <4>3. n \in A!Records /\ A!MakesSense(n)
        BY <1>5, <4>2, NormalizedMakesSense
      <4>4. old[p].departure = 0
        BY <3>1 DEF A!StillHere
      <4> QED BY <1>3, <4>1, <4>3, <4>4 DEF NamedChange
    <3>2. CASE p \notin A!StillHere(old)
      <4>1. new[p] = old[p]
        BY <1>2, <3>2
      <4> QED BY <1>3, <1>4, <4>1 DEF NamedChange
    <3> QED BY <3>1, <3>2
  <2>2. new = [p \in Pupils |-> new[p]]
    BY <1>2
  <2>3. A!Answer(a, new)
    BY <1>3, <1>7
  <2> QED BY <1>1, <1>3, <1>4, <2>1, <2>2, <2>3, AnswerGood
<1> QED BY <1>6, <1>7

LEMMA AttendanceElsewhere ==
    ASSUME AttendanceInv,
           \/ \E p \in Pupils : A!EndLink(p)
           \/ \E a \in Staff : A!EndAssignment(a)
           \/ A!NextDay
           \/ UNCHANGED A!vars
    PROVE  AttendanceInv' /\ A!AnnouncedOnce /\ A!OnlyNamedChanges
<1>1. /\ UNCHANGED <<sheet, notices, request>> /\ reached' \subseteq reached /\ manages' \subseteq manages
      /\ edits' = edits \/ (edits < MaxEdits /\ edits' = edits + 1)
      /\ date' = date \/ (date < SchoolDays /\ date' = date + 1)
  BY DEF A!EndLink, A!EndAssignment, A!NextDay, A!vars
<1>2. edits \in 0..MaxEdits /\ MaxEdits \in Nat /\ date \in 1..SchoolDays /\ SchoolDays \in Nat
  BY AttendanceAssumption DEF AttendanceInv, A!Sensible, A!Days
<1>3. edits' \in 0..MaxEdits /\ date' \in 1..SchoolDays /\ \A d \in 1..date : d \in 1..date'
  BY <1>1, <1>2
<1>4. \A a \in Staff : RequestedOK(a)'
  BY <1>1, <1>3 DEF AttendanceInv, RequestedOK
<1> QED BY <1>1, <1>3, <1>4, QuietForSheets DEF AttendanceInv, A!Days

LEMMA AttendanceStep ==
    AttendanceInv /\ [A!Next]_(A!vars) => AttendanceInv' /\ A!AnnouncedOnce /\ A!OnlyNamedChanges
  BY TakeAttendanceGood, AskChangeGood, EditGood, DepartureGood, AttendanceElsewhere DEF A!Next

LEMMA AttendanceInit == A!Init => AttendanceInv
<1> SUFFICES ASSUME A!Init PROVE AttendanceInv
  OBVIOUS
<1>1. SchoolDays \in Nat \ {0} /\ MaxEdits \in Nat
  BY AttendanceAssumption DEF A!Sensible
<1>2. 0 \in 0..MaxEdits /\ 1 \in 1..SchoolDays
  BY <1>1
<1>3. SheetsOK
  BY DEF A!Init, SheetsOK
<1> QED BY <1>2, <1>3 DEF A!Init, AttendanceInv, RequestedOK, A!Days

-----------------------------------------------------------------------------
(* What the phone of a guardian counts *)

LEMMA SameCardinality == \A S : A!Cardinality(S) = Cardinality(S)
  BY DEF A!Cardinality, Cardinality

\* A set in two parts.
LEMMA PartsAddUp ==
    ASSUME NEW S, NEW T, NEW U, IsFiniteSet(S), S = T \cup U, T \cap U = {}
    PROVE  /\ Cardinality(S) \in Nat /\ Cardinality(T) \in Nat /\ Cardinality(U) \in Nat
           /\ Cardinality(S) = Cardinality(T) + Cardinality(U)
<1>1. IsFiniteSet(T) /\ IsFiniteSet(U)
  BY FS_Subset
<1>2. Cardinality(T \cap U) = 0
  BY FS_EmptySet
<1>3. Cardinality(S) = Cardinality(T) + Cardinality(U) - Cardinality(T \cap U)
  BY <1>1, FS_Union
<1>4. Cardinality(S) \in Nat /\ Cardinality(T) \in Nat /\ Cardinality(U) \in Nat
  BY <1>1, FS_CardinalityType
<1> QED BY <1>2, <1>3, <1>4

\* Rounding half up does not lead past 100 per cent.
LEMMA RateBounded ==
    ASSUME NEW s, s.total_recorded_days \in Nat, s.present_count \in Nat,
           s.present_count <= s.total_recorded_days
    PROVE  A!Rate(s) <= 10000
<1>1. PICK t \in Nat, n \in Nat : t = s.total_recorded_days /\ n = s.present_count /\ n <= t
  OBVIOUS
<1>2. CASE t = 0
  BY <1>1, <1>2 DEF A!Rate
<1>3. CASE t # 0
  <2>1. A!Rate(s) = (2 * 10000 * n + t) \div (2 * t)
    BY <1>1, <1>3 DEF A!Rate
  <2>2. PICK y \in Nat : y = 2 * t /\ y > 0
    BY <1>3
  <2>3. PICK x \in Nat : x = 2 * 10000 * n + t /\ x < 10001 * y
    BY <1>1, <1>3, <2>2
  <2>4. x \div y <= 10000
    BY <2>2, <2>3
  <2> QED BY <2>1, <2>2, <2>3, <2>4
<1> QED BY <1>2, <1>3

LEMMA SummaryAddsUp ==
    ASSUME AttendanceInv, NEW p \in Pupils, NEW s, s = A!Summary(p, 1, date)
    PROVE  /\ s.total_recorded_days = s.present_count + s.absent_count
           /\ s.absent_count = s.excused_absence_count + s.unexcused_absence_count
           /\ A!Rate(s) <= 10000
<1>1. PICK days, present, absent, excused, unexcused :
          /\ days = A!HistoryDays(p, 1, date)
          /\ present = {d \in days : sheet[d][p].status = "present"}
          /\ absent = {d \in days : sheet[d][p].status = "absent"}
          /\ excused = {d \in absent : sheet[d][p].absence_type = "excused"}
          /\ unexcused = {d \in absent : sheet[d][p].absence_type = "unexcused"}
  OBVIOUS
<1>2. /\ s.total_recorded_days = Cardinality(days)
      /\ s.present_count = Cardinality(present)
      /\ s.absent_count = Cardinality(absent)
      /\ s.excused_absence_count = Cardinality(excused)
      /\ s.unexcused_absence_count = Cardinality(unexcused)
  BY <1>1, SameCardinality DEF A!Summary
<1>3. date \in Nat /\ 1..date \subseteq A!Days
  <2>1. date \in 1..SchoolDays /\ SchoolDays \in Nat
    BY AttendanceAssumption DEF AttendanceInv, A!Days, A!Sensible
  <2> QED BY <2>1 DEF A!Days
<1>4. days = {d \in 1..date : sheet[d] # None /\ sheet[d][p].status # "unmarked"}
  BY <1>1 DEF A!HistoryDays
<1>5. IsFiniteSet(days)
  <2>1. IsFiniteSet(1..date)
    BY <1>3, FS_Interval
  <2> QED BY <1>4, <2>1, FS_Subset
<1>6. ASSUME NEW d \in days
      PROVE  /\ sheet[d][p].status \in {"present", "absent"}
             /\ sheet[d][p].status = "absent" => sheet[d][p].absence_type \in {"excused", "unexcused"}
  <2>1. d \in A!Days /\ sheet[d] # None /\ sheet[d][p].status # "unmarked"
    BY <1>3, <1>4
  <2>2. sheet[d][p] \in A!Records /\ A!MakesSense(sheet[d][p])
    BY <2>1 DEF AttendanceInv, SheetsOK
  <2> QED BY <2>1, <2>2, RecordFacts DEF A!MakesSense
<1>7. /\ Cardinality(days) \in Nat /\ Cardinality(present) \in Nat /\ Cardinality(absent) \in Nat
      /\ Cardinality(days) = Cardinality(present) + Cardinality(absent)
  <2>1. days = present \cup absent /\ present \cap absent = {}
    BY <1>1, <1>6
  <2> QED BY <1>5, <2>1, PartsAddUp
<1>8. Cardinality(absent) = Cardinality(excused) + Cardinality(unexcused)
  <2>1. absent = excused \cup unexcused /\ excused \cap unexcused = {}
    BY <1>1, <1>6
  <2>2. IsFiniteSet(absent)
    BY <1>1, <1>5, FS_Subset
  <2> QED BY <2>1, <2>2, PartsAddUp
<1>9. A!Rate(s) <= 10000
  BY <1>2, <1>7, RateBounded
<1> QED BY <1>2, <1>7, <1>8, <1>9

LEMMA AttendanceImplies == AttendanceInv => A!TypeOK /\ A!RecordsMakeSense
<1> SUFFICES ASSUME AttendanceInv PROVE A!TypeOK /\ A!RecordsMakeSense
  OBVIOUS
<1>1. A!TypeOK
  BY DEF AttendanceInv, SheetsOK, RequestedOK, A!TypeOK
<1>2. \A d \in A!Days : sheet[d] # None => \A p \in Pupils : A!MakesSense(sheet[d][p])
  BY DEF AttendanceInv, SheetsOK
<1> QED BY <1>1, <1>2, SummaryAddsUp DEF A!RecordsMakeSense

-----------------------------------------------------------------------------
(* The grade book: the invariant *)

ScoreValues == Nat \cup {Null}
LogEntries == ScoreValues \X ScoreValues

BookShape ==
    /\ exam \in [Exams -> B!Definition \cup {None}]
    /\ status \in [Exams -> [Classes -> {"none", "draft", "published"}]]
    /\ schedule \in [Exams -> [Classes -> {"draft", "published"}]]
    /\ scores \in [B!Cells -> ScoreValues \cup {None}]
    /\ audit \in [B!Cells -> Seq(LogEntries)]
    /\ told \in [B!Cells -> 0..1]
    /\ assigned \subseteq TeachingStaff \X Classes
    /\ reached \subseteq Pupils
    /\ DOMAIN request = Staff

\* A score lies in a section its assessment is given in, within its maximum,
\* and its log is a chain that ends with it.
ScoreOK(x, p) ==
    /\ scores[<<x, p>>] = None => audit[<<x, p>>] = <<>>
    /\ scores[<<x, p>>] # None =>
          /\ exam[x] # None /\ status[x][ClassOf[p]] # "none"
          /\ scores[<<x, p>>] # Null => scores[<<x, p>>] <= exam[x].max_score
          /\ audit[<<x, p>>] # <<>> /\ audit[<<x, p>>][Len(audit[<<x, p>>])][2] = scores[<<x, p>>]
    /\ \A i \in 2..Len(audit[<<x, p>>]) : audit[<<x, p>>][i][1] = audit[<<x, p>>][i - 1][2]

\* An assessment that is gone is given nowhere.
ExamOK(x) == exam[x] = None => \A s \in Classes : status[x][s] = "none"

MarkingOK(a) ==
    request[a] # None =>
        /\ request[a].exam \in Exams \cup {None}
        /\ request[a].op # "create" => request[a].exam \in Exams
        /\ request[a].op \in {"create", "update"} => request[a].def \in B!Definition
        /\ request[a].op = "scores" =>
              \A p \in DOMAIN request[a].scores : request[a].scores[p] \in ScoreValues

BookInv ==
    /\ BookShape
    /\ \A x \in Exams : ExamOK(x) /\ \A p \in Pupils : ScoreOK(x, p)
    /\ \A a \in Staff : MarkingOK(a)

LEMMA CellFacts ==
    /\ \A x \in Exams, p \in Pupils : <<x, p>> \in B!Cells
    /\ \A c \in B!Cells : c = <<c[1], c[2]>> /\ c[1] \in Exams /\ c[2] \in Pupils
    /\ \A p \in Pupils : ClassOf[p] \in Classes
  BY GradesAssumption DEF B!Cells, B!Sensible

LEMMA DefinitionFacts ==
    ASSUME NEW d \in B!Definition
    PROVE  d # None /\ d.max_score \in Nat \ {0}
  BY GradesAssumption DEF B!Definition, B!Sensible

LEMMA ScoreFacts ==
    /\ \A n \in ScoreValues : n # None
    /\ \A n \in ScoreValues : n # Null => n \in Nat
    /\ Null \in ScoreValues /\ Null # None
  BY GradesAssumption DEF ScoreValues, B!Sensible

-----------------------------------------------------------------------------
(* What a step may do to what has been shown *)

Corrected(x) == \E a \in Staff : /\ B!MayCorrect(a) /\ B!Doing(a, "scores") /\ request[a].exam = x
                                 /\ request'[a] = None

\* Nothing that was published is taken back or redefined.
NothingTakenBack ==
    \A x \in Exams, s \in Classes : status[x][s] = "published" =>
        /\ status'[x][s] = "published" /\ exam'[x] = exam[x]
        /\ schedule[x][s] = "published" => schedule'[x][s] = "published"

LEMMA ShownStaysIf ==
    ASSUME BookInv, NothingTakenBack,
           \A x \in Exams, p \in Pupils :
              status[x][ClassOf[p]] = "published" /\ scores'[<<x, p>>] # scores[<<x, p>>] => Corrected(x)
    PROVE  B!ShownStays
<1>1. ASSUME NEW p \in Pupils, NEW r \in B!PhoneResults(p)
      PROVE  \E q \in B!PhoneResults(p)' :
                /\ q.exam = r.exam /\ q.max_score = r.max_score
                /\ q.score # r.score => Corrected(r.exam)
  <2>1. PICK x \in Exams : r = B!ResultRow(x, p) /\ ClassOf[p] \in B!Linked(x) /\ r.status = "published"
    BY DEF B!PhoneResults, B!TermResults
  <2>2. /\ r.exam = x /\ r.score = B!ScoreRow(x, p).score /\ r.max_score = exam[x].max_score
        /\ status[x][ClassOf[p]] = "published"
    BY <2>1 DEF B!ResultRow
  <2>3. /\ status'[x][ClassOf[p]] = "published" /\ exam'[x] = exam[x] /\ ClassOf[p] \in Classes
    BY <2>2, CellFacts DEF NothingTakenBack
  <2>4. PICK q : q = B!ResultRow(x, p)'
    OBVIOUS
  <2>5. /\ q.exam = x /\ q.score = B!ScoreRow(x, p)'.score /\ q.max_score = exam[x].max_score
        /\ q.status = "published"
    BY <2>3, <2>4 DEF B!ResultRow
  <2>6. q \in B!PhoneResults(p)'
    BY <2>3, <2>4, <2>5 DEF B!PhoneResults, B!TermResults, B!Linked
  <2>7. q.score # r.score => scores'[<<x, p>>] # scores[<<x, p>>]
    BY <2>2, <2>5 DEF B!ScoreRow
  <2> QED BY <2>2, <2>5, <2>6, <2>7
<1>2. ASSUME NEW x \in Exams, B!Published(x) # {} PROVE exam'[x] = exam[x]
  BY <1>2 DEF B!Published, NothingTakenBack
<1>3. ASSUME NEW p \in Pupils, NEW x \in B!PhoneExams(p, "all"), status[x][ClassOf[p]] = "published", p \in reached'
      PROVE  x \in B!PhoneExams(p, "all")'
  <2>1. x \in Exams /\ schedule[x][ClassOf[p]] = "published" /\ ClassOf[p] \in Classes
    BY CellFacts DEF B!PhoneExams
  <2>2. schedule'[x][ClassOf[p]] = "published"
    BY <1>3, <2>1 DEF NothingTakenBack
  <2> QED BY <1>3, <2>1, <2>2 DEF B!PhoneExams
<1> QED BY <1>1, <1>2, <1>3 DEF B!ShownStays, Corrected

\* Nothing comes out, nobody is told.
LEMMA NothingOut ==
    ASSUME told' = told,
           \A x \in Exams, s \in Classes : status'[x][s] = "published" => status[x][s] = "published"
    PROVE  B!ResultsTold
<1>1. ASSUME NEW x \in Exams, NEW p \in Pupils
      PROVE  /\ ~(status[x][ClassOf[p]] # "published" /\ status'[x][ClassOf[p]] = "published")
             /\ ~(told[<<x, p>>] = 0 /\ told'[<<x, p>>] = 1)
  BY CellFacts
<1> QED BY <1>1 DEF B!ResultsTold

GoodBook == BookInv' /\ B!ShownStays /\ B!ResultsTold

\* The requests after one of them is asked for or answered.
LEMMA RequestsAfter ==
    ASSUME BookInv, NEW a \in Staff, NEW r, request' = [request EXCEPT ![a] = r]
    PROVE  /\ DOMAIN request' = Staff /\ request'[a] = r
           /\ (r = None \/ MarkingOK(a)') => \A b \in Staff : MarkingOK(b)'
<1>1. DOMAIN request' = Staff /\ request'[a] = r /\ \A b \in Staff : b # a => request'[b] = request[b]
  BY DEF BookInv, BookShape
<1>2. ASSUME NEW b \in Staff, b # a PROVE MarkingOK(b)'
  BY <1>1, <1>2 DEF BookInv, MarkingOK
<1>3. r = None => MarkingOK(a)'
  BY <1>1 DEF MarkingOK
<1> QED BY <1>1, <1>2, <1>3

\* Steps that leave the book alone.
LEMMA QuietForBook ==
    ASSUME BookInv, UNCHANGED B!book, assigned' \subseteq assigned, reached' \subseteq reached,
           DOMAIN request' = Staff, \A a \in Staff : MarkingOK(a)'
    PROVE  GoodBook
<1>1. UNCHANGED <<exam, status, schedule, scores, audit, told>>
  BY DEF B!book
<1>2. BookShape'
  BY <1>1 DEF BookInv, BookShape
<1>3. \A x \in Exams : ExamOK(x)' /\ \A p \in Pupils : ScoreOK(x, p)'
  BY <1>1 DEF BookInv, ExamOK, ScoreOK
<1>4. NothingTakenBack
  BY <1>1 DEF NothingTakenBack
<1>5. B!ShownStays
  BY <1>1, <1>4, ShownStaysIf
<1>6. B!ResultsTold
  BY <1>1, NothingOut
<1> QED BY <1>2, <1>3, <1>5, <1>6 DEF GoodBook, BookInv

LEMMA BookElsewhere ==
    ASSUME BookInv,
           \/ \E a \in Staff, s \in Classes : B!EndAssignment(a, s)
           \/ \E p \in Pupils : B!EndLink(p)
           \/ B!NextDay
           \/ UNCHANGED B!vars
    PROVE  GoodBook
<1>1. /\ UNCHANGED <<B!book, request>> /\ assigned' \subseteq assigned /\ reached' \subseteq reached
  BY DEF B!EndAssignment, B!EndLink, B!NextDay, B!vars
<1>2. DOMAIN request' = Staff /\ \A a \in Staff : MarkingOK(a)'
  BY <1>1 DEF BookInv, BookShape, MarkingOK
<1> QED BY <1>1, <1>2, QuietForBook

LEMMA AskBookGood ==
    ASSUME BookInv, NEW a \in Staff, B!Asking(a)
    PROVE  GoodBook
<1> DEFINE Fine(r) ==
        /\ r.exam \in Exams \cup {None}
        /\ r.op # "create" => r.exam \in Exams
        /\ r.op \in {"create", "update"} => r.def \in B!Definition
        /\ r.op = "scores" => \A p \in DOMAIN r.scores : r.scores[p] \in ScoreValues
<1>1. PICK r : B!Ask(a, r) /\ Fine(r)
  <2>1. \A def \in Definitions : def \in B!Definition
    BY GradesAssumption DEF B!Sensible
  <2>2. CASE \E def \in Definitions, s \in Classes : B!AskCreate(a, s, def)
    <3>1. PICK def \in Definitions, s \in Classes : B!AskCreate(a, s, def)
      BY <2>2
    <3>2. PICK r : r = B!CreateInput(s, def)
      OBVIOUS
    <3>3. r.op = "create" /\ r.exam = None /\ r.def = def
      BY <3>2 DEF B!CreateInput, B!NoRequest
    <3>4. B!Ask(a, r)
      BY <3>1, <3>2 DEF B!AskCreate
    <3> QED BY <2>1, <3>3, <3>4
  <2>3. CASE \E def \in Definitions : B!AskCreateForGrade(a, def)
    <3>1. PICK def \in Definitions : B!AskCreateForGrade(a, def)
      BY <2>3
    <3>2. PICK r : r = B!CreateForGradeInput(def)
      OBVIOUS
    <3>3. r.op = "create" /\ r.exam = None /\ r.def = def
      BY <3>2 DEF B!CreateForGradeInput, B!NoRequest
    <3>4. B!Ask(a, r)
      BY <3>1, <3>2 DEF B!AskCreateForGrade
    <3> QED BY <2>1, <3>3, <3>4
  <2>4. CASE \E def \in Definitions, x \in Exams : B!AskUpdate(a, x, def)
    <3>1. PICK def \in Definitions, x \in Exams : B!AskUpdate(a, x, def)
      BY <2>4
    <3>2. PICK r : r = B!UpdateInput(x, def)
      OBVIOUS
    <3>3. r.op = "update" /\ r.exam = x /\ r.def = def
      BY <3>2 DEF B!UpdateInput, B!NoRequest
    <3>4. B!Ask(a, r)
      BY <3>1, <3>2 DEF B!AskUpdate
    <3> QED BY <2>1, <3>3, <3>4
  <2>5. CASE \E x \in Exams : B!AskDelete(a, x)
    <3>1. PICK x \in Exams : B!AskDelete(a, x)
      BY <2>5
    <3>2. PICK r : r = [B!NoRequest EXCEPT !.op = "delete", !.exam = x]
      OBVIOUS
    <3>3. r.op = "delete" /\ r.exam = x
      BY <3>2 DEF B!NoRequest
    <3>4. B!Ask(a, r)
      BY <3>1, <3>2 DEF B!AskDelete
    <3> QED BY <3>3, <3>4
  <2>6. CASE \E x \in Exams, s \in Classes, p \in Pupils, n \in Scores \cup {Null} :
               B!AskScores(a, x, s, [q \in {p} |-> n])
    <3>1. PICK x \in Exams, s \in Classes, p \in Pupils, n \in Scores \cup {Null} :
               B!AskScores(a, x, s, [q \in {p} |-> n])
      BY <2>6
    <3>2. PICK given : given = [q \in {p} |-> n]
      OBVIOUS
    <3>3. n \in ScoreValues
      BY GradesAssumption DEF B!Sensible, ScoreValues
    <3>4. \A q \in DOMAIN given : given[q] \in ScoreValues
      BY <3>2, <3>3
    <3>5. PICK r : r = B!ScoresInput(x, s, given)
      OBVIOUS
    <3>6. r.op = "scores" /\ r.exam = x /\ r.scores = given
      BY <3>5 DEF B!ScoresInput, B!NoRequest
    <3>7. B!Ask(a, r)
      BY <3>1, <3>2, <3>5 DEF B!AskScores
    <3> QED BY <3>4, <3>6, <3>7
  <2>7. CASE \E x \in Exams, s \in Classes, op \in {"publish schedule", "unpublish schedule"} :
               B!AskSchedule(a, x, s, op)
    <3>1. PICK x \in Exams, s \in Classes, op \in {"publish schedule", "unpublish schedule"} :
               B!AskSchedule(a, x, s, op)
      BY <2>7
    <3>2. PICK r : r = B!ScheduleInput(x, s, op)
      OBVIOUS
    <3>3. r.op = op /\ r.exam = x
      BY <3>2 DEF B!ScheduleInput, B!NoRequest
    <3>4. B!Ask(a, r)
      BY <3>1, <3>2 DEF B!AskSchedule
    <3> QED BY <3>1, <3>3, <3>4
  <2> HIDE DEF Fine
  <2> QED BY <2>2, <2>3, <2>4, <2>5, <2>6, <2>7 DEF B!Asking
<1>2. request' = [request EXCEPT ![a] = r] /\ UNCHANGED <<B!book, assigned, reached>>
  BY <1>1 DEF B!Ask
<1>3. DOMAIN request' = Staff /\ request'[a] = r
  BY <1>2, RequestsAfter
<1>4. MarkingOK(a)'
  BY <1>1, <1>3 DEF MarkingOK
<1>5. \A b \in Staff : MarkingOK(b)'
  BY <1>2, <1>4, RequestsAfter
<1> QED BY <1>2, <1>3, <1>5, QuietForBook

LEMMA RefusedGood == ASSUME BookInv, NEW a \in Staff, B!Refuse(a) PROVE GoodBook
<1>1. request' = [request EXCEPT ![a] = None] /\ UNCHANGED <<B!book, assigned, reached>>
  BY DEF B!Refuse, B!Close
<1>2. DOMAIN request' = Staff /\ \A b \in Staff : MarkingOK(b)'
  BY <1>1, RequestsAfter
<1> QED BY <1>1, <1>2, QuietForBook

\* An answer: the book is written and the request forgotten.
LEMMA Answered ==
    ASSUME BookInv, NEW a \in Staff, B!Close(a),
           BookShape', \A x \in Exams : ExamOK(x)' /\ \A p \in Pupils : ScoreOK(x, p)',
           B!ShownStays, B!ResultsTold
    PROVE  GoodBook
<1>1. request' = [request EXCEPT ![a] = None]
  BY DEF B!Close
<1>2. \A b \in Staff : MarkingOK(b)'
  BY <1>1, RequestsAfter
<1> QED BY <1>2 DEF GoodBook, BookInv

LEMMA ClosedFacts ==
    ASSUME BookInv, NEW a \in Staff, B!Close(a)
    PROVE  DOMAIN request' = Staff /\ request'[a] = None /\ assigned' = assigned /\ reached' = reached
<1>1. request' = [request EXCEPT ![a] = None] /\ assigned' = assigned /\ reached' = reached
  BY DEF B!Close
<1> QED BY <1>1, RequestsAfter

\* An assessment is created, redefined or deleted: none that was published.
LEMMA RedefinedGood ==
    ASSUME BookInv, NEW a \in Staff, B!Close(a), NEW x \in Exams,
           NEW def \in B!Definition \cup {None},
           NEW given \in [Classes -> {"none", "draft", "published"}],
           NEW shown \in [Classes -> {"draft", "published"}],
           exam' = [exam EXCEPT ![x] = def], status' = [status EXCEPT ![x] = given],
           schedule' = [schedule EXCEPT ![x] = shown], UNCHANGED <<scores, audit, told>>,
           \A s \in Classes : status[x][s] # "published" /\ given[s] # "published",
           def = None => given = [s \in Classes |-> "none"],
           \A p \in Pupils : scores[<<x, p>>] # None =>
              /\ def # None /\ given = status[x]
              /\ scores[<<x, p>>] # Null => scores[<<x, p>>] <= def.max_score
    PROVE  GoodBook
<1>1. /\ exam'[x] = def /\ status'[x] = given /\ schedule'[x] = shown
      /\ \A y \in Exams : y # x => exam'[y] = exam[y] /\ status'[y] = status[y] /\ schedule'[y] = schedule[y]
  BY DEF BookInv, BookShape
<1>2. BookShape'
  BY ClosedFacts DEF BookInv, BookShape
<1>3. ASSUME NEW y \in Exams PROVE ExamOK(y)' /\ \A p \in Pupils : ScoreOK(y, p)'
  <2>1. CASE y # x
    <3>1. ExamOK(y) /\ exam'[y] = exam[y] /\ status'[y] = status[y]
      BY <1>1, <2>1 DEF BookInv
    <3>2. ExamOK(y)'
      BY <3>1 DEF ExamOK
    <3>3. ASSUME NEW p \in Pupils PROVE ScoreOK(y, p)'
      <4>1. ScoreOK(y, p)
        BY DEF BookInv
      <4> QED BY <3>1, <4>1 DEF ScoreOK
    <3> QED BY <3>2, <3>3
  <2>2. CASE y = x
    <3>1. ExamOK(y)'
      BY <1>1, <2>2 DEF ExamOK
    <3>2. ASSUME NEW p \in Pupils PROVE ScoreOK(y, p)'
      <4>1. scores' = scores /\ audit' = audit /\ ScoreOK(x, p)
        BY DEF BookInv
      <4>2. scores[<<x, p>>] # None =>
               /\ exam'[x] # None /\ status'[x][ClassOf[p]] # "none"
               /\ scores[<<x, p>>] # Null => scores[<<x, p>>] <= exam'[x].max_score
        BY <1>1, <4>1 DEF ScoreOK
      <4> QED BY <2>2, <4>1, <4>2 DEF ScoreOK
    <3> QED BY <3>1, <3>2
  <2> QED BY <2>1, <2>2
<1>4. NothingTakenBack
  BY <1>1 DEF NothingTakenBack
<1>5. B!ShownStays
  BY <1>4, ShownStaysIf
<1>6. B!ResultsTold
  BY <1>1, NothingOut
<1> QED BY <1>2, <1>3, <1>5, <1>6, Answered

LEMMA CreateGood ==
    ASSUME BookInv, NEW a \in Staff, NEW x \in Exams, B!Create(a, x)
    PROVE  GoodBook
<1>1. PICK given, shown, def :
          /\ given = [s \in Classes |-> IF s \in request[a].sections THEN "draft" ELSE "none"]
          /\ shown = [s \in Classes |-> "draft"]
          /\ def = request[a].def
  OBVIOUS
<1>2. /\ given \in [Classes -> {"none", "draft", "published"}] /\ \A s \in Classes : given[s] # "published"
      /\ shown \in [Classes -> {"draft", "published"}]
  BY <1>1
<1>3. /\ B!Doing(a, "create") /\ exam[x] = None /\ B!Close(a)
      /\ exam' = [exam EXCEPT ![x] = def] /\ status' = [status EXCEPT ![x] = given]
      /\ schedule' = [schedule EXCEPT ![x] = shown] /\ UNCHANGED <<scores, audit, told>>
  BY <1>1 DEF B!Create
<1>4. def \in B!Definition /\ def # None
  BY <1>1, <1>3, DefinitionFacts DEF B!Doing, BookInv, MarkingOK
<1>5. \A p \in Pupils : scores[<<x, p>>] = None
  BY <1>3 DEF BookInv, ScoreOK
<1>6. \A s \in Classes : status[x][s] # "published"
  BY <1>3 DEF BookInv, ExamOK
<1> QED BY <1>2, <1>3, <1>4, <1>5, <1>6, RedefinedGood

LEMMA NotFrozen ==
    ASSUME NEW a, NEW x, ~B!Frozen(a, x)
    PROVE  \A s \in Classes : status[x][s] # "published"
  BY DEF B!Frozen, B!Published

LEMMA UpdateGood ==
    ASSUME BookInv, NEW a \in Staff, B!Update(a)
    PROVE  GoodBook
<1>1. PICK x, def : x = request[a].exam /\ def = request[a].def
  OBVIOUS
<1>2. B!Doing(a, "update") /\ x \in Exams /\ def \in B!Definition /\ def # None
  BY <1>1, DefinitionFacts DEF B!Update, B!Doing, BookInv, MarkingOK
<1>3. CASE ~B!UpdateAllowed(a, x, def)
  BY <1>1, <1>3, RefusedGood DEF B!Update
<1>4. CASE B!UpdateAllowed(a, x, def)
  <2>1. /\ exam' = [exam EXCEPT ![x] = def] /\ B!Close(a)
        /\ UNCHANGED <<status, schedule, scores, audit, told>>
    BY <1>1, <1>4 DEF B!Update
  <2>2. PICK given, shown : given = status[x] /\ shown = schedule[x]
    OBVIOUS
  <2>3. /\ given \in [Classes -> {"none", "draft", "published"}] /\ shown \in [Classes -> {"draft", "published"}]
        /\ status' = [status EXCEPT ![x] = given] /\ schedule' = [schedule EXCEPT ![x] = shown]
    BY <1>2, <2>1, <2>2 DEF BookInv, BookShape
  <2>4. \A s \in Classes : status[x][s] # "published"
    BY <1>4, NotFrozen DEF B!UpdateAllowed
  <2>5. ASSUME NEW p \in Pupils, scores[<<x, p>>] # None, scores[<<x, p>>] # Null
        PROVE  scores[<<x, p>>] <= def.max_score
    BY <1>4, <2>5 DEF B!UpdateAllowed, B!ScoresOf
  <2> QED BY <1>2, <2>1, <2>2, <2>3, <2>4, <2>5, RedefinedGood
<1> QED BY <1>3, <1>4

LEMMA DeleteBookGood ==
    ASSUME BookInv, NEW a \in Staff, B!Delete(a)
    PROVE  GoodBook
<1>1. PICK x : x = request[a].exam
  OBVIOUS
<1>2. B!Doing(a, "delete") /\ x \in Exams
  BY <1>1 DEF B!Delete, B!Doing, BookInv, MarkingOK
<1>3. CASE ~B!DeleteAllowed(a, x)
  BY <1>1, <1>3, RefusedGood DEF B!Delete
<1>4. CASE B!DeleteAllowed(a, x)
  <2>1. PICK given, shown : given = [s \in Classes |-> "none"] /\ shown = [s \in Classes |-> "draft"]
    OBVIOUS
  <2>2. /\ exam' = [exam EXCEPT ![x] = None] /\ B!Close(a)
        /\ status' = [status EXCEPT ![x] = given] /\ schedule' = [schedule EXCEPT ![x] = shown]
        /\ UNCHANGED <<scores, audit, told>>
    BY <1>1, <1>4, <2>1 DEF B!Delete
  <2>3. /\ given \in [Classes -> {"none", "draft", "published"}] /\ shown \in [Classes -> {"draft", "published"}]
        /\ \A s \in Classes : given[s] # "published"
    BY <2>1
  <2>4. \A s \in Classes : status[x][s] # "published"
    BY <1>4, NotFrozen DEF B!DeleteAllowed
  <2>5. \A p \in Pupils : scores[<<x, p>>] = None
    BY <1>4 DEF B!DeleteAllowed
  <2> QED BY <1>2, <2>1, <2>2, <2>3, <2>4, <2>5, RedefinedGood
<1> QED BY <1>3, <1>4

LEMMA ScheduleGood ==
    ASSUME BookInv, NEW a \in Staff, B!PublishSchedule(a) \/ B!UnpublishSchedule(a)
    PROVE  GoodBook
<1>1. PICK x, s : x = request[a].exam /\ s = CHOOSE t \in request[a].sections : TRUE
  OBVIOUS
<1>2. x \in Exams
  BY <1>1 DEF B!PublishSchedule, B!UnpublishSchedule, B!Doing, BookInv, MarkingOK
<1>3. CASE B!Refuse(a)
  BY <1>3, RefusedGood
<1>4. CASE ~B!Refuse(a)
  <2>1. PICK to \in {"draft", "published"} :
            /\ s \in Classes /\ schedule' = [schedule EXCEPT ![x][s] = to] /\ B!Close(a)
            /\ UNCHANGED <<exam, status, scores, audit, told>>
            /\ to = "draft" => ~(schedule[x][s] = "published" /\ status[x][s] = "published")
    BY <1>1, <1>4 DEF B!PublishSchedule, B!UnpublishSchedule, B!Linked
  <2>2. /\ schedule' \in [Exams -> [Classes -> {"draft", "published"}]]
        /\ \A y \in Exams, t \in Classes :
              schedule'[y][t] = IF y = x /\ t = s THEN to ELSE schedule[y][t]
    BY <1>2, <2>1 DEF BookInv, BookShape
  <2>3. BookShape'
    BY <2>1, <2>2, ClosedFacts DEF BookInv, BookShape
  <2>4. \A y \in Exams : ExamOK(y)' /\ \A p \in Pupils : ScoreOK(y, p)'
    BY <2>1 DEF BookInv, ExamOK, ScoreOK
  <2>5. NothingTakenBack
    BY <2>1, <2>2 DEF NothingTakenBack
  <2>6. B!ShownStays
    BY <2>1, <2>5, ShownStaysIf
  <2>7. B!ResultsTold
    BY <2>1, NothingOut
  <2> QED BY <2>1, <2>3, <2>4, <2>6, <2>7, Answered
<1> QED BY <1>3, <1>4

LongerBy(n, chain, e) ==
    /\ n \in Seq(LogEntries) /\ Len(n) = Len(chain) + 1
    /\ n[Len(chain) + 1] = e /\ \A i \in 1..Len(chain) : n[i] = chain[i]

LEMMA LongerLog ==
    ASSUME NEW chain \in Seq(LogEntries), NEW e \in LogEntries
    PROVE  LongerBy(Append(chain, e), chain, e)
  BY AppendProperties DEF LongerBy

\* Scores are saved: one entry of the log for each.
LEMMA SaveScoresGood ==
    ASSUME BookInv, NEW a \in Staff, B!SaveScores(a)
    PROVE  GoodBook
<1>1. PICK x, s, given : /\ x = request[a].exam /\ given = request[a].scores
                         /\ s = CHOOSE t \in request[a].sections : TRUE
  OBVIOUS
<1>2. /\ B!Doing(a, "scores") /\ x \in Exams /\ request[a] # None /\ request[a].op = "scores"
      /\ \A p \in DOMAIN given : given[p] \in ScoreValues
  BY <1>1 DEF B!SaveScores, B!Doing, BookInv, MarkingOK
<1>3. CASE ~B!ScoresAllowed(a, x, s, given)
  BY <1>1, <1>3, RefusedGood DEF B!SaveScores
<1>4. CASE B!ScoresAllowed(a, x, s, given)
  <2>1. /\ scores' = [c \in B!Cells |-> IF c[1] = x /\ c[2] \in DOMAIN given THEN given[c[2]] ELSE scores[c]]
        /\ B!Audited(x, given) /\ B!Close(a)
        /\ UNCHANGED <<exam, status, schedule, told>>
    BY <1>1, <1>4 DEF B!SaveScores
  <2>2. /\ exam[x] # None /\ s \in Classes /\ status[x][s] # "none" /\ B!MayEditScore(a, x, s)
        /\ \A p \in DOMAIN given : ClassOf[p] = s /\ B!InRange(x, given[p])
    BY <1>4 DEF B!ScoresAllowed, B!Linked
  <2>3. PICK entry : entry = [c \in B!Cells |-> B!AuditEntry(scores[c], given[c[2]])]
    OBVIOUS
  <2>4. audit' = [c \in B!Cells |-> IF c[1] = x /\ c[2] \in DOMAIN given
                                    THEN Append(audit[c], entry[c]) ELSE audit[c]]
    <3>1. audit' = [c \in B!Cells |-> IF c[1] = x /\ c[2] \in DOMAIN given
                      THEN Append(audit[c], B!AuditEntry(scores[c], given[c[2]])) ELSE audit[c]]
      BY <2>1 DEF B!Audited
    <3>2. \A c \in B!Cells : entry[c] = B!AuditEntry(scores[c], given[c[2]])
      BY <2>3
    <3> QED BY <3>1, <3>2
  <2>5. ASSUME NEW c \in B!Cells, c[2] \in DOMAIN given
        PROVE  /\ entry[c] \in LogEntries /\ entry[c][2] = given[c[2]]
               /\ entry[c][1] = IF scores[c] = None THEN Null ELSE scores[c]
    <3>1. entry[c] = <<IF scores[c] = None THEN Null ELSE scores[c], given[c[2]]>>
      BY <2>3 DEF B!AuditEntry
    <3>2. scores[c] \in ScoreValues \cup {None} /\ given[c[2]] \in ScoreValues
      BY <1>2, <2>5 DEF BookInv, BookShape
    <3> QED BY <3>1, <3>2, ScoreFacts DEF LogEntries
  <2>6. BookShape'
    <3>1. scores' \in [B!Cells -> ScoreValues \cup {None}]
      BY <1>2, <2>1 DEF BookInv, BookShape
    <3>2. audit' \in [B!Cells -> Seq(LogEntries)]
      <4>1. \A c \in B!Cells : audit[c] \in Seq(LogEntries)
        BY DEF BookInv, BookShape
      <4>2. \A c \in B!Cells : c[2] \in DOMAIN given => Append(audit[c], entry[c]) \in Seq(LogEntries)
        BY <2>5, <4>1
      <4> QED BY <2>4, <4>1, <4>2
    <3> QED BY <2>1, <3>1, <3>2, ClosedFacts DEF BookInv, BookShape
  <2>7. ASSUME NEW y \in Exams, NEW p \in Pupils
        PROVE  IF y = x /\ p \in DOMAIN given
               THEN /\ scores'[<<y, p>>] = given[p]
                    /\ audit'[<<y, p>>] = Append(audit[<<y, p>>], entry[<<y, p>>])
               ELSE scores'[<<y, p>>] = scores[<<y, p>>] /\ audit'[<<y, p>>] = audit[<<y, p>>]
    <3>1. PICK c \in B!Cells : c = <<y, p>> /\ c[1] = y /\ c[2] = p
      BY CellFacts
    <3> QED BY <2>1, <2>4, <3>1
  <2>8. ASSUME NEW y \in Exams, NEW p \in Pupils PROVE ScoreOK(y, p)'
    <3>0. ScoreOK(y, p)
      BY DEF BookInv
    <3>1. CASE y = x /\ p \in DOMAIN given
      <4>1. PICK chain, e, old, new : /\ chain = audit[<<y, p>>] /\ e = entry[<<y, p>>]
                                    /\ old = scores[<<y, p>>] /\ new = given[p]
        OBVIOUS
      <4>2. chain \in Seq(LogEntries) /\ <<y, p>> \in B!Cells
        BY <4>1, CellFacts DEF BookInv, BookShape
      <4>3. e \in LogEntries /\ e[2] = new /\ e[1] = IF old = None THEN Null ELSE old
        <5>1. PICK c \in B!Cells : c = <<y, p>> /\ c[2] = p
          BY CellFacts
        <5> QED BY <2>5, <3>1, <4>1, <5>1
      <4>4. PICK longer : longer = Append(chain, e) /\ longer = audit'[<<y, p>>]
        BY <2>7, <3>1, <4>1
      <4>5. scores'[<<y, p>>] = new /\ new # None
        BY <1>2, <2>7, <3>1, <4>1, ScoreFacts
      <4>6. PICK n \in Nat : n = Len(chain)
        BY <4>2
      <4>7. /\ longer \in Seq(LogEntries) /\ Len(longer) = n + 1 /\ longer[n + 1] = e
            /\ \A i \in 1..n : longer[i] = chain[i]
        <5>1. LongerBy(Append(chain, e), chain, e)
          BY <4>2, <4>3, LongerLog
        <5>2. LongerBy(longer, chain, e)
          BY <4>4, <5>1
        <5> QED BY <4>6, <5>2 DEF LongerBy
      <4>8. /\ old = None => n = 0
            /\ n # 0 => chain[n][2] = old
            /\ \A i \in 2..n : chain[i][1] = chain[i - 1][2]
        BY <3>0, <4>1, <4>2, <4>6 DEF ScoreOK
      <4>9. ASSUME NEW i \in 2..(n + 1) PROVE longer[i][1] = longer[i - 1][2]
        <5>1. CASE i = n + 1
          <6>1. n # 0 /\ n \in 1..n /\ i - 1 = n
            BY <4>6, <5>1
          <6> QED BY <4>3, <4>7, <4>8, <5>1, <6>1
        <5>2. CASE i # n + 1
          <6>1. i \in 2..n /\ i \in 1..n /\ i - 1 \in 1..n
            BY <4>6, <5>2
          <6> QED BY <4>7, <4>8, <6>1
        <5> QED BY <5>1, <5>2
      <4>10. longer # <<>> /\ longer[Len(longer)][2] = new
        BY <4>3, <4>6, <4>7
      <4>11. new # Null => new <= exam[x].max_score
        BY <2>2, <3>1, <4>1 DEF B!InRange
      <4>12. status[x][ClassOf[p]] # "none" /\ exam[x] # None
        BY <2>2, <3>1
      <4>13. exam' = exam /\ status' = status
        BY <2>1
      <4>14. \A i \in 2..Len(longer) : longer[i][1] = longer[i - 1][2]
        BY <4>7, <4>9
      <4> QED BY <3>1, <4>4, <4>5, <4>10, <4>11, <4>12, <4>13, <4>14 DEF ScoreOK
    <3>2. CASE ~(y = x /\ p \in DOMAIN given)
      <4>1. scores'[<<y, p>>] = scores[<<y, p>>] /\ audit'[<<y, p>>] = audit[<<y, p>>]
        BY <2>7, <3>2
      <4> QED BY <2>1, <3>0, <4>1 DEF ScoreOK
    <3> QED BY <3>1, <3>2
  <2>9. \A y \in Exams : ExamOK(y)'
    BY <2>1 DEF BookInv, ExamOK
  <2>10. NothingTakenBack
    BY <2>1 DEF NothingTakenBack
  <2>11. ASSUME NEW y \in Exams, NEW p \in Pupils, status[y][ClassOf[p]] = "published",
                scores'[<<y, p>>] # scores[<<y, p>>]
         PROVE  Corrected(y)
    <3>1. y = x /\ p \in DOMAIN given
      BY <2>7, <2>11
    <3>2. B!MayCorrect(a)
      BY <2>2, <2>11, <3>1 DEF B!MayEditScore
    <3>3. request'[a] = None
      BY <2>1, ClosedFacts
    <3> QED BY <1>1, <1>2, <3>1, <3>2, <3>3 DEF Corrected
  <2>12. B!ShownStays
    BY <2>10, <2>11, ShownStaysIf
  <2>13. B!ResultsTold
    BY <2>1, NothingOut
  <2> QED BY <2>1, <2>6, <2>8, <2>9, <2>12, <2>13, Answered
<1> QED BY <1>3, <1>4

\* Results come out: of the drafts that are due, to those who have a score.
LEMMA PublishGood ==
    ASSUME BookInv, NEW ss, ss \subseteq Classes, B!Publish(ss)
    PROVE  GoodBook
<1>1. PICK due : due = {c \in Exams \X Classes : c[2] \in ss /\ c[1] \in B!Due(c[2])}
  OBVIOUS
<1>2. PICK in : in = [x \in Exams |-> {s \in ss : <<x, s>> \in due}]
  OBVIOUS
<1>3. /\ status' = [x \in Exams |-> [s \in Classes |-> IF <<x, s>> \in due THEN "published" ELSE status[x][s]]]
      /\ told' = [c \in B!Cells |-> IF c[2] \in B!ToTell(c[1], in[c[1]]) \cap reached THEN 1 ELSE told[c]]
      /\ UNCHANGED <<exam, schedule, scores, audit, assigned, reached, request>>
  <2>1. told' = [c \in B!Cells |-> IF c[2] \in B!ToTell(c[1], {s \in ss : <<c[1], s>> \in due}) \cap reached
                                   THEN 1 ELSE told[c]]
    BY <1>1 DEF B!Publish
  <2>2. \A c \in B!Cells : in[c[1]] = {s \in ss : <<c[1], s>> \in due}
    BY <1>2, CellFacts
  <2>3. told' = [c \in B!Cells |-> IF c[2] \in B!ToTell(c[1], in[c[1]]) \cap reached THEN 1 ELSE told[c]]
    BY <2>1, <2>2
  <2>4. /\ status' = [x \in Exams |-> [s \in Classes |-> IF <<x, s>> \in due THEN "published" ELSE status[x][s]]]
        /\ UNCHANGED <<exam, schedule, scores, audit, assigned, reached, request>>
    BY <1>1 DEF B!Publish
  <2> QED BY <2>3, <2>4
<1>4. \A x \in Exams, s \in Classes : status'[x][s] = IF <<x, s>> \in due THEN "published" ELSE status[x][s]
  BY <1>3
<1>5. ASSUME NEW x \in Exams, NEW s \in Classes, <<x, s>> \in due
      PROVE  exam[x] # None /\ status[x][s] = "draft" /\ s \in ss
  BY <1>1, <1>5 DEF B!Due
<1>6. BookShape'
  <2>1. status' \in [Exams -> [Classes -> {"none", "draft", "published"}]]
    BY <1>3 DEF BookInv, BookShape
  <2>2. told' \in [B!Cells -> 0..1]
    BY <1>3 DEF BookInv, BookShape
  <2> QED BY <1>3, <2>1, <2>2 DEF BookInv, BookShape
<1>7. ASSUME NEW x \in Exams PROVE ExamOK(x)' /\ \A p \in Pupils : ScoreOK(x, p)'
  <2>1. ExamOK(x)'
    BY <1>3, <1>4, <1>5 DEF BookInv, ExamOK
  <2>2. ASSUME NEW p \in Pupils PROVE ScoreOK(x, p)'
    <3>1. ScoreOK(x, p) /\ ClassOf[p] \in Classes
      BY CellFacts DEF BookInv
    <3>2. status[x][ClassOf[p]] # "none" => status'[x][ClassOf[p]] # "none"
      BY <1>4, <3>1
    <3> QED BY <1>3, <3>1, <3>2 DEF ScoreOK
  <2> QED BY <2>1, <2>2
<1>8. NothingTakenBack
  BY <1>3, <1>4 DEF NothingTakenBack
<1>9. B!ShownStays
  BY <1>3, <1>8, ShownStaysIf
<1>10. B!ResultsTold
  <2> SUFFICES ASSUME NEW x \in Exams, NEW p \in Pupils, NEW out,
                      out = (status[x][ClassOf[p]] # "published" /\ status'[x][ClassOf[p]] = "published")
               PROVE  /\ out /\ scores[<<x, p>>] \notin {None, Null} /\ p \in reached => told'[<<x, p>>] = 1
                      /\ told[<<x, p>>] = 0 /\ told'[<<x, p>>] = 1 =>
                            out /\ \E r \in B!ChildGrades(p)' : r.exam = x /\ r.score # Null
    BY DEF B!ResultsTold
  <2>1. /\ told'[<<x, p>>] = IF p \in B!ToTell(x, in[x]) \cap reached THEN 1 ELSE told[<<x, p>>]
        /\ ClassOf[p] \in Classes
    <3>1. PICK c \in B!Cells : c = <<x, p>> /\ c[1] = x /\ c[2] = p
      BY CellFacts
    <3>2. told'[c] = IF c[2] \in B!ToTell(c[1], in[c[1]]) \cap reached THEN 1 ELSE told[c]
      BY <1>3
    <3> QED BY <3>1, <3>2, CellFacts
  <2>2. ClassOf[p] \in in[x] <=> <<x, ClassOf[p]>> \in due
    BY <1>2, <1>5, <2>1
  <2>3. p \in B!ToTell(x, in[x]) <=> scores[<<x, p>>] \notin {None, Null} /\ <<x, ClassOf[p]>> \in due
    BY <2>2 DEF B!ToTell
  <2>4. out <=> <<x, ClassOf[p]>> \in due
    BY <1>4, <1>5, <2>1
  <2>5. ASSUME told[<<x, p>>] = 0, told'[<<x, p>>] = 1
        PROVE  out /\ \E r \in B!ChildGrades(p)' : r.exam = x /\ r.score # Null
    <3>1. /\ p \in reached /\ scores[<<x, p>>] \notin {None, Null} /\ out
          /\ status'[x][ClassOf[p]] = "published"
      <4>1. p \in B!ToTell(x, in[x]) \cap reached
        BY <2>1, <2>5
      <4>2. p \in reached /\ scores[<<x, p>>] \notin {None, Null} /\ <<x, ClassOf[p]>> \in due
        BY <2>3, <4>1
      <4> QED BY <1>4, <2>1, <2>4, <4>2
    <3>2. PICK r : r = B!ResultRow(x, p)'
      OBVIOUS
    <3>3. /\ r.exam = x /\ r.status = "published" /\ r.score = B!ScoreRow(x, p)'.score
      BY <3>1, <3>2 DEF B!ResultRow
    <3>4. r.score # Null
      BY <1>3, <3>1, <3>3 DEF B!ScoreRow
    <3>5. r \in B!TermResults(p)'
      BY <2>1, <3>1, <3>2 DEF B!TermResults, B!Linked
    <3>6. r \in B!ChildGrades(p)'
      BY <1>3, <3>1, <3>3, <3>5 DEF B!ChildGrades, B!PhoneResults
    <3> QED BY <3>1, <3>3, <3>4, <3>6
  <2> QED BY <2>1, <2>3, <2>4, <2>5
<1>11. \A a \in Staff : MarkingOK(a)'
  BY <1>3 DEF BookInv, MarkingOK
<1> QED BY <1>6, <1>7, <1>9, <1>10, <1>11 DEF GoodBook, BookInv

LEMMA BookStep == BookInv /\ [B!Next]_(B!vars) => BookInv' /\ B!ShownStays /\ B!ResultsTold
<1> SUFFICES ASSUME BookInv, [B!Next]_(B!vars) PROVE GoodBook
  BY DEF GoodBook
<1>1. ASSUME NEW a \in Staff, B!Asking(a) \/ B!Answering(a) \/ \E s \in Classes : B!EndAssignment(a, s)
      PROVE  GoodBook
  BY <1>1, AskBookGood, CreateGood, UpdateGood, DeleteBookGood, SaveScoresGood, ScheduleGood, BookElsewhere
     DEF B!Answering
<1>2. ASSUME B!PublishGrade \/ \E s \in Classes : B!PublishSection(s) PROVE GoodBook
  BY <1>2, PublishGood DEF B!PublishGrade, B!PublishSection
<1> QED BY <1>1, <1>2, BookElsewhere DEF B!Next

LEMMA BookInit == B!Init => BookInv
<1> SUFFICES ASSUME B!Init PROVE BookInv
  OBVIOUS
<1>1. \A def \in Definitions : def \in B!Definition
  BY GradesAssumption DEF B!Sensible
<1>2. BookShape
  BY <1>1 DEF B!Init, BookShape
<1>3. ASSUME NEW x \in Exams PROVE ExamOK(x)
  BY DefinitionFacts, <1>1 DEF B!Init, ExamOK
<1>4. ASSUME NEW x \in Exams, NEW p \in Pupils PROVE ScoreOK(x, p)
  <2>1. scores[<<x, p>>] = None /\ audit[<<x, p>>] = <<>>
    BY CellFacts DEF B!Init
  <2> QED BY <2>1 DEF ScoreOK
<1>5. \A a \in Staff : MarkingOK(a)
  BY DEF B!Init, MarkingOK
<1> QED BY <1>2, <1>3, <1>4, <1>5 DEF BookInv

-----------------------------------------------------------------------------
(* No percentage exceeds a hundred *)

LEMMA ResultFacts ==
    ASSUME BookInv, NEW p \in Pupils, NEW r \in B!TermResults(p)
    PROVE  /\ r.max_score \in Nat \ {0} /\ r.score \in ScoreValues
           /\ r.score # Null => r.score <= r.max_score
<1>1. PICK x \in Exams : r = B!ResultRow(x, p) /\ ClassOf[p] \in B!Linked(x)
  BY DEF B!TermResults
<1>2. ExamOK(x) /\ ScoreOK(x, p) /\ <<x, p>> \in B!Cells
  BY CellFacts DEF BookInv
<1>3. exam[x] # None
  BY <1>1, <1>2 DEF ExamOK, B!Linked
<1>4. exam[x] \in B!Definition /\ scores[<<x, p>>] \in ScoreValues \cup {None}
  BY <1>2, <1>3 DEF BookInv, BookShape
<1>5. r.max_score = exam[x].max_score /\ r.score = IF scores[<<x, p>>] = None THEN Null ELSE scores[<<x, p>>]
  BY <1>1 DEF B!ResultRow, B!ScoreRow
<1> QED BY <1>2, <1>4, <1>5, ScoreFacts, DefinitionFacts DEF ScoreOK

LEMMA ResultsFinite ==
    ASSUME NEW p \in Pupils PROVE IsFiniteSet(B!TermResults(p))
<1>1. IsFiniteSet(Exams)
  BY GradesAssumption DEF B!Sensible, B!IsFiniteSet, IsFiniteSet
<1>2. PICK given : given = {y \in Exams : ClassOf[p] \in B!Linked(y)}
  OBVIOUS
<1>3. IsFiniteSet(given)
  BY <1>1, <1>2, FS_Subset
<1>4. PICK f : f = [x \in given |-> B!ResultRow(x, p)]
  OBVIOUS
<1>5. f \in Surjection(given, B!TermResults(p))
  BY <1>2, <1>4 DEF B!TermResults, Surjection
<1> QED BY <1>3, <1>5, FS_Surjection

TotalScored(R) == B!MapThenSumSet(LAMBDA r : r.score, R)

\* What the totals of results are: recursive sums of their scores and maxima.
LEMMA MarksAreTotals ==
    ASSUME NEW S, IsFiniteSet(S)
    PROVE  /\ TotalsOf([T \in SUBSET S |-> TotalScored(T)], [r \in S |-> r.score], S)
           /\ TotalsOf([T \in SUBSET S |-> B!TotalMax(T)], [r \in S |-> r.max_score], S)
<1> DEFINE v == [r \in S |-> r.score]
           w == [r \in S |-> r.max_score]
<1>1. ASSUME NEW T \in SUBSET S PROVE \E h : TotalScored(T) = h[T] /\ IsSum(h, v, T)
  <2> DEFINE E(h) == [s \in SUBSET T |-> IF s = {} THEN 0 ELSE (CHOOSE x \in s : TRUE).score
                                                               + h[s \ {CHOOSE x \in s : TRUE}]]
  <2>1. \A h : IsSum(h, v, T) <=> h = E(h)
    BY DEF IsSum, Next1
  <2>2. TotalScored(T) = (CHOOSE h : h = E(h))[T]
    BY DEF TotalScored, B!MapThenSumSet, B!MapThenFoldSet
  <2>3. PICK g : IsSum(g, v, T)
    BY SumExists, FS_Subset
  <2> HIDE DEF E, v, w
  <2>4. PICK h : h = CHOOSE k : k = E(k)
    OBVIOUS
  <2>5. h = E(h)
    BY <2>1, <2>3, <2>4
  <2> QED BY <2>1, <2>2, <2>4, <2>5
<1>2. ASSUME NEW T \in SUBSET S PROVE \E h : B!TotalMax(T) = h[T] /\ IsSum(h, w, T)
  <2> DEFINE E(h) == [s \in SUBSET T |-> IF s = {} THEN 0 ELSE (CHOOSE x \in s : TRUE).max_score
                                                               + h[s \ {CHOOSE x \in s : TRUE}]]
  <2>1. \A h : IsSum(h, w, T) <=> h = E(h)
    BY DEF IsSum, Next1
  <2>2. B!TotalMax(T) = (CHOOSE h : h = E(h))[T]
    BY DEF B!TotalMax, B!MapThenSumSet, B!MapThenFoldSet
  <2>3. PICK g : IsSum(g, w, T)
    BY SumExists, FS_Subset
  <2> HIDE DEF E, v, w
  <2>4. PICK h : h = CHOOSE k : k = E(k)
    OBVIOUS
  <2>5. h = E(h)
    BY <2>1, <2>3, <2>4
  <2> QED BY <2>1, <2>2, <2>4, <2>5
<1> HIDE DEF v, w
<1> QED BY <1>1, <1>2 DEF TotalsOf, v, w

LEMMA PercentBounded ==
    ASSUME BookInv, NEW p \in Pupils, NEW R \in SUBSET B!TermResults(p),
           NEW percent, percent = B!Percentage(R), percent # Null
    PROVE  percent <= 10000
<1>1. R # {} /\ \A r \in R : r.score # Null
  BY DEF B!Percentage, B!IsComplete
<1>2. PICK few, many, v, w :
         /\ few = [T \in SUBSET R |-> TotalScored(T)] /\ v = [r \in R |-> r.score]
         /\ many = [T \in SUBSET R |-> B!TotalMax(T)] /\ w = [r \in R |-> r.max_score]
  OBVIOUS
<1>3. IsFiniteSet(R)
  BY ResultsFinite, FS_Subset
<1>4. TotalsOf(few, v, R) /\ TotalsOf(many, w, R)
  BY <1>2, <1>3, MarksAreTotals
<1>5. \A r \in R : r.score \in Nat /\ r.max_score \in Nat /\ r.max_score # 0 /\ r.score <= r.max_score
  BY <1>1, ResultFacts, ScoreFacts
<1>6. v \in [R -> Nat] /\ w \in [R -> Nat] /\ \A r \in R : v[r] <= w[r] /\ w[r] # 0
  BY <1>2, <1>5
<1>7. /\ few[R] \in Nat /\ many[R] \in Nat /\ few[R] <= many[R] /\ \A r \in R : w[r] <= many[R]
  BY <1>3, <1>4, <1>6, TotalsGrow
<1>8. {r \in R : r.score # Null} = R
  BY <1>1
<1>9. B!TotalScore(R) = few[R] /\ B!TotalMax(R) = many[R]
  BY <1>2, <1>8 DEF B!TotalScore, TotalScored
<1>10. PICK n \in Nat, t \in Nat : n = few[R] /\ t = many[R] /\ n <= t /\ t # 0
  <2>1. PICK r \in R : w[r] \in Nat /\ w[r] # 0 /\ w[r] <= many[R]
    BY <1>1, <1>6, <1>7
  <2> QED BY <1>7, <2>1
<1>11. percent = (2 * 10000 * n + t) \div (2 * t)
  BY <1>1, <1>9, <1>10 DEF B!Percentage, B!IsComplete
<1>12. PICK y \in Nat : y = 2 * t /\ y > 0
  BY <1>10
<1>13. PICK x \in Nat : x = 2 * 10000 * n + t /\ x < 10001 * y
  BY <1>10, <1>12
<1>14. x \div y <= 10000
  BY <1>12, <1>13
<1> QED BY <1>11, <1>12, <1>13, <1>14

LEMMA BookImplies == BookInv => B!TypeOK /\ B!BookAddsUp
<1> SUFFICES ASSUME BookInv PROVE B!TypeOK /\ B!BookAddsUp
  OBVIOUS
<1>1. B!TypeOK
  <2>1. \A x \in Exams : exam[x] # None => exam[x] \in B!Definition
    BY DEF BookInv, BookShape
  <2>2. \A c \in B!Cells : scores[c] \in Nat \cup {Null, None} /\ told[c] \in 0..1
    BY DEF BookInv, BookShape, ScoreValues
  <2> QED BY <2>1, <2>2 DEF B!TypeOK, BookInv, BookShape, MarkingOK
<1>2. ASSUME NEW x \in Exams, NEW p \in Pupils, scores[<<x, p>>] # None
      PROVE  /\ exam[x] # None /\ \E s \in B!Linked(x) : B!ScoreRow(x, p) \in B!ScoreSheet(x, s)
             /\ scores[<<x, p>>] # Null => scores[<<x, p>>] <= exam[x].max_score
             /\ audit[<<x, p>>][Len(audit[<<x, p>>])][2] = scores[<<x, p>>]
  <2>1. ScoreOK(x, p) /\ ClassOf[p] \in Classes
    BY CellFacts DEF BookInv
  <2>2. ClassOf[p] \in B!Linked(x) /\ B!ScoreRow(x, p) \in B!ScoreSheet(x, ClassOf[p])
    BY <1>2, <2>1 DEF ScoreOK, B!Linked, B!ScoreSheet
  <2> QED BY <1>2, <2>1, <2>2 DEF ScoreOK
<1>3. \A x \in Exams, p \in Pupils : \A i \in 2..Len(audit[<<x, p>>]) :
          audit[<<x, p>>][i][1] = audit[<<x, p>>][i - 1][2]
  BY DEF BookInv, ScoreOK
<1>4. \A p \in Pupils : B!ChildGrades(p) \in SUBSET B!TermResults(p)
  BY DEF B!ChildGrades, B!PhoneResults
<1>5. \A p \in Pupils : B!Percentage(B!ChildGrades(p)) # Null => B!Percentage(B!ChildGrades(p)) <= 10000
  BY <1>4, PercentBounded
<1>6. \A p \in Pupils, a \in Staff : B!ResultsFor(a, p) # {} => B!ChildGrades(p) \subseteq B!ResultsFor(a, p)
  BY <1>4 DEF B!ResultsFor
<1>7. B!BookAddsUp
  BY <1>2, <1>3, <1>5, <1>6 DEF B!BookAddsUp
<1> QED BY <1>1, <1>7

-----------------------------------------------------------------------------
(* The calendar: rows *)

\* A row of an id, column by column.
LEMMA RowIs ==
    ASSUME NEW id \in Y!Ids, NEW r, r = [f \in DOMAIN r |-> r[f]], DOMAIN r = Y!Columns(id),
           \A f \in DOMAIN r : r[f] \in Y!Values[f]
    PROVE  r \in Y!RowsOf(id)
<1>1. /\ Y!Values["start"] = 1..YearDays /\ Y!Values["end"] = 1..Y!OpenEnd
      /\ Y!Values["status"] = Y!Statuses /\ Y!Values["year"] = Years
      /\ Y!Values["number"] = Nat /\ Y!Values["slot"] = Slots
  BY DEF Y!Values
<1>2. CASE id \in Years
  <2>1. DOMAIN r = {"start", "end", "status"}
    BY <1>2, CalendarAssumption DEF Y!Columns, Y!Sensible
  <2>2. r.start \in 1..YearDays /\ r.end \in 1..Y!OpenEnd /\ r.status \in Y!Statuses
    BY <1>1, <2>1
  <2>3. r \in Y!YearRows
    BY <2>1, <2>2 DEF Y!YearRows
  <2> QED BY <1>2, <2>3, CalendarAssumption DEF Y!RowsOf, Y!Sensible
<1>3. CASE id \in Terms
  <2>1. DOMAIN r = {"year", "number", "start", "end", "status"}
    BY <1>3, CalendarAssumption DEF Y!Columns, Y!Sensible
  <2>2. /\ r.year \in Years /\ r.number \in Nat
        /\ r.start \in 1..YearDays /\ r.end \in 1..Y!OpenEnd /\ r.status \in Y!Statuses
    BY <1>1, <2>1
  <2>3. r \in Y!TermRows
    BY <2>1, <2>2 DEF Y!TermRows
  <2> QED BY <1>3, <2>3, CalendarAssumption DEF Y!RowsOf, Y!Sensible
<1>4. CASE id \in Teachings
  <2>1. DOMAIN r = {"slot", "start", "end"}
    BY <1>4, CalendarAssumption DEF Y!Columns, Y!Sensible
  <2>2. r.slot \in Slots /\ r.start \in 1..YearDays /\ r.end \in 1..Y!OpenEnd
    BY <1>1, <2>1
  <2>3. r \in Y!AssignmentRows
    BY <2>1, <2>2 DEF Y!AssignmentRows
  <2> QED BY <1>4, <2>3, CalendarAssumption DEF Y!RowsOf, Y!Sensible
<1> QED BY <1>2, <1>3, <1>4 DEF Y!Ids

LEMMA RowFacts ==
    ASSUME NEW id \in Y!Ids, NEW r \in Y!RowsOf(id)
    PROVE  /\ r = [f \in DOMAIN r |-> r[f]] /\ DOMAIN r = Y!Columns(id)
           /\ \A f \in DOMAIN r : r[f] \in Y!Values[f]
           /\ r \in Y!Rows /\ r # None
           /\ r.start \in Nat /\ r.end \in Nat
           /\ id \in Terms => r.year \in Years
           /\ id \in Teachings => r.slot \in Slots
<1>0. /\ Y!Values["start"] = 1..YearDays /\ Y!Values["end"] = 1..Y!OpenEnd
      /\ Y!Values["status"] = Y!Statuses /\ Y!Values["year"] = Years
      /\ Y!Values["number"] = Nat /\ Y!Values["slot"] = Slots
  BY DEF Y!Values
<1>1. YearDays \in Nat /\ Y!OpenEnd \in Nat /\ 1..YearDays \subseteq Nat /\ 1..Y!OpenEnd \subseteq Nat
  BY CalendarAssumption DEF Y!Sensible, Y!OpenEnd
<1>2. CASE id \in Years
  <2>1. r \in Y!YearRows /\ Y!Columns(id) = {"start", "end", "status"} /\ id \notin Terms /\ id \notin Teachings
    BY <1>2, CalendarAssumption DEF Y!Columns, Y!RowsOf, Y!Sensible
  <2>2. /\ DOMAIN r = Y!Columns(id) /\ r = [f \in DOMAIN r |-> r[f]]
        /\ r.start \in 1..YearDays /\ r.end \in 1..Y!OpenEnd /\ r.status \in Y!Statuses
    BY <2>1 DEF Y!YearRows
  <2>3. r \in Y!Rows /\ r # None
    BY <2>1, CalendarAssumption DEF Y!Rows, Y!Sensible
  <2>4. \A f \in DOMAIN r : r[f] \in Y!Values[f]
    BY <1>0, <2>1, <2>2
  <2> QED BY <1>1, <2>1, <2>2, <2>3, <2>4
<1>3. CASE id \in Terms
  <2>1. /\ r \in Y!TermRows /\ Y!Columns(id) = {"year", "number", "start", "end", "status"}
        /\ id \notin Teachings
    BY <1>3, CalendarAssumption DEF Y!Columns, Y!RowsOf, Y!Sensible
  <2>2. /\ DOMAIN r = Y!Columns(id) /\ r = [f \in DOMAIN r |-> r[f]]
        /\ r.year \in Years /\ r.number \in Nat
        /\ r.start \in 1..YearDays /\ r.end \in 1..Y!OpenEnd /\ r.status \in Y!Statuses
    BY <2>1 DEF Y!TermRows
  <2>3. r \in Y!Rows /\ r # None
    BY <2>1, CalendarAssumption DEF Y!Rows, Y!Sensible
  <2>4. \A f \in DOMAIN r : r[f] \in Y!Values[f]
    BY <1>0, <2>1, <2>2
  <2> QED BY <1>1, <2>1, <2>2, <2>3, <2>4
<1>4. CASE id \in Teachings
  <2>1. /\ r \in Y!AssignmentRows /\ Y!Columns(id) = {"slot", "start", "end"}
        /\ id \notin Terms
    BY <1>4, CalendarAssumption DEF Y!Columns, Y!RowsOf, Y!Sensible
  <2>2. /\ DOMAIN r = Y!Columns(id) /\ r = [f \in DOMAIN r |-> r[f]]
        /\ r.slot \in Slots /\ r.start \in 1..YearDays /\ r.end \in 1..Y!OpenEnd
    BY <2>1 DEF Y!AssignmentRows
  <2>3. r \in Y!Rows /\ r # None
    BY <2>1, CalendarAssumption DEF Y!Rows, Y!Sensible
  <2>4. \A f \in DOMAIN r : r[f] \in Y!Values[f]
    BY <1>0, <2>1, <2>2
  <2> QED BY <1>1, <2>1, <2>2, <2>3, <2>4
<1> QED BY <1>2, <1>3, <1>4 DEF Y!Ids

LEMMA MergedRow ==
    ASSUME NEW id \in Y!Ids, NEW seen \in Y!RowsOf(id), NEW body, Y!IsBody(body),
           DOMAIN body \subseteq Y!Columns(id)
    PROVE  Y!Merged(body, seen) \in Y!RowsOf(id)
<1>1. PICK m : m = [f \in DOMAIN seen |-> IF f \in DOMAIN body THEN body[f] ELSE seen[f]]
  OBVIOUS
<1>2. m = [f \in DOMAIN m |-> m[f]] /\ DOMAIN m = Y!Columns(id)
  BY <1>1, RowFacts
<1>3. \A f \in DOMAIN m : m[f] \in Y!Values[f]
  BY <1>1, RowFacts DEF Y!IsBody
<1>4. m \in Y!RowsOf(id)
  BY <1>2, <1>3, RowIs
<1> QED BY <1>1, <1>4 DEF Y!Merged

-----------------------------------------------------------------------------
(* The invariant *)

RowsOK ==
    /\ row \in [Y!Ids -> Y!Rows \cup {None}]
    /\ \A id \in Y!Ids : row[id] # None => row[id] \in Y!RowsOf(id)

\* What is asked for holds as long as nothing was written since it was read.
AskedOK(a) ==
    request[a] # None =>
        /\ request[a].id \in Y!Ids
        /\ request[a].saves \in Nat /\ request[a].saves <= saves
        /\ request[a].op = "save" =>
              /\ request[a].new \in Y!RowsOf(request[a].id)
              /\ request[a].saves = saves => Y!Valid(request[a].id, request[a].new)

CalendarInv ==
    /\ plan \in Plans
    /\ saves \in Nat /\ raced \in BOOLEAN
    /\ RowsOK
    /\ Y!OneIsActive(row) /\ (~raced => Y!Orderly(row))
    /\ DOMAIN request = Editors
    /\ \A a \in Editors : AskedOK(a)

\* The rows as they are are the rows of the table.
LEMMA SameRows ==
    /\ \A ids : Y!There(ids) = Y!Held(row, ids)
    /\ \A y : Y!TermsOf(y) = Y!TermsIn(row, y)
  BY DEF Y!There, Y!Held, Y!TermsOf, Y!TermsIn

LEMMA ValidStays ==
    ASSUME row' = row, NEW id, NEW new
    PROVE  Y!Valid(id, new) => Y!Valid(id, new)'
  BY DEF Y!Valid, Y!ValidYear, Y!ValidTerm, Y!ValidAssignment, Y!There, Y!TermsOf, Y!Teaching,
         Y!Within, Y!Overlap

\* A request of somebody else, as long as no row is written.
LEMMA AskedStays ==
    ASSUME NEW b, AskedOK(b), request'[b] = request[b], UNCHANGED <<row, saves>>
    PROVE  AskedOK(b)'
<1>1. PICK q : q = request[b] /\ q = request'[b]
  OBVIOUS
<1>2. Y!Valid(q.id, q.new) => Y!Valid(q.id, q.new)'
  BY ValidStays
<1>3. q # None =>
         /\ q.id \in Y!Ids /\ q.saves \in Nat /\ q.saves <= saves
         /\ q.op = "save" => q.new \in Y!RowsOf(q.id) /\ (q.saves = saves => Y!Valid(q.id, q.new))
  BY <1>1 DEF AskedOK
<1> QED BY <1>1, <1>2, <1>3 DEF AskedOK

LEMMA AskGood ==
    ASSUME CalendarInv, NEW a \in Editors, NEW id \in Y!Ids, Y!Asking(a, id)
    PROVE  CalendarInv'
<1>1. PICK op, new : /\ Y!Ask(a, id, op, new)
                     /\ op = "save" => new \in Y!RowsOf(id) /\ Y!Valid(id, new)
  <2>1. ASSUME NEW body, Y!IsBody(body), Y!AskUpdate(a, id, body)
        PROVE  \E new : Y!Ask(a, id, "save", new) /\ new \in Y!RowsOf(id) /\ Y!Valid(id, new)
    <3>1. row[id] \in Y!RowsOf(id)
      BY <2>1 DEF Y!AskUpdate, CalendarInv, RowsOK
    <3>2. Y!Merged(body, row[id]) \in Y!RowsOf(id)
      BY <2>1, <3>1, MergedRow DEF Y!AskUpdate
    <3> QED BY <2>1, <3>2 DEF Y!AskUpdate
  <2>2. CASE \E body \in plan.bodies : Y!AskCreate(a, id, body)
    <3>1. PICK body \in plan.bodies : Y!AskCreate(a, id, body)
      BY <2>2
    <3>2. Y!IsBody(body)
      BY <3>1, CalendarAssumption DEF Y!Sensible, CalendarInv
    <3>3. body \in Y!RowsOf(id)
      BY <3>1, <3>2, RowIs DEF Y!AskCreate, Y!IsBody
    <3> QED BY <3>1, <3>3 DEF Y!AskCreate
  <2>3. CASE \E body \in plan.bodies : Y!AskUpdate(a, id, body)
    <3>1. PICK body \in plan.bodies : Y!AskUpdate(a, id, body)
      BY <2>3
    <3>2. Y!IsBody(body)
      BY <3>1, CalendarAssumption DEF Y!Sensible, CalendarInv
    <3> QED BY <2>1, <3>1, <3>2
  <2>4. ASSUME NEW day \in 1..Y!OpenEnd PROVE \E body : body = [end |-> day] /\ Y!IsBody(body)
    <3>1. PICK body : body = [end |-> day]
      OBVIOUS
    <3>2. body = [f \in DOMAIN body |-> body[f]] /\ DOMAIN body = {"end"} /\ body["end"] = day
      BY <3>1
    <3>3. Y!Values["end"] = 1..Y!OpenEnd /\ "end" \in DOMAIN Y!Values
      BY DEF Y!Values
    <3> QED BY <3>1, <3>2, <3>3 DEF Y!IsBody
  <2>5. 1..YearDays \subseteq 1..Y!OpenEnd /\ Y!OpenEnd \in 1..Y!OpenEnd
    <3>1. YearDays \in Nat /\ Y!OpenEnd = YearDays + 1
      BY CalendarAssumption DEF Y!Sensible, Y!OpenEnd
    <3> QED BY <3>1
  <2>6. CASE \E day \in plan.ends : Y!AskEnd(a, id, day)
    <3>1. PICK day \in plan.ends : Y!AskEnd(a, id, day)
      BY <2>6
    <3>2. day \in 1..Y!OpenEnd
      BY <2>5, CalendarAssumption DEF Y!Sensible, CalendarInv
    <3>3. PICK body : body = [end |-> day] /\ Y!IsBody(body)
      BY <2>4, <3>2
    <3>4. Y!AskUpdate(a, id, body)
      BY <3>1, <3>3 DEF Y!AskEnd
    <3> QED BY <2>1, <3>3, <3>4
  <2>7. CASE Y!AskReopen(a, id)
    <3>1. PICK body : body = [end |-> Y!OpenEnd] /\ Y!IsBody(body)
      BY <2>4, <2>5
    <3>2. Y!AskUpdate(a, id, body)
      BY <2>7, <3>1 DEF Y!AskReopen
    <3> QED BY <2>1, <3>1, <3>2
  <2>8. CASE Y!AskDelete(a, id)
    BY <2>8 DEF Y!AskDelete
  <2> QED BY <2>2, <2>3, <2>6, <2>7, <2>8 DEF Y!Asking
<1>2. PICK r : r = [id |-> id, op |-> op, new |-> new, saves |-> saves]
  OBVIOUS
<1>3. r.id = id /\ r.op = op /\ r.new = new /\ r.saves = saves
  BY <1>2
<1>4. /\ request' = [request EXCEPT ![a] = r]
      /\ UNCHANGED <<row, saves, raced, plan>>
  BY <1>1, <1>2 DEF Y!Ask
<1>5. DOMAIN request' = Editors /\ request'[a] = r /\ \A b \in Editors : b # a => request'[b] = request[b]
  BY <1>4 DEF CalendarInv
<1>6. ASSUME NEW b \in Editors PROVE AskedOK(b)'
  <2>1. CASE b = a
    <3>1. r.op = "save" => r.new \in Y!RowsOf(r.id) /\ Y!Valid(r.id, r.new)
      BY <1>1, <1>3
    <3>2. saves \in Nat /\ saves' = saves
      BY <1>4 DEF CalendarInv
    <3>3. r.op = "save" => r.new \in Y!RowsOf(r.id) /\ Y!Valid(r.id, r.new)'
      BY <1>4, <3>1, ValidStays
    <3> QED BY <1>3, <1>5, <2>1, <3>2, <3>3 DEF AskedOK
  <2>2. CASE b # a
    BY <1>4, <1>5, <2>2, AskedStays DEF CalendarInv
  <2> QED BY <2>1, <2>2
<1> QED BY <1>4, <1>5, <1>6 DEF CalendarInv, RowsOK

\* A row is written: whoever was overtaken is found out, and the table is in
\* order if nobody was.
LEMMA ChangedRows ==
    ASSUME CalendarInv, NEW a \in Editors, request[a] # None,
           request' = [request EXCEPT ![a] = None], UNCHANGED plan,
           saves' = saves + 1, raced' \in BOOLEAN, RowsOK', Y!OneIsActive(row'),
           ~raced' => Y!Orderly(row')
    PROVE  CalendarInv'
<1>1. DOMAIN request' = Editors /\ request'[a] = None /\ \A b \in Editors : b # a => request'[b] = request[b]
  BY DEF CalendarInv
<1>2. saves \in Nat /\ saves' \in Nat
  BY DEF CalendarInv
<1>3. ASSUME NEW b \in Editors PROVE AskedOK(b)'
  <2>1. CASE b = a
    BY <1>1, <2>1 DEF AskedOK
  <2>2. CASE b # a
    <3>1. AskedOK(b) /\ request'[b] = request[b]
      BY <1>1, <2>2 DEF CalendarInv
    <3>2. request[b] # None => request[b].saves \in Nat /\ request[b].saves <= saves' /\ request[b].saves # saves'
      BY <1>2, <3>1 DEF AskedOK
    <3> QED BY <3>1, <3>2 DEF AskedOK
  <2> QED BY <2>1, <2>2
<1> QED BY <1>1, <1>2, <1>3 DEF CalendarInv

\* A row of the table after another was written or taken away.
LEMMA OtherRows ==
    ASSUME RowsOK, NEW id \in Y!Ids, NEW new, new \in Y!RowsOf(id) \cup {None},
           row' = [row EXCEPT ![id] = new]
    PROVE  /\ row'[id] = new /\ \A i \in Y!Ids : i # id => row'[i] = row[i]
           /\ RowsOK'
<1>1. new # None => new \in Y!Rows
  BY RowFacts
<1> QED BY <1>1 DEF RowsOK

LEMMA SaveYear ==
    ASSUME CalendarInv, NEW id \in Years, NEW new \in Y!RowsOf(id), Y!YearFits(id, new),
           row' = [row EXCEPT ![id] = new]
    PROVE  /\ Y!OneIsActive(row')
           /\ Y!Orderly(row) /\ Y!ValidYear(id, new) => Y!Orderly(row')
<1>1. id \in Y!Ids /\ id \notin Terms /\ id \notin Teachings
  BY CalendarAssumption DEF Y!Sensible, Y!Ids
<1>2. row'[id] = new /\ \A i \in Y!Ids : i # id => row'[i] = row[i]
  BY <1>1, OtherRows DEF CalendarInv
<1>3. /\ new # None /\ \A i \in Terms \cup Teachings : row'[i] = row[i]
      /\ \A t \in Y!Held(row, Terms) : row[t].year \in Years
  <2>1. new # None
    BY <1>1, RowFacts
  <2>2. \A i \in Terms \cup Teachings : row'[i] = row[i]
    BY <1>1, <1>2 DEF Y!Ids
  <2>3. \A t \in Y!Held(row, Terms) : row[t].year \in Years
    BY RowFacts DEF CalendarInv, RowsOK, Y!Held, Y!Ids
  <2> QED BY <2>1, <2>2, <2>3
<1>4. /\ Y!Held(row', Terms) = Y!Held(row, Terms) /\ Y!Held(row', Teachings) = Y!Held(row, Teachings)
      /\ \A y : Y!TermsIn(row', y) = Y!TermsIn(row, y)
  BY <1>3 DEF Y!Held, Y!TermsIn
<1>5. Y!OneIsActive(row')
  <2>1. Y!AtMostOne(Y!ActiveIn(row', Years))
    <3> SUFFICES ASSUME NEW i \in Y!ActiveIn(row', Years), NEW j \in Y!ActiveIn(row', Years) PROVE i = j
      BY DEF Y!AtMostOne
    <3>1. CASE i # id /\ j # id
      <4>1. i \in Y!ActiveIn(row, Years) /\ j \in Y!ActiveIn(row, Years)
        BY <1>2, <3>1 DEF Y!ActiveIn, Y!Held, Y!Ids
      <4> QED BY <4>1 DEF CalendarInv, Y!OneIsActive, Y!AtMostOne
    <3>2. ASSUME NEW k \in Y!ActiveIn(row', Years), NEW l \in Y!ActiveIn(row', Years), k = id, l # id
          PROVE  FALSE
      <4>1. l \in Y!OthersActive(id, Years)
        BY <1>2, <3>2 DEF Y!OthersActive, Y!There, Y!ActiveIn, Y!Held, Y!Ids
      <4>2. new.status = "active"
        BY <1>2, <3>2 DEF Y!ActiveIn
      <4> QED BY <4>1, <4>2 DEF Y!YearFits
    <3> QED BY <3>1, <3>2
  <2>2. ASSUME NEW y \in Years PROVE Y!ActiveIn(row', Y!TermsIn(row', y)) = Y!ActiveIn(row, Y!TermsIn(row, y))
    BY <1>3, <1>4 DEF Y!ActiveIn, Y!Held, Y!TermsIn
  <2>3. ASSUME NEW y \in Y!Held(row', Years) PROVE Y!AtMostOne(Y!ActiveIn(row', Y!TermsIn(row', y)))
    <3>1. CASE row[y] # None
      BY <2>2, <2>3, <3>1 DEF CalendarInv, Y!OneIsActive, Y!Held
    <3>2. CASE row[y] = None
      <4>1. Y!TermsIn(row, y) = {}
        BY <3>2 DEF CalendarInv, Y!OneIsActive, Y!TermsIn
      <4> QED BY <1>4, <4>1 DEF Y!ActiveIn, Y!Held, Y!AtMostOne
    <3> QED BY <3>1, <3>2
  <2>4. \A t \in Y!Held(row', Terms) : row'[row'[t].year] # None
    BY <1>2, <1>3, <1>4 DEF CalendarInv, Y!OneIsActive, Y!Held, Y!Ids
  <2> QED BY <2>1, <2>3, <2>4 DEF Y!OneIsActive
<1>6. ASSUME Y!Orderly(row), Y!ValidYear(id, new) PROVE Y!Orderly(row')
  <2>1. \A t \in Y!Held(row', Terms) : Y!Within(row'[t], row'[row'[t].year])
    <3> SUFFICES ASSUME NEW t \in Y!Held(row', Terms) PROVE Y!Within(row'[t], row'[row'[t].year])
      OBVIOUS
    <3>1. t \in Y!Held(row, Terms) /\ row'[t] = row[t]
      BY <1>3, <1>4 DEF Y!Held
    <3>2. CASE row[t].year = id
      BY <1>2, <1>6, <3>1, <3>2 DEF Y!ValidYear, Y!There, Y!Held
    <3>3. CASE row[t].year # id
      BY <1>2, <1>3, <1>6, <3>1, <3>3 DEF Y!Orderly, Y!Ids
    <3> QED BY <3>2, <3>3
  <2>2. \A y \in Years : \A t, u \in Y!TermsIn(row', y) : t = u \/ ~Y!Overlap(row'[t], row'[u])
    BY <1>3, <1>4, <1>6 DEF Y!Orderly, Y!TermsIn, Y!Held
  <2>3. \A s, day : Y!TeachingOn(row', s, day) = Y!TeachingOn(row, s, day)
    BY <1>3, <1>4 DEF Y!TeachingOn, Y!Held
  <2> QED BY <1>6, <2>1, <2>2, <2>3 DEF Y!Orderly
<1> QED BY <1>5, <1>6

LEMMA SaveTerm ==
    ASSUME CalendarInv, NEW id \in Terms, NEW new \in Y!RowsOf(id), Y!TermFits(id, new),
           row' = [row EXCEPT ![id] = new]
    PROVE  /\ Y!OneIsActive(row')
           /\ Y!Orderly(row) /\ Y!ValidTerm(id, new) => Y!Orderly(row')
<1>1. id \in Y!Ids /\ id \notin Years /\ id \notin Teachings
  BY CalendarAssumption DEF Y!Sensible, Y!Ids
<1>2. row'[id] = new /\ \A i \in Y!Ids : i # id => row'[i] = row[i]
  BY <1>1, OtherRows DEF CalendarInv
<1>3. /\ new # None /\ new.year \in Years /\ new.start \in Nat /\ new.end \in Nat
      /\ \A i \in Years \cup Teachings : row'[i] = row[i]
      /\ \A t \in Y!Held(row, Terms) : /\ row[t].year \in Years
                                      /\ row[t].start \in Nat /\ row[t].end \in Nat
  <2>1. new # None /\ new.year \in Years /\ new.start \in Nat /\ new.end \in Nat
    BY <1>1, RowFacts
  <2>2. \A i \in Years \cup Teachings : row'[i] = row[i]
    BY <1>1, <1>2 DEF Y!Ids
  <2>3. \A t \in Y!Held(row, Terms) : /\ row[t].year \in Years
                                     /\ row[t].start \in Nat /\ row[t].end \in Nat
    BY RowFacts DEF CalendarInv, RowsOK, Y!Held, Y!Ids
  <2> QED BY <2>1, <2>2, <2>3
<1>4. /\ Y!Held(row', Years) = Y!Held(row, Years) /\ Y!Held(row', Teachings) = Y!Held(row, Teachings)
      /\ \A t \in Y!Held(row', Terms) : t = id \/ (t \in Y!Held(row, Terms) /\ row'[t] = row[t])
  BY <1>2, <1>3 DEF Y!Held, Y!Ids
<1>5. ASSUME NEW y, NEW t \in Y!TermsIn(row', y), t # id
      PROVE  t \in Y!TermsIn(row, y) /\ row'[t] = row[t]
  BY <1>4, <1>5 DEF Y!TermsIn
<1>6. Y!OneIsActive(row')
  <2>1. Y!ActiveIn(row', Years) = Y!ActiveIn(row, Years)
    BY <1>3, <1>4 DEF Y!ActiveIn, Y!Held
  <2>2. ASSUME NEW y \in Y!Held(row', Years) PROVE Y!AtMostOne(Y!ActiveIn(row', Y!TermsIn(row', y)))
    <3> SUFFICES ASSUME NEW i \in Y!ActiveIn(row', Y!TermsIn(row', y)),
                        NEW j \in Y!ActiveIn(row', Y!TermsIn(row', y))
                 PROVE  i = j
      BY DEF Y!AtMostOne
    <3>0. /\ i \in Y!TermsIn(row', y) /\ row'[i] # None /\ row'[i].status = "active"
          /\ j \in Y!TermsIn(row', y) /\ row'[j] # None /\ row'[j].status = "active"
      BY DEF Y!ActiveIn, Y!Held
    <3>1. CASE i # id /\ j # id
      <4>1. i \in Y!ActiveIn(row, Y!TermsIn(row, y)) /\ j \in Y!ActiveIn(row, Y!TermsIn(row, y))
        BY <1>5, <3>0, <3>1 DEF Y!ActiveIn, Y!Held
      <4>2. y \in Y!Held(row, Years)
        BY <1>4
      <4> QED BY <4>1, <4>2 DEF CalendarInv, Y!OneIsActive, Y!AtMostOne
    <3>2. ASSUME NEW k \in Y!TermsIn(row', y), NEW l \in Y!TermsIn(row', y), k = id, l # id,
                 row'[k].status = "active", row'[l] # None, row'[l].status = "active"
          PROVE  FALSE
      <4>1. new.year = y /\ new.status = "active"
        BY <1>2, <3>2 DEF Y!TermsIn
      <4>2. l \in Y!TermsIn(row, y) /\ row'[l] = row[l]
        BY <1>5, <3>2
      <4>3. l \in Y!OthersActive(id, Y!TermsOf(new.year))
        BY <3>2, <4>1, <4>2, SameRows DEF Y!OthersActive, Y!There
      <4> QED BY <4>1, <4>3 DEF Y!TermFits
    <3> QED BY <3>0, <3>1, <3>2
  <2>3. ASSUME NEW t \in Y!Held(row', Terms) PROVE row'[row'[t].year] # None
    <3>1. CASE t = id
      <4>1. row'[t].year = new.year /\ row[new.year] # None
        BY <1>2, <3>1 DEF Y!TermFits
      <4> QED BY <1>3, <4>1
    <3>2. CASE t # id
      <4>1. t \in Y!Held(row, Terms) /\ row'[t] = row[t]
        BY <1>4, <3>2
      <4>2. row[row[t].year] # None /\ row[t].year \in Years
        BY <1>3, <4>1 DEF CalendarInv, Y!OneIsActive
      <4> QED BY <1>3, <4>1, <4>2
    <3> QED BY <3>1, <3>2
  <2>4. Y!AtMostOne(Y!ActiveIn(row', Years))
    BY <2>1 DEF CalendarInv, Y!OneIsActive
  <2> QED BY <2>2, <2>3, <2>4 DEF Y!OneIsActive
<1>7. ASSUME Y!Orderly(row), Y!ValidTerm(id, new) PROVE Y!Orderly(row')
  <2>1. ASSUME NEW t \in Y!Held(row', Terms) PROVE Y!Within(row'[t], row'[row'[t].year])
    <3>1. CASE t = id
      BY <1>2, <1>3, <1>7, <3>1 DEF Y!ValidTerm
    <3>2. CASE t # id
      <4>1. t \in Y!Held(row, Terms) /\ row'[t] = row[t]
        BY <1>4, <3>2
      <4>2. Y!Within(row[t], row[row[t].year]) /\ row[t].year \in Years
        BY <1>3, <1>7, <4>1 DEF Y!Orderly
      <4> QED BY <1>3, <4>1, <4>2
    <3> QED BY <3>1, <3>2
  <2>2. ASSUME NEW y \in Years, NEW t \in Y!TermsIn(row', y), NEW u \in Y!TermsIn(row', y), t # u
        PROVE  ~Y!Overlap(row'[t], row'[u])
    <3>1. CASE t # id /\ u # id
      <4>1. t \in Y!TermsIn(row, y) /\ row'[t] = row[t] /\ u \in Y!TermsIn(row, y) /\ row'[u] = row[u]
        BY <1>5, <3>1
      <4> QED BY <1>7, <2>2, <4>1 DEF Y!Orderly
    <3>2. ASSUME NEW l \in Y!TermsIn(row', y), l # id, row'[id].year = y
          PROVE  ~Y!Overlap(new, row'[l]) /\ row'[l].start \in Nat /\ row'[l].end \in Nat
      <4>1. l \in Y!TermsIn(row, y) /\ row'[l] = row[l] /\ new.year = y
        BY <1>2, <1>5, <3>2
      <4>2. ~Y!Overlap(new, row[l])
        BY <1>7, <3>2, <4>1, SameRows DEF Y!ValidTerm
      <4> QED BY <1>3, <4>1, <4>2 DEF Y!TermsIn
    <3>3. CASE t = id
      <4>1. row'[id].year = y
        BY <3>3 DEF Y!TermsIn
      <4> QED BY <1>2, <2>2, <3>2, <3>3, <4>1
    <3>4. CASE u = id
      <4>1. row'[id].year = y
        BY <3>4 DEF Y!TermsIn
      <4>2. ~Y!Overlap(new, row'[t]) /\ row'[t].start \in Nat /\ row'[t].end \in Nat
        BY <2>2, <3>2, <3>4, <4>1
      <4> QED BY <1>2, <1>3, <3>4, <4>2 DEF Y!Overlap
    <3> QED BY <3>1, <3>3, <3>4
  <2>3. ASSUME NEW s, NEW day PROVE Y!TeachingOn(row', s, day) = Y!TeachingOn(row, s, day)
    BY <1>3, <1>4 DEF Y!TeachingOn, Y!Held
  <2> QED BY <1>7, <2>1, <2>2, <2>3 DEF Y!Orderly
<1> QED BY <1>6, <1>7

LEMMA SaveAssignment ==
    ASSUME CalendarInv, NEW id \in Teachings, NEW new \in Y!RowsOf(id),
           row' = [row EXCEPT ![id] = new]
    PROVE  /\ Y!OneIsActive(row')
           /\ Y!Orderly(row) /\ Y!ValidAssignment(id, new) => Y!Orderly(row')
<1>1. id \in Y!Ids /\ id \notin Years /\ id \notin Terms
  BY CalendarAssumption DEF Y!Sensible, Y!Ids
<1>2. row'[id] = new /\ \A i \in Y!Ids : i # id => row'[i] = row[i]
  BY <1>1, OtherRows DEF CalendarInv
<1>3. /\ new # None /\ new.start \in Nat /\ new.end \in Nat
      /\ \A i \in Years \cup Terms : row'[i] = row[i]
      /\ \A t \in Y!Held(row, Terms) : row[t].year \in Years
      /\ \A b \in Y!Held(row, Teachings) : row[b].start \in Nat /\ row[b].end \in Nat
  <2>1. new # None /\ new.start \in Nat /\ new.end \in Nat
    BY <1>1, RowFacts
  <2>2. \A i \in Years \cup Terms : row'[i] = row[i]
    BY <1>1, <1>2 DEF Y!Ids
  <2>3. \A t \in Y!Held(row, Terms) : row[t].year \in Years
    BY RowFacts DEF CalendarInv, RowsOK, Y!Held, Y!Ids
  <2>4. \A b \in Y!Held(row, Teachings) : row[b].start \in Nat /\ row[b].end \in Nat
    BY RowFacts DEF CalendarInv, RowsOK, Y!Held, Y!Ids
  <2> QED BY <2>1, <2>2, <2>3, <2>4
<1>4. /\ Y!Held(row', Years) = Y!Held(row, Years) /\ Y!Held(row', Terms) = Y!Held(row, Terms)
      /\ \A y : Y!TermsIn(row', y) = Y!TermsIn(row, y)
  BY <1>3 DEF Y!Held, Y!TermsIn
<1>5. Y!OneIsActive(row')
  <2>1. Y!ActiveIn(row', Years) = Y!ActiveIn(row, Years)
    BY <1>3 DEF Y!ActiveIn, Y!Held
  <2>2. ASSUME NEW y PROVE Y!ActiveIn(row', Y!TermsIn(row', y)) = Y!ActiveIn(row, Y!TermsIn(row, y))
    BY <1>3, <1>4 DEF Y!ActiveIn, Y!Held, Y!TermsIn
  <2>3. \A t \in Y!Held(row', Terms) : row'[row'[t].year] # None
    BY <1>3, <1>4 DEF CalendarInv, Y!OneIsActive, Y!Held
  <2> QED BY <1>4, <2>1, <2>2, <2>3 DEF CalendarInv, Y!OneIsActive
<1>6. ASSUME Y!Orderly(row), Y!ValidAssignment(id, new) PROVE Y!Orderly(row')
  <2>1. \A t \in Y!Held(row', Terms) : Y!Within(row'[t], row'[row'[t].year])
    BY <1>3, <1>4, <1>6 DEF Y!Orderly, Y!Held
  <2>2. \A y \in Years : \A t, u \in Y!TermsIn(row', y) : t = u \/ ~Y!Overlap(row'[t], row'[u])
    BY <1>3, <1>4, <1>6 DEF Y!Orderly, Y!TermsIn, Y!Held
  <2>3. ASSUME NEW s \in Slots, NEW day \in 1..YearDays PROVE Y!AtMostOne(Y!TeachingOn(row', s, day))
    <3> SUFFICES ASSUME NEW i \in Y!TeachingOn(row', s, day), NEW j \in Y!TeachingOn(row', s, day)
                 PROVE  i = j
      BY DEF Y!AtMostOne
    <3>1. ASSUME NEW k \in Y!TeachingOn(row', s, day), k # id
          PROVE  k \in Y!TeachingOn(row, s, day) /\ row'[k] = row[k]
      BY <1>2, <3>1 DEF Y!TeachingOn, Y!Held, Y!Ids
    <3>2. CASE i # id /\ j # id
      BY <1>6, <3>1, <3>2 DEF Y!Orderly, Y!AtMostOne
    <3>3. ASSUME NEW k \in Y!TeachingOn(row', s, day), NEW l \in Y!TeachingOn(row', s, day), k = id, l # id
          PROVE  FALSE
      <4>1. new.slot = s /\ new.start <= day /\ day <= new.end
        BY <1>2, <3>3 DEF Y!TeachingOn
      <4>2. l \in Y!TeachingOn(row, s, day)
        BY <3>1, <3>3
      <4>3. /\ l \in Y!Teaching(s) /\ row[l].start <= day /\ day <= row[l].end
            /\ row[l].start \in Nat /\ row[l].end \in Nat
        BY <1>3, <4>2, SameRows DEF Y!TeachingOn, Y!Teaching
      <4>4. ~Y!Overlap(new, row[l])
        BY <1>6, <3>3, <4>1, <4>3 DEF Y!ValidAssignment
      <4>5. day \in Nat
        BY CalendarAssumption DEF Y!Sensible
      <4>6. new.start <= row[l].end /\ row[l].start <= new.end
        BY <1>3, <4>1, <4>3, <4>5
      <4> QED BY <4>4, <4>6 DEF Y!Overlap
    <3> QED BY <3>2, <3>3
  <2> QED BY <2>1, <2>2, <2>3 DEF Y!Orderly
<1> QED BY <1>5, <1>6

LEMMA SaveGood ==
    ASSUME CalendarInv, NEW a \in Editors, Y!Save(a)
    PROVE  CalendarInv'
<1>1. PICK r : r = request[a]
  OBVIOUS
<1>2. /\ r # None /\ r.op = "save" /\ r.id \in Y!Ids /\ r.new \in Y!RowsOf(r.id)
      /\ r.saves = saves => Y!Valid(r.id, r.new)
  BY <1>1 DEF Y!Save, CalendarInv, AskedOK
<1>3. request' = [request EXCEPT ![a] = None] /\ plan' = plan
  BY DEF Y!Save
<1>4. PICK id, new : id = r.id /\ new = r.new
  OBVIOUS
<1>5. CASE ~Y!Fits(id, new)
  <2>1. UNCHANGED <<row, saves, raced>>
    BY <1>1, <1>4, <1>5 DEF Y!Save
  <2>2. DOMAIN request' = Editors /\ request'[a] = None /\ \A b \in Editors : b # a => request'[b] = request[b]
    BY <1>3 DEF CalendarInv
  <2>3. ASSUME NEW b \in Editors PROVE AskedOK(b)'
    <3>1. CASE b = a
      BY <2>2, <3>1 DEF AskedOK
    <3>2. CASE b # a
      BY <2>1, <2>2, <3>2, AskedStays DEF CalendarInv
    <3> QED BY <3>1, <3>2
  <2> QED BY <1>3, <2>1, <2>2, <2>3 DEF CalendarInv, RowsOK
<1>6. CASE Y!Fits(id, new)
  <2>1. /\ row' = [row EXCEPT ![id] = new] /\ saves' = saves + 1
        /\ raced' = (raced \/ r.saves # saves)
    BY <1>1, <1>4, <1>6 DEF Y!Save
  <2>2. RowsOK'
    BY <1>2, <1>4, <2>1, OtherRows DEF CalendarInv
  <2>3. raced' \in BOOLEAN
    BY <2>1
  <2>4. Y!OneIsActive(row') /\ (Y!Orderly(row) /\ Y!Valid(id, new) => Y!Orderly(row'))
    <3>1. CASE id \in Years
      <4>1. Y!YearFits(id, new) /\ (Y!Valid(id, new) => Y!ValidYear(id, new))
        BY <1>6, <3>1, CalendarAssumption DEF Y!Fits, Y!Valid, Y!Sensible
      <4> QED BY <1>2, <1>4, <2>1, <3>1, <4>1, SaveYear
    <3>2. CASE id \in Terms
      <4>1. Y!TermFits(id, new) /\ (Y!Valid(id, new) => Y!ValidTerm(id, new))
        BY <1>6, <3>2, CalendarAssumption DEF Y!Fits, Y!Valid, Y!Sensible
      <4> QED BY <1>2, <1>4, <2>1, <3>2, <4>1, SaveTerm
    <3>3. CASE id \in Teachings
      <4>1. Y!Valid(id, new) => Y!ValidAssignment(id, new)
        BY <3>3, CalendarAssumption DEF Y!Valid, Y!Sensible
      <4> QED BY <1>2, <1>4, <2>1, <3>3, <4>1, SaveAssignment
    <3> QED BY <1>2, <1>4, <3>1, <3>2, <3>3 DEF Y!Ids
  <2>5. ~raced' => Y!Orderly(row')
    BY <1>2, <1>4, <2>1, <2>4 DEF CalendarInv
  <2> QED BY <1>1, <1>2, <1>3, <2>1, <2>2, <2>3, <2>4, <2>5, ChangedRows
<1> QED BY <1>5, <1>6

LEMMA DeleteGood ==
    ASSUME CalendarInv, NEW a \in Editors, Y!Delete(a)
    PROVE  CalendarInv'
<1>1. PICK id : /\ id = request[a].id /\ id \in Y!Ids /\ request[a] # None
  BY DEF Y!Delete, CalendarInv, AskedOK
<1>2. request' = [request EXCEPT ![a] = None] /\ plan' = plan /\ raced' = raced
  BY DEF Y!Delete
<1>3. CASE Y!Protected(id)
  <2>1. UNCHANGED <<row, saves, raced>>
    BY <1>1, <1>3 DEF Y!Delete
  <2>2. DOMAIN request' = Editors /\ request'[a] = None /\ \A b \in Editors : b # a => request'[b] = request[b]
    BY <1>2 DEF CalendarInv
  <2>3. ASSUME NEW b \in Editors PROVE AskedOK(b)'
    <3>1. CASE b = a
      BY <2>2, <3>1 DEF AskedOK
    <3>2. CASE b # a
      BY <2>1, <2>2, <3>2, AskedStays DEF CalendarInv
    <3> QED BY <3>1, <3>2
  <2> QED BY <1>2, <2>1, <2>2, <2>3 DEF CalendarInv, RowsOK
<1>4. CASE ~Y!Protected(id)
  <2>1. row' = [row EXCEPT ![id] = None] /\ saves' = saves + 1
    BY <1>1, <1>4 DEF Y!Delete
  <2>2. /\ RowsOK' /\ row'[id] = None
        /\ \A i \in Y!Ids : i # id => row'[i] = row[i]
    BY <1>1, <2>1, OtherRows DEF CalendarInv
  <2>3. \A i \in Y!Ids : row'[i] # None => row'[i] = row[i]
    BY <2>2
  <2>4. ASSUME NEW ids, ids \subseteq Y!Ids, NEW i \in Y!Held(row', ids)
        PROVE  i \in Y!Held(row, ids) /\ row'[i] = row[i] /\ row[i] # None
    BY <2>3, <2>4 DEF Y!Held
  <2>5. Years \subseteq Y!Ids /\ Terms \subseteq Y!Ids /\ Teachings \subseteq Y!Ids
    BY DEF Y!Ids
  <2>6. ASSUME NEW y, NEW t \in Y!TermsIn(row', y) PROVE t \in Y!TermsIn(row, y) /\ row'[t] = row[t]
    BY <2>4, <2>5 DEF Y!TermsIn
  <2>7. ASSUME NEW t \in Y!Held(row', Terms)
        PROVE  t \in Y!Held(row, Terms) /\ row'[t] = row[t] /\ row'[row[t].year] = row[row[t].year]
    <3>1. t \in Y!Held(row, Terms) /\ row'[t] = row[t]
      BY <2>4, <2>5
    <3>2. row[t].year \in Years
      BY <2>5, <3>1, RowFacts DEF CalendarInv, RowsOK, Y!Held
    <3>3. row[t].year # id
      <4> SUFFICES ASSUME row[t].year = id PROVE FALSE
        OBVIOUS
      <4>1. t \in Y!TermsOf(id)
        BY <3>1, SameRows DEF Y!TermsIn
      <4> QED BY <1>4, <3>2, <4>1 DEF Y!Protected
    <3> QED BY <2>2, <2>5, <3>1, <3>2, <3>3
  <2>8. Y!OneIsActive(row')
    <3>1. ASSUME NEW i \in Y!ActiveIn(row', Years) PROVE i \in Y!ActiveIn(row, Years)
      BY <2>4, <2>5 DEF Y!ActiveIn
    <3>2. Y!AtMostOne(Y!ActiveIn(row', Years))
      BY <3>1 DEF CalendarInv, Y!OneIsActive, Y!AtMostOne
    <3>3. ASSUME NEW y, NEW i \in Y!ActiveIn(row', Y!TermsIn(row', y)) PROVE i \in Y!ActiveIn(row, Y!TermsIn(row, y))
      BY <2>6 DEF Y!ActiveIn, Y!Held
    <3>4. ASSUME NEW y \in Y!Held(row', Years) PROVE Y!AtMostOne(Y!ActiveIn(row', Y!TermsIn(row', y)))
      <4>1. y \in Y!Held(row, Years)
        BY <2>4, <2>5
      <4> QED BY <3>3, <4>1 DEF CalendarInv, Y!OneIsActive, Y!AtMostOne
    <3>5. \A t \in Y!Held(row', Terms) : row'[row'[t].year] # None
      BY <2>7 DEF CalendarInv, Y!OneIsActive
    <3> QED BY <3>2, <3>4, <3>5 DEF Y!OneIsActive
  <2>9. ASSUME Y!Orderly(row) PROVE Y!Orderly(row')
    <3>1. \A t \in Y!Held(row', Terms) : Y!Within(row'[t], row'[row'[t].year])
      BY <2>7, <2>9 DEF Y!Orderly
    <3>2. \A y \in Years : \A t, u \in Y!TermsIn(row', y) : t = u \/ ~Y!Overlap(row'[t], row'[u])
      BY <2>6, <2>9 DEF Y!Orderly
    <3>3. ASSUME NEW s, NEW day, NEW i \in Y!TeachingOn(row', s, day) PROVE i \in Y!TeachingOn(row, s, day)
      BY <2>4, <2>5 DEF Y!TeachingOn
    <3>4. \A s \in Slots, day \in 1..YearDays : Y!AtMostOne(Y!TeachingOn(row', s, day))
      BY <2>9, <3>3 DEF Y!Orderly, Y!AtMostOne
    <3> QED BY <3>1, <3>2, <3>4 DEF Y!Orderly
  <2> QED BY <1>1, <1>2, <2>1, <2>2, <2>8, <2>9, ChangedRows DEF CalendarInv
<1> QED BY <1>3, <1>4

LEMMA CalendarStep == CalendarInv /\ [Y!Next]_(Y!vars) => CalendarInv'
<1> SUFFICES ASSUME CalendarInv, [Y!Next]_(Y!vars) PROVE CalendarInv'
  OBVIOUS
<1>1. CASE Y!Next
  BY <1>1, AskGood, SaveGood, DeleteGood DEF Y!Next
<1>2. CASE UNCHANGED Y!vars
  <2>1. UNCHANGED <<row, request, saves, raced, plan>>
    BY <1>2 DEF Y!vars
  <2>2. \A b \in Editors : AskedOK(b)'
    BY <2>1, AskedStays DEF CalendarInv
  <2> QED BY <2>1, <2>2 DEF CalendarInv, RowsOK
<1> QED BY <1>1, <1>2

LEMMA CalendarInit == Y!Init => CalendarInv
<1> SUFFICES ASSUME Y!Init PROVE CalendarInv
  OBVIOUS
<1>1. plan \in Plans /\ row = plan.rows
  BY DEF Y!Init
<1>2. RowsOK /\ Y!OneIsActive(row) /\ Y!Orderly(row)
  BY <1>1, CalendarAssumption DEF Y!Sensible, RowsOK, Y!Held
<1> QED BY <1>1, <1>2 DEF Y!Init, CalendarInv, AskedOK

LEMMA CalendarImplies == CalendarInv => Y!TypeOK /\ Y!PeriodsInOrder
  BY DEF CalendarInv, RowsOK, Y!TypeOK, Y!There, Y!PeriodsInOrder

-----------------------------------------------------------------------------
(* Announcements and homework: the invariant *)

Busy(a) == request[a] # None /\ request[a].at \in {"locked", "stored"}

PostsShape ==
    /\ row \in [N!Posts -> N!AnnouncementRows \cup N!HomeworkRows \cup {None}]
    /\ targets \in [N!Posts -> N!TargetSets]
    /\ notified \in [N!Posts -> BOOLEAN]
    /\ told \in [N!Posts -> SUBSET (Children \cup {GuardianOf[c] : c \in Children})]
    /\ files \subseteq N!Files /\ disputed \subseteq N!Files
    /\ asked \in 0..MaxRequests
    /\ rowLocks \in [N!Posts -> Editors \cup {None}]
    /\ request \in [Editors -> N!Requests \cup {None}]
    /\ page \subseteq Nat \X Announcements
    /\ linked \subseteq Children
    /\ plan \in Occasions
    /\ mishaps \in 0..plan.mishaps

PostOK(id) ==
    /\ row[id] # None => row[id] \in N!RowsOf(id) /\ N!Filled(id, row[id])
    /\ rowLocks[id] # None => Busy(rowLocks[id]) /\ request[rowLocks[id]].id = id

HasUpload(body) == "file" \in DOMAIN body /\ body.file # None

\* A request under way: what it will write, its locks, and the flag it read.
WritingOK(a) ==
    LET r == request[a] IN r # None =>
        /\ r.seen \in N!RowsOf(r.id)
        /\ r.op # "delete" => /\ N!IsBody(r.body) /\ N!Valid(r.id, N!NewRow(r), N!MeantTargets(r))
                              /\ r.upload # None <=> HasUpload(r.body)
        /\ Busy(a) => r.op # "delete" /\ rowLocks[r.id] = a
        /\ Busy(a) /\ r.op = "update" /\ r.id \in Announcements => r.flag = notified[r.id]
        /\ r.op = "create" /\ r.at # "committed" =>
              /\ row[r.id] = None /\ ~notified[r.id] /\ ~r.flag
              /\ \A b \in Editors : request[b] # None /\ request[b].id = r.id => b = a

PostInv ==
    /\ PostsShape
    /\ \A id \in N!Posts : PostOK(id)
    /\ \A a \in Editors : WritingOK(a)

GoodPosts == PostInv' /\ N!AnnouncedOnce /\ N!ScopesFit

LEMMA PostFacts ==
    /\ None \notin Editors /\ None \notin N!Files /\ None \notin N!Requests
    /\ \A id \in N!Posts : \A r \in N!RowsOf(id) :
          r # None /\ r \in N!AnnouncementRows \cup N!HomeworkRows /\ r.file \in N!Files \cup {None}
    /\ \A id \in Announcements : \A r \in N!RowsOf(id) : r.publish \in Nat
    /\ \A id \in Announcements : id \in N!Posts /\ id \notin Homework
    /\ \A id \in Homework : id \in N!Posts /\ id \notin Announcements
    /\ \A id \in N!Posts : id \in Announcements \/ id \in Homework
<1>1. \A id \in N!Posts : \A r \in N!RowsOf(id) : r \in N!AnnouncementRows \cup N!HomeworkRows
  BY DEF N!RowsOf
<1>2. \A r \in N!AnnouncementRows \cup N!HomeworkRows : r # None /\ r.file \in N!Files \cup {None}
  BY PostingsAssumption DEF N!Sensible, N!AnnouncementRows, N!HomeworkRows
<1>3. ASSUME NEW id \in Announcements, NEW r \in N!RowsOf(id) PROVE r.publish \in Nat
  <2>1. r.publish \in 0..SchoolDays /\ SchoolDays \in Nat
    BY PostingsAssumption DEF N!Sensible, N!RowsOf, N!AnnouncementRows
  <2> QED BY <2>1
<1>4. None \notin Editors /\ None \notin N!Files /\ None \notin N!Requests
  BY PostingsAssumption DEF N!Sensible
<1>5. /\ \A id \in Announcements : id \in N!Posts /\ id \notin Homework
      /\ \A id \in Homework : id \in N!Posts /\ id \notin Announcements
      /\ \A id \in N!Posts : id \in Announcements \/ id \in Homework
  BY PostingsAssumption DEF N!Sensible, N!Posts
<1> QED BY <1>1, <1>2, <1>3, <1>4, <1>5

\* A request read field by field.
LEMMA RequestFacts ==
    ASSUME PostInv, NEW a \in Editors, request[a] # None
    PROVE  /\ request[a] \in N!Requests
           /\ request[a].id \in N!Posts /\ request[a].op \in {"create", "update", "delete"}
           /\ request[a].at \in {"asked", "locked", "stored", "committed"}
           /\ request[a].upload \in N!Files \cup {None} /\ request[a].previous \in N!Files \cup {None}
           /\ request[a].flag \in BOOLEAN
           /\ request[a].seen \in N!AnnouncementRows \cup N!HomeworkRows
           /\ request[a].among \in N!TargetSets
<1>1. request[a] \in N!Requests
  BY DEF PostInv, PostsShape
<1> QED BY <1>1 DEF N!Requests

\* What a request writes has the columns of its table.
LEMMA MergedIsRow ==
    ASSUME NEW id \in N!Posts, NEW seen \in N!RowsOf(id), NEW body, N!IsBody(body),
           NEW u \in N!Files \cup {None}
    PROVE  N!Merged(body, u, seen) \in N!RowsOf(id)
<1>1. PICK new : new = N!Merged(body, u, seen)
  OBVIOUS
<1>2. /\ new = [f \in DOMAIN seen |-> new[f]] /\ DOMAIN new = DOMAIN seen
      /\ \A f \in DOMAIN seen : new[f] = IF f \notin DOMAIN body THEN seen[f]
                                         ELSE IF f = "file" THEN u ELSE body[f]
  BY <1>1 DEF N!Merged
<1>3. \A f \in DOMAIN body : body[f] \in N!Values[f]
  BY DEF N!IsBody
<1>4. /\ N!Values["scope"] = {"all", "grades", "sections"}
      /\ N!Values["publish"] = 1..SchoolDays
      /\ N!Values["expiry"] = 1..N!Never /\ N!Values["assignment"] = Lessons
  BY DEF N!Values
<1>5. CASE id \in Announcements
  <2>1. seen \in N!AnnouncementRows
    BY <1>5 DEF N!RowsOf
  <2>2. /\ DOMAIN seen = {"scope", "publish", "expiry", "file"}
        /\ seen.scope \in {"", "all", "grades", "sections"}
        /\ seen.publish \in 0..SchoolDays /\ seen.expiry \in 1..N!Never
        /\ seen.file \in N!Files \cup {None}
    BY <2>1 DEF N!AnnouncementRows
  <2>3. new.scope \in {"", "all", "grades", "sections"}
    BY <1>2, <1>3, <1>4, <2>2
  <2>6. new.publish \in 0..SchoolDays
    <3>1. new.publish \in 1..SchoolDays \/ new.publish = seen.publish
      BY <1>2, <1>3, <1>4, <2>2
    <3>2. \A n \in 1..SchoolDays : n \in 0..SchoolDays
      <4>1. SchoolDays \in Nat
        BY PostingsAssumption DEF N!Sensible
      <4> QED BY <4>1
    <3> QED BY <2>2, <3>1, <3>2
  <2>7. new.expiry \in 1..N!Never
    BY <1>2, <1>3, <1>4, <2>2
  <2>8. new.file \in N!Files \cup {None}
    BY <1>2, <2>2
  <2>9. new \in N!AnnouncementRows
    BY <1>2, <2>2, <2>3, <2>6, <2>7, <2>8 DEF N!AnnouncementRows
  <2> QED BY <1>1, <1>5, <2>9 DEF N!RowsOf
<1>6. CASE id \notin Announcements
  <2>1. seen \in N!HomeworkRows
    BY <1>6 DEF N!RowsOf
  <2>2. DOMAIN seen = {"assignment", "file"} /\ seen.assignment \in Lessons \cup {None} /\ seen.file \in N!Files \cup {None}
    BY <2>1 DEF N!HomeworkRows
  <2>3. new.assignment \in Lessons \cup {None} /\ new.file \in N!Files \cup {None}
    BY <1>2, <1>3, <1>4, <2>2
  <2>4. new \in N!HomeworkRows
    BY <1>2, <2>2, <2>3 DEF N!HomeworkRows
  <2> QED BY <1>1, <1>6, <2>4 DEF N!RowsOf
<1> QED BY <1>5, <1>6

\* What is left in the target tables are sets of grades and sections.
LEMMA MergedIsTargets ==
    ASSUME NEW body, N!IsBody(body), NEW u, NEW t \in N!TargetSets
    PROVE  N!Merged(body, u, t) \in N!TargetSets
<1>1. PICK new : new = N!Merged(body, u, t)
  OBVIOUS
<1>2. t.grades \in SUBSET N!Grades /\ t.sections \in SUBSET Classes /\ DOMAIN t = {"grades", "sections"}
  BY DEF N!TargetSets
<1>3. /\ new = [f \in DOMAIN t |-> new[f]] /\ DOMAIN new = DOMAIN t
      /\ \A f \in DOMAIN t : new[f] = IF f \notin DOMAIN body THEN t[f]
                                      ELSE IF f = "file" THEN u ELSE body[f]
  BY <1>1 DEF N!Merged
<1>4. \A f \in DOMAIN body : body[f] \in N!Values[f]
  BY DEF N!IsBody
<1>5. N!Values["grades"] = SUBSET N!Grades /\ N!Values["sections"] = SUBSET Classes
  BY DEF N!Values
<1>6. new["grades"] = t["grades"] \/ new["grades"] \in N!Values["grades"]
  BY <1>2, <1>3, <1>4
<1>7. new["sections"] = t["sections"] \/ new["sections"] \in N!Values["sections"]
  BY <1>2, <1>3, <1>4
<1>8. new.grades \in SUBSET N!Grades /\ new.sections \in SUBSET Classes
  BY <1>2, <1>5, <1>6, <1>7
<1> QED BY <1>1, <1>2, <1>3, <1>8 DEF N!TargetSets

\* The file of a post is not what makes it valid.
LEMMA ValidWithAnyFile ==
    ASSUME NEW id \in N!Posts, NEW seen \in N!RowsOf(id), NEW body, NEW u, NEW v, NEW t,
           N!Valid(id, N!Merged(body, u, seen), t)
    PROVE  N!Valid(id, N!Merged(body, v, seen), t)
<1>1. PICK p, q : p = N!Merged(body, u, seen) /\ q = N!Merged(body, v, seen)
  OBVIOUS
<1>2. \A f \in DOMAIN seen : f # "file" => p[f] = q[f]
  BY <1>1 DEF N!Merged
<1>3. CASE id \in Announcements
  <2>1. DOMAIN seen = {"scope", "publish", "expiry", "file"}
    BY <1>3 DEF N!RowsOf, N!AnnouncementRows
  <2>2. p.scope = q.scope /\ p.publish = q.publish /\ p.expiry = q.expiry
    BY <1>2, <2>1
  <2> QED BY <1>1, <1>3, <2>2 DEF N!Valid, N!Filled, N!Complete, N!Fits
<1>4. CASE id \notin Announcements
  <2>1. DOMAIN seen = {"assignment", "file"}
    BY <1>4 DEF N!RowsOf, N!HomeworkRows
  <2>2. p.assignment = q.assignment
    BY <1>2, <2>1
  <2> QED BY <1>1, <1>4, <2>2 DEF N!Valid, N!Filled, N!ValidHomework
<1> QED BY <1>3, <1>4

LEMMA NothingAnnounced ==
    ASSUME UNCHANGED <<notified, told>> PROVE N!AnnouncedOnce
  BY DEF N!AnnouncedOnce

LEMMA NothingEdited ==
    ASSUME UNCHANGED <<row, targets>> PROVE N!ScopesFit
  BY DEF N!ScopesFit, N!Misfit

\* Steps that write no row and are no request.
LEMMA PostsKept ==
    ASSUME PostInv, UNCHANGED <<row, targets, disputed, asked, notified, told, rowLocks, request, plan>>,
           files' \subseteq N!Files, page' \subseteq Nat \X Announcements,
           linked' \subseteq Children, mishaps' \in 0..plan.mishaps
    PROVE  GoodPosts
<1>1. PostsShape'
  BY DEF PostInv, PostsShape
<1>2. \A id \in N!Posts : PostOK(id)'
  BY DEF PostInv, PostOK, Busy
<1>3. \A a \in Editors : WritingOK(a)'
  BY DEF PostInv, WritingOK, Busy
<1> QED BY <1>1, <1>2, <1>3, NothingAnnounced, NothingEdited DEF GoodPosts, PostInv

-----------------------------------------------------------------------------
(* The steps of a request *)

LEMMA AskPostGood ==
    ASSUME PostInv, NEW a \in Editors, NEW op \in {"create", "update", "delete"}, NEW id \in N!Posts,
           NEW body \in (UNION {s.bodies : s \in Occasions}) \cup {N!NoBody},
           NEW seen \in N!RowsOf(id), seen = IF op = "create" THEN N!New(id) ELSE row[id],
           op = "create" => N!Fresh(id), op # "create" => row[id] # None,
           op # "delete" => /\ N!IsBody(body)
                            /\ N!Valid(id, N!Merged(body, None, seen), N!Merged(body, None, targets[id])),
           N!Ask(a, op, id, body)
    PROVE  GoodPosts
<1>1. PICK upload \in N!Files \cup {None} :
         upload = N!Upload(body) /\ (upload # None <=> HasUpload(body))
  <2>1. asked + 1 \in N!Files /\ asked + 1 # None
    <3>1. asked \in Nat /\ MaxRequests \in Nat /\ asked < MaxRequests
      BY PostingsAssumption DEF PostInv, PostsShape, N!Ask, N!Sensible
    <3>2. asked + 1 \in 1..MaxRequests
      BY <3>1
    <3> QED BY <3>2, PostFacts DEF N!Files
  <2> QED BY <2>1 DEF N!Upload, HasUpload
<1>2. PICK r : r = [op |-> op, id |-> id, body |-> body, upload |-> N!Upload(body),
                    seen |-> IF op = "create" THEN N!New(id) ELSE row[id], among |-> targets[id],
                    flag |-> notified[id], at |-> "asked", previous |-> None]
  OBVIOUS
<1>3. /\ request[a] = None /\ request' = [request EXCEPT ![a] = r] /\ asked' \in 0..MaxRequests
      /\ UNCHANGED <<row, targets, disputed, notified, told, files, rowLocks, page, linked, mishaps, plan>>
  <2>1. asked \in Nat /\ MaxRequests \in Nat /\ asked < MaxRequests /\ asked' = asked + 1
    BY PostingsAssumption DEF PostInv, PostsShape, N!Ask, N!Sensible
  <2> QED BY <1>2, <2>1 DEF N!Ask, N!tables
<1>4. /\ r.op = op /\ r.id = id /\ r.body = body /\ r.upload = upload /\ r.seen = seen
      /\ r.among = targets[id] /\ r.flag = notified[id] /\ r.at = "asked" /\ r.previous = None
  BY <1>1, <1>2
<1>5. r \in N!Requests
  <2>1. /\ notified[id] \in BOOLEAN /\ seen \in N!AnnouncementRows \cup N!HomeworkRows
        /\ targets[id] \in N!TargetSets
    BY PostFacts DEF PostInv, PostsShape
  <2>2. r = [op |-> op, id |-> id, body |-> body, upload |-> upload, seen |-> seen,
             among |-> targets[id], flag |-> notified[id], at |-> "asked", previous |-> None]
    BY <1>1, <1>2
  <2> QED BY <2>1, <2>2 DEF N!Requests
<1>6. PostsShape'
  BY <1>3, <1>5 DEF PostInv, PostsShape
<1>7. request'[a] = r /\ \A b \in Editors \ {a} : request'[b] = request[b]
  BY <1>3 DEF PostInv, PostsShape
<1>8. ASSUME NEW i \in N!Posts PROVE PostOK(i)'
  <2>1. PostOK(i)
    BY DEF PostInv
  <2>2. rowLocks[i] # None => rowLocks[i] \in Editors \ {a}
    BY <1>3, <2>1 DEF PostInv, PostsShape, PostOK, Busy
  <2> QED BY <1>3, <1>7, <2>1, <2>2 DEF PostOK, Busy
<1>9. WritingOK(a)'
  <2>1. /\ N!NewRow(r) = N!Merged(body, upload, seen)
        /\ N!MeantTargets(r) = N!Merged(body, None, targets[id])
    BY <1>4 DEF N!NewRow, N!MeantTargets
  <2>2. op # "delete" => N!Valid(id, N!NewRow(r), N!MeantTargets(r))
    BY <2>1, ValidWithAnyFile
  <2>3. op = "create" => /\ row[id] = None /\ ~notified[id]
                         /\ \A b \in Editors : request[b] # None => request[b].id # id
    BY DEF N!Fresh
  <2>4. op = "create" => \A b \in Editors : request'[b] # None /\ request'[b].id = id => b = a
    BY <1>7, <2>3
  <2>5. /\ row' = row /\ notified' = notified /\ request'[a] = r /\ ~Busy(a)'
    BY <1>3, <1>4, <1>7 DEF Busy
  <2>6. /\ r.seen \in N!RowsOf(r.id)
        /\ r.op # "delete" => /\ N!IsBody(r.body) /\ N!Valid(r.id, N!NewRow(r), N!MeantTargets(r))
                              /\ r.upload # None <=> HasUpload(r.body)
    BY <1>1, <1>4, <2>2
  <2>7. r.op = "create" =>
          /\ row[r.id] = None /\ ~notified[r.id] /\ ~r.flag
          /\ \A b \in Editors : request'[b] # None /\ request'[b].id = r.id => b = a
    BY <1>4, <2>3, <2>4
  <2> QED BY <2>5, <2>6, <2>7 DEF WritingOK
<1>10. ASSUME NEW b \in Editors \ {a} PROVE WritingOK(b)'
  <2>1. WritingOK(b) /\ request'[b] = request[b]
    BY <1>7 DEF PostInv
  <2>2. ASSUME request[b] # None, request[b].op = "create", request[b].at # "committed"
        PROVE  r.id # request[b].id
    BY <1>4, <2>1, <2>2 DEF WritingOK, N!Fresh
  <2>3. ASSUME request[b] # None, request[b].op = "create", request[b].at # "committed",
               NEW c \in Editors, request'[c] # None, request'[c].id = request[b].id
        PROVE  c = b
    BY <1>7, <2>1, <2>2, <2>3 DEF WritingOK
  <2> QED BY <1>3, <2>1, <2>3 DEF WritingOK, Busy
<1> QED BY <1>3, <1>6, <1>8, <1>9, <1>10, NothingAnnounced, NothingEdited DEF GoodPosts, PostInv

LEMMA NewIsRow == \A id \in N!Posts : N!New(id) \in N!RowsOf(id)
<1>1. SchoolDays \in Nat
  BY PostingsAssumption DEF N!Sensible
<1>2. N!Draft \in N!AnnouncementRows
  <2>1. N!Never \in 1..N!Never /\ 0 \in 0..SchoolDays
    BY <1>1 DEF N!Never
  <2> QED BY <2>1 DEF N!Draft, N!AnnouncementRows
<1>3. N!Exercise \in N!HomeworkRows
  BY DEF N!Exercise, N!HomeworkRows
<1> QED BY <1>2, <1>3 DEF N!New, N!RowsOf

LEMMA AskingGood ==
    ASSUME PostInv, NEW a \in Editors, N!Asking(a)
    PROVE  GoodPosts
<1>1. PICK id \in plan.posts :
         \/ \E body \in plan.bodies : N!AskCreate(a, id, body) \/ N!AskUpdate(a, id, body)
         \/ N!AskDelete(a, id)
  BY DEF N!Asking
<1>2. /\ id \in N!Posts /\ \A body \in plan.bodies : N!IsBody(body)
      /\ plan.bodies \subseteq UNION {s.bodies : s \in Occasions}
  BY PostingsAssumption DEF PostInv, PostsShape, N!Sensible
<1>3. row[id] # None => row[id] \in N!RowsOf(id)
  BY <1>2 DEF PostInv, PostOK
<1>4. ASSUME NEW body \in plan.bodies, N!AskCreate(a, id, body) PROVE GoodPosts
  <2>1. N!New(id) \in N!RowsOf(id) /\ body \in (UNION {s.bodies : s \in Occasions}) \cup {N!NoBody}
    BY <1>2, NewIsRow
  <2>2. PICK seen \in N!RowsOf(id) : seen = N!New(id)
    BY <2>1
  <2>3. /\ N!Fresh(id) /\ N!IsBody(body)
        /\ N!Valid(id, N!Merged(body, None, seen), N!Merged(body, None, targets[id]))
        /\ N!Ask(a, "create", id, body)
    BY <1>2, <1>4, <2>2 DEF N!AskCreate
  <2> QED BY <1>2, <2>1, <2>2, <2>3, AskPostGood
<1>5. ASSUME NEW body \in plan.bodies, N!AskUpdate(a, id, body) PROVE GoodPosts
  BY <1>2, <1>3, <1>5, AskPostGood DEF N!AskUpdate, N!Visible
<1>6. ASSUME N!AskDelete(a, id) PROVE GoodPosts
  <2>1. row[id] # None /\ N!Ask(a, "delete", id, N!NoBody)
    BY <1>6 DEF N!AskDelete, N!Visible
  <2>2. PICK seen \in N!RowsOf(id) : seen = row[id]
    BY <1>3, <2>1
  <2>3. PICK op, body : op = "delete" /\ body = N!NoBody
    OBVIOUS
  <2>4. /\ op \in {"create", "update", "delete"} /\ body \in (UNION {s.bodies : s \in Occasions}) \cup {N!NoBody}
        /\ seen = IF op = "create" THEN N!New(id) ELSE row[id]
        /\ op # "create" /\ op = "delete" /\ row[id] # None /\ N!Ask(a, op, id, body)
    BY <2>1, <2>2, <2>3
  <2> QED BY <1>2, <2>4, AskPostGood
<1> QED BY <1>1, <1>4, <1>5, <1>6

\* A transaction that fails lets go of its locks.
LEMMA FailGood ==
    ASSUME PostInv, NEW a \in Editors, N!Fail(a)
    PROVE  GoodPosts
<1>1. /\ rowLocks' = [i \in N!Posts |-> IF rowLocks[i] = a THEN None ELSE rowLocks[i]]
      /\ request' = [request EXCEPT ![a] = None] /\ files' \subseteq files
      /\ UNCHANGED <<row, targets, disputed, asked, notified, told, page, linked, mishaps, plan>>
  BY DEF N!Fail, N!tables
<1>2. PostsShape'
  BY <1>1 DEF PostInv, PostsShape
<1>3. request'[a] = None /\ \A b \in Editors \ {a} : request'[b] = request[b]
  BY <1>1 DEF PostInv, PostsShape
<1>4. ASSUME NEW i \in N!Posts PROVE PostOK(i)'
  <2>1. PostOK(i)
    BY DEF PostInv
  <2>2. rowLocks'[i] # None => rowLocks'[i] = rowLocks[i] /\ rowLocks[i] \in Editors \ {a}
    BY <1>1 DEF PostInv, PostsShape
  <2> QED BY <1>1, <1>3, <2>1, <2>2 DEF PostOK, Busy
<1>5. ASSUME NEW b \in Editors PROVE WritingOK(b)'
  <2>1. CASE b = a
    BY <1>3, <2>1 DEF WritingOK
  <2>2. CASE b # a
    <3>1. WritingOK(b) /\ request'[b] = request[b]
      BY <1>3, <2>2 DEF PostInv
    <3>2. request[b] # None => request[b].id \in N!Posts
      BY RequestFacts
    <3>3. Busy(b) => rowLocks'[request[b].id] = rowLocks[request[b].id]
      BY <1>1, <2>2, <3>1, <3>2 DEF WritingOK, Busy
    <3>4. \A c \in Editors : request'[c] # None => request[c] = request'[c]
      BY <1>3
    <3> QED BY <1>1, <3>1, <3>3, <3>4 DEF WritingOK, Busy
  <2> QED BY <2>1, <2>2
<1> QED BY <1>1, <1>2, <1>4, <1>5, NothingAnnounced, NothingEdited DEF GoodPosts, PostInv

\* A step of a request that is under way, to a label that holds the lock.
LEMMA HoldGood ==
    ASSUME PostInv, NEW a \in Editors, request[a] # None, NEW r, r = request[a],
           r.op # "delete", r.at \in {"asked", "locked"}, N!Unlocked(a, r.id),
           NEW flag \in BOOLEAN, NEW at \in {"locked", "stored"},
           r.op = "update" /\ r.id \in Announcements => flag = notified[r.id],
           r.op = "create" => flag = r.flag,
           request' = [request EXCEPT ![a].at = at, ![a].flag = flag],
           rowLocks' = [rowLocks EXCEPT ![r.id] = a], files' \subseteq N!Files,
           UNCHANGED <<row, targets, disputed, asked, notified, told, page, linked, mishaps, plan>>
    PROVE  GoodPosts
<1>1. /\ r \in N!Requests /\ r.id \in N!Posts
  BY RequestFacts
<1>2. PICK q : q = [[r EXCEPT !.at = at] EXCEPT !.flag = flag]
  OBVIOUS
<1>3. /\ q \in N!Requests /\ q.at = at /\ q.flag = flag /\ q.id = r.id /\ q.op = r.op
      /\ q.body = r.body /\ q.upload = r.upload /\ q.seen = r.seen /\ q.among = r.among
  BY <1>1, <1>2 DEF N!Requests
<1>4. request'[a] = q /\ q # None /\ \A b \in Editors \ {a} : request'[b] = request[b]
  BY <1>2, <1>3, PostFacts DEF PostInv, PostsShape
<1>5. PostsShape'
  <2>1. request' = [request EXCEPT ![a] = q]
    BY <1>2
  <2> QED BY <1>1, <1>3, <2>1, ZenonT(30) DEF PostInv, PostsShape
<1>6. rowLocks'[r.id] = a /\ \A i \in N!Posts \ {r.id} : rowLocks'[i] = rowLocks[i]
  BY <1>1 DEF PostInv, PostsShape
<1>7. ASSUME NEW i \in N!Posts PROVE PostOK(i)'
  <2>1. PostOK(i)
    BY DEF PostInv
  <2>2. CASE i = r.id
    <3>1. Busy(a)' /\ request'[a].id = i /\ rowLocks'[i] = a
      BY <1>3, <1>4, <1>6, <2>2 DEF Busy
    <3>2. Busy(rowLocks[i])'
      BY <3>1 DEF Busy
    <3> QED BY <2>1, <3>1, <3>2 DEF PostOK
  <2>3. CASE i # r.id
    <3>1. rowLocks[i] # None => rowLocks[i] \in Editors
      BY DEF PostInv, PostsShape
    <3>2. rowLocks[i] = a => request[a].id = i
      BY <2>1, PostFacts DEF PostOK
    <3>3. rowLocks'[i] = rowLocks[i] /\ rowLocks[i] # a
      BY <1>6, <2>3, <3>2
    <3> QED BY <1>4, <2>1, <3>1, <3>3 DEF PostOK, Busy
  <2> QED BY <2>2, <2>3
<1>8. WritingOK(a)'
  <2>1. WritingOK(a)
    BY DEF PostInv
  <2>2. N!NewRow(q) = N!NewRow(r) /\ N!MeantTargets(q) = N!MeantTargets(r)
    BY <1>3 DEF N!NewRow, N!MeantTargets
  <2>3. r.op = "create" => \A b \in Editors : request'[b] # None /\ request'[b].id = r.id => b = a
    BY <1>4, <2>1 DEF WritingOK
  <2>4. row' = row /\ notified' = notified /\ request'[a] = q
    BY <1>4
  <2>5. /\ q.seen \in N!RowsOf(q.id)
        /\ q.op # "delete" => /\ N!IsBody(q.body) /\ N!Valid(q.id, N!NewRow(q), N!MeantTargets(q))
                              /\ q.upload # None <=> HasUpload(q.body)
    BY <1>3, <2>1, <2>2 DEF WritingOK
  <2>6. q.op = "create" =>
          /\ row[q.id] = None /\ ~notified[q.id] /\ ~q.flag
          /\ \A b \in Editors : request'[b] # None /\ request'[b].id = q.id => b = a
    BY <1>3, <2>1, <2>3 DEF WritingOK
  <2>7. q.op # "delete" /\ rowLocks'[q.id] = a
    BY <1>3, <1>6
  <2>8. q.op = "update" /\ q.id \in Announcements => q.flag = notified[q.id]
    BY <1>3
  <2> QED BY <2>4, <2>5, <2>6, <2>7, <2>8 DEF WritingOK, Busy
<1>9. ASSUME NEW b \in Editors \ {a} PROVE WritingOK(b)'
  <2>1. WritingOK(b) /\ request'[b] = request[b]
    BY <1>4 DEF PostInv
  <2>2. request[b] # None => request[b].id \in N!Posts
    BY RequestFacts
  <2>3. Busy(b) => rowLocks'[request[b].id] = b
    <3>1. SUFFICES ASSUME Busy(b) PROVE request[b].id # r.id /\ rowLocks[request[b].id] = b
      BY <1>6, <2>2 DEF Busy
    <3>2. rowLocks[request[b].id] = b
      BY <2>1, <3>1 DEF WritingOK, Busy
    <3> QED BY <3>2, PostFacts DEF N!Unlocked
  <2>4. ASSUME request[b] # None, request[b].op = "create", request[b].at # "committed",
               NEW c \in Editors, request'[c] # None, request'[c].id = request[b].id
        PROVE  c = b
    <3>1. request[c] # None /\ request[c].id = request[b].id
      <4>1. CASE c = a
        BY <1>3, <1>4, <2>4, <4>1
      <4>2. CASE c # a
        BY <1>4, <2>4, <4>2
      <4> QED BY <4>1, <4>2
    <3> QED BY <2>1, <2>4, <3>1 DEF WritingOK
  <2> QED BY <2>1, <2>3, <2>4 DEF WritingOK, Busy
<1> QED BY <1>5, <1>7, <1>8, <1>9, NothingAnnounced, NothingEdited DEF GoodPosts, PostInv

LEMMA LockPostGood ==
    ASSUME PostInv, NEW a \in Editors, N!Lock(a)
    PROVE  GoodPosts
<1>1. PICK r : r = request[a]
  OBVIOUS
<1>2. /\ r # None /\ r.at = "asked" /\ r.op = "update" /\ r.id \in Announcements
      /\ N!Unlocked(a, r.id)
  BY <1>1 DEF N!Lock
<1>3. CASE row[r.id] = None
  BY <1>1, <1>3, FailGood DEF N!Lock
<1>4. CASE row[r.id] # None
  <2>1. PICK flag : flag = notified[r.id]
    OBVIOUS
  <2>2. flag \in BOOLEAN
    BY <1>2, <2>1, PostFacts DEF PostInv, PostsShape
  <2>3. /\ rowLocks' = [rowLocks EXCEPT ![r.id] = a]
        /\ request' = [request EXCEPT ![a].at = "locked", ![a].flag = flag]
        /\ UNCHANGED <<row, targets, disputed, asked, notified, told, files, page, linked, mishaps, plan>>
    BY <1>1, <1>4, <2>1 DEF N!Lock, N!FreshFlag, N!tables
  <2>4. files' \subseteq N!Files
    BY <2>3 DEF PostInv, PostsShape
  <2> QED BY <1>1, <1>2, <2>1, <2>2, <2>3, <2>4, HoldGood
<1> QED BY <1>3, <1>4

LEMMA StorePostGood ==
    ASSUME PostInv, NEW a \in Editors, N!Store(a)
    PROVE  GoodPosts
<1>1. PICK r : r = request[a]
  OBVIOUS
<1>2. r # None /\ N!ReadyToStore(r) /\ N!Unlocked(a, r.id)
  BY <1>1 DEF N!Store
<1>3. CASE ~N!Allowed(a, r)
  BY <1>1, <1>3, FailGood DEF N!Store
<1>4. CASE N!Allowed(a, r)
  <2>1. /\ WritingOK(a) /\ r.upload \in N!Files \cup {None} /\ r.flag \in BOOLEAN /\ r.id \in N!Posts
        /\ r \in N!Requests
    BY <1>1, <1>2, RequestFacts DEF PostInv
  <2>2. /\ rowLocks' = [rowLocks EXCEPT ![r.id] = a] /\ request' = [request EXCEPT ![a].at = "stored"]
        /\ files' = files \cup ({r.upload} \ {None})
        /\ UNCHANGED <<row, targets, disputed, asked, notified, told, page, linked, mishaps, plan>>
    BY <1>1, <1>4 DEF N!Store, N!Goto, N!tables
  <2>3. request' = [request EXCEPT ![a].at = "stored", ![a].flag = r.flag]
    <3>1. [r EXCEPT !.at = "stored"] = [[r EXCEPT !.at = "stored"] EXCEPT !.flag = r.flag]
      BY <2>1 DEF N!Requests
    <3> QED BY <1>1, <2>2, <3>1
  <2>4. r.op # "delete" /\ r.at \in {"asked", "locked"}
    BY <1>1, <1>2, <2>1 DEF N!ReadyToStore, WritingOK, Busy
  <2>5. r.op = "update" /\ r.id \in Announcements => r.flag = notified[r.id]
    BY <1>1, <1>2, <2>1, PostFacts DEF N!ReadyToStore, WritingOK, Busy
  <2>6. files' \subseteq N!Files
    BY <2>1, <2>2 DEF PostInv, PostsShape
  <2> QED BY <1>1, <1>2, <2>1, <2>2, <2>3, <2>4, <2>5, <2>6, HoldGood
<1> QED BY <1>3, <1>4

\* Who is told of an announcement, and that they find it.
LEMMA AnnounceTells ==
    ASSUME PostInv, NEW id \in Announcements, NEW new \in N!RowsOf(id), NEW sets,
           N!Announce(id, new, sets), N!Published(new), ~notified[id], row'[id] = new, targets'[id] = sets,
           UNCHANGED <<linked, date>>
    PROVE  /\ N!AnnouncedOnce
           /\ notified' \in [N!Posts -> BOOLEAN] /\ \A i \in N!Posts \ {id} : notified'[i] = notified[i]
           /\ told' \in [N!Posts -> SUBSET (Children \cup {GuardianOf[c] : c \in Children})]
<1>1. PICK few : few = N!Audience(new, sets)
  OBVIOUS
<1>2. \A g \in few : \E c \in linked : GuardianOf[c] = g /\ ChildClass[c] \in N!Targets(new, sets)
  BY <1>1 DEF N!Audience
<1>3. \A c \in linked : ChildClass[c] \in N!Targets(new, sets) => GuardianOf[c] \in few
  BY <1>1 DEF N!Audience
<1>4. few \subseteq {GuardianOf[c] : c \in Children}
  BY <1>2 DEF PostInv, PostsShape
<1>5. /\ notified' = [notified EXCEPT ![id] = TRUE]
      /\ told' = [told EXCEPT ![id] = IF N!Expired(new) THEN told[id] ELSE told[id] \cup few]
      /\ id \in N!Posts
  BY <1>1, PostFacts DEF N!Announce
<1>6. /\ notified'[id] /\ \A i \in N!Posts \ {id} : notified'[i] = notified[i] /\ told'[i] = told[i]
      /\ told'[id] = IF N!Expired(new) THEN told[id] ELSE told[id] \cup few
  BY <1>5 DEF PostInv, PostsShape
<1>7. ASSUME NEW g \in told'[id] \ told[id]
      PROVE  \E c \in linked : GuardianOf[c] = g /\ id \in N!PhoneAnnouncements(c)'
  <2>1. g \in few /\ ~N!Expired(new)
    BY <1>6
  <2>2. PICK c \in linked : GuardianOf[c] = g /\ ChildClass[c] \in N!Targets(new, sets)
    BY <1>2, <2>1
  <2>3. PICK q, x : q = new /\ q = row'[id] /\ x = sets /\ x = targets'[id]
    OBVIOUS
  <2>4. N!IsActive(q)' /\ ChildClass[c] \in N!Targets(q, x) /\ q # None
    BY <2>1, <2>2, <2>3, PostFacts, <1>5 DEF N!IsActive, N!Published, N!Expired
  <2>5. id \in N!PhoneAnnouncements(c)'
    BY <2>3, <2>4 DEF N!PhoneAnnouncements
  <2> QED BY <2>2, <2>5
<1>8. ASSUME NEW i \in Announcements
      PROVE  LET out == ~notified[i] /\ notified'[i] IN
             /\ notified[i] => notified'[i]
             /\ out /\ ~N!Expired(row'[i]) =>
                   \A c \in linked : ChildClass[c] \in N!Targets(row'[i], targets'[i]) => GuardianOf[c] \in told'[i]
             /\ \A g \in told'[i] \ told[i] :
                   out /\ \E c \in linked : GuardianOf[c] = g /\ i \in N!PhoneAnnouncements(c)'
  <2>1. CASE i = id
    BY <1>3, <1>6, <1>7, <2>1
  <2>2. CASE i # id
    BY <1>6, <2>2, PostFacts
  <2> QED BY <2>1, <2>2
<1>9. \A i \in Homework : told'[i] = told[i]
  BY <1>6, PostFacts
<1>10. N!AnnouncedOnce
  BY <1>8, <1>9 DEF N!AnnouncedOnce
<1>11. told' \in [N!Posts -> SUBSET (Children \cup {GuardianOf[c] : c \in Children})]
  <2>1. told[id] \cup few \in SUBSET (Children \cup {GuardianOf[c] : c \in Children})
    BY <1>4, <1>5 DEF PostInv, PostsShape
  <2> QED BY <1>5, <2>1 DEF PostInv, PostsShape
<1>12. notified' \in [N!Posts -> BOOLEAN]
  BY <1>5 DEF PostInv, PostsShape
<1> QED BY <1>6, <1>10, <1>11, <1>12

\* What a commit tells: the class of new homework, or as above.
LEMMA CommitTells ==
    ASSUME PostInv, NEW a \in Editors, N!Commit(a)
    PROVE  /\ N!AnnouncedOnce
           /\ notified' \in [N!Posts -> BOOLEAN]
           /\ \A i \in N!Posts \ {request[a].id} : notified'[i] = notified[i]
           /\ told' \in [N!Posts -> SUBSET (Children \cup {GuardianOf[c] : c \in Children})]
<1>1. PICK r, id, new, sets : r = request[a] /\ id = r.id /\ new = N!NewRow(r) /\ sets = N!NewTargets(r)
  OBVIOUS
<1>2. /\ r # None /\ r.at = "stored" /\ row' = [row EXCEPT ![id] = new]
      /\ targets' = [targets EXCEPT ![id] = sets] /\ UNCHANGED <<linked, date>>
  BY <1>1 DEF N!Commit
<1>3. /\ id \in N!Posts /\ WritingOK(a) /\ r.upload \in N!Files \cup {None} /\ r.flag \in BOOLEAN
      /\ r.op \in {"create", "update", "delete"}
  BY <1>1, <1>2, RequestFacts DEF PostInv
<1>4. new \in N!RowsOf(id)
  BY <1>1, <1>2, <1>3, MergedIsRow DEF WritingOK, Busy, N!NewRow
<1>5. row'[id] = new /\ targets'[id] = sets
  BY <1>2, <1>3 DEF PostInv, PostsShape
<1>6. CASE id \in Homework
  <2>1. /\ told' = IF r.op = "create" THEN [told EXCEPT ![id] = N!Class(new)] ELSE told
        /\ notified' = notified
    BY <1>1, <1>6 DEF N!Commit
  <2>2. PICK class : class = N!Class(new)
    OBVIOUS
  <2>3. class \subseteq linked /\ \A c \in class : ChildClass[c] = LessonClass[new.assignment]
    BY <2>2 DEF N!Class
  <2>4. ASSUME NEW c \in class PROVE id \in N!PhoneHomework(c)'
    BY <1>2, <1>4, <1>5, <1>6, <2>3, PostFacts, <1>3 DEF N!PhoneHomework
  <2>5. told' = told \/ told' = [told EXCEPT ![id] = class]
    BY <2>1, <2>2
  <2>6. told' \in [N!Posts -> SUBSET (Children \cup {GuardianOf[c] : c \in Children})]
    <3>1. class \subseteq Children
      BY <2>3 DEF PostInv, PostsShape
    <3> QED BY <2>5, <3>1 DEF PostInv, PostsShape
  <2>7. \A i \in Homework : \A c \in told'[i] \ told[i] : i \in N!PhoneHomework(c)'
    BY <1>3, <2>4, <2>5, PostFacts DEF PostInv, PostsShape
  <2>8. \A i \in Announcements : told'[i] = told[i]
    BY <1>3, <1>6, <2>5, PostFacts DEF PostInv, PostsShape
  <2>9. N!AnnouncedOnce
    BY <2>1, <2>7, <2>8 DEF N!AnnouncedOnce
  <2> QED BY <2>1, <2>6, <2>9 DEF PostInv, PostsShape
<1>7. CASE id \notin Homework
  <2>1. id \in Announcements /\ r.flag = notified[id]
    <3>1. id \in Announcements /\ notified[id] \in BOOLEAN /\ Busy(a)
      BY <1>1, <1>2, <1>3, <1>7, PostFacts DEF PostInv, PostsShape, Busy
    <3>2. CASE r.op = "create"
      <4>1. ~notified[id] /\ ~r.flag
        BY <1>1, <1>2, <1>3, <3>2 DEF WritingOK
      <4>2. notified[id] = FALSE /\ r.flag = FALSE
        BY <1>3, <3>1, <4>1
      <4> QED BY <3>1, <4>2
    <3>3. CASE r.op = "update"
      BY <1>1, <1>2, <1>3, <3>1, <3>3 DEF WritingOK
    <3>4. r.op # "delete"
      BY <1>1, <1>2, <1>3, <3>1 DEF WritingOK
    <3> QED BY <1>3, <3>2, <3>3, <3>4
  <2>2. CASE N!Published(new) /\ ~r.flag
    <3>1. N!Announce(id, new, sets)
      BY <1>1, <1>7, <2>2 DEF N!Commit
    <3> QED BY <1>1, <1>2, <1>4, <1>5, <2>1, <2>2, <3>1, AnnounceTells
  <2>3. CASE ~(N!Published(new) /\ ~r.flag)
    <3>1. notified' = [notified EXCEPT ![id] = r.flag] /\ told' = told
      BY <1>1, <1>7, <2>3 DEF N!Commit
    <3>2. notified' = notified
      BY <1>3, <2>1, <3>1 DEF PostInv, PostsShape
    <3> QED BY <3>1, <3>2, NothingAnnounced DEF PostInv, PostsShape
  <2> QED BY <2>2, <2>3
<1> QED BY <1>6, <1>7

\* What a commit does to the row and to the request that commits.
Finishes(a, id, new, previous, sets) ==
    /\ request[a] # None /\ id = request[a].id
    /\ new # None => new \in N!RowsOf(id) /\ N!Filled(id, new)
    /\ row' = [row EXCEPT ![id] = new] /\ rowLocks' = [rowLocks EXCEPT ![id] = None]
    /\ rowLocks[id] = a \/ (new = None /\ rowLocks[id] = None)
    /\ request' = [request EXCEPT ![a].at = "committed", ![a].previous = previous]
    /\ UNCHANGED <<files, asked, page, linked, mishaps, plan>>
    /\ disputed' \subseteq N!Files
    /\ targets' = [targets EXCEPT ![id] = sets]
    /\ notified' \in [N!Posts -> BOOLEAN]
    /\ \A i \in N!Posts \ {id} : notified'[i] = notified[i]
    /\ new = None => notified' = notified
    /\ told' \in [N!Posts -> SUBSET (Children \cup {GuardianOf[c] : c \in Children})]

\* A request that is done leaves its locks, and has written its row or not.
LEMMA DoneGood ==
    ASSUME PostInv, NEW a \in Editors, NEW id \in N!Posts, NEW new, NEW previous \in N!Files \cup {None},
           NEW sets \in N!TargetSets, Finishes(a, id, new, previous, sets)
    PROVE  PostInv'
<1> USE DEF Finishes
<1>1. PICK r, q : /\ r = request[a]
                  /\ q = [[r EXCEPT !.at = "committed"] EXCEPT !.previous = previous]
  OBVIOUS
<1>2. r \in N!Requests /\ r.id = id
  BY <1>1, RequestFacts
<1>3. /\ q \in N!Requests /\ q.at = "committed" /\ q.id = id /\ q.op = r.op
      /\ q.body = r.body /\ q.upload = r.upload /\ q.seen = r.seen /\ q.among = r.among
  BY <1>1, <1>2 DEF N!Requests
<1>4. request'[a] = q /\ q # None /\ \A b \in Editors \ {a} : request'[b] = request[b]
  BY <1>1, <1>3, PostFacts DEF PostInv, PostsShape
<1>5. PostsShape'
  <2>1. request' = [request EXCEPT ![a] = q]
    BY <1>1
  <2>2. new \in N!AnnouncementRows \cup N!HomeworkRows \cup {None}
    BY PostFacts
  <2> QED BY <1>3, <2>1, <2>2, ZenonT(30) DEF PostInv, PostsShape
<1>6. /\ row'[id] = new /\ rowLocks'[id] = None
      /\ \A i \in N!Posts \ {id} : row'[i] = row[i] /\ rowLocks'[i] = rowLocks[i]
  BY DEF PostInv, PostsShape
<1>7. ASSUME NEW i \in N!Posts PROVE PostOK(i)'
  <2>1. PostOK(i) /\ (rowLocks[i] # None => rowLocks[i] \in Editors)
    BY DEF PostInv, PostsShape
  <2>2. CASE i = id
    <3>1. PICK k : k = row'[i] /\ k = new
      BY <1>6, <2>2
    <3>2. rowLocks'[i] = None
      BY <1>6, <2>2
    <3>3. k # None => k \in N!RowsOf(i) /\ N!Filled(i, k)
      BY <2>2, <3>1
    <3>4. row'[i] # None => row'[i] \in N!RowsOf(i) /\ N!Filled(i, row'[i])
      BY <3>1, <3>3
    <3> QED BY <3>2, <3>4 DEF PostOK
  <2>3. CASE i # id
    <3>1. rowLocks[i] # a
      BY <2>1, <2>3, PostFacts DEF PostOK
    <3>2. row'[i] = row[i] /\ rowLocks'[i] = rowLocks[i]
      BY <1>6, <2>3
    <3>3. row'[i] # None => row'[i] \in N!RowsOf(i) /\ N!Filled(i, row'[i])
      BY <2>1, <3>2 DEF PostOK
    <3>4. ASSUME rowLocks[i] # None PROVE request'[rowLocks[i]] = request[rowLocks[i]]
      BY <1>4, <2>1, <3>1, <3>4
    <3>5. rowLocks'[i] # None => Busy(rowLocks[i])' /\ request'[rowLocks'[i]].id = i
      BY <2>1, <3>2, <3>4 DEF PostOK, Busy
    <3> QED BY <3>2, <3>3, <3>5 DEF PostOK, Busy
  <2> QED BY <2>2, <2>3
<1>8. WritingOK(a)'
  <2>1. WritingOK(a) /\ N!NewRow(q) = N!NewRow(r) /\ N!MeantTargets(q) = N!MeantTargets(r)
    BY <1>3 DEF PostInv, N!NewRow, N!MeantTargets
  <2>2. /\ q.seen \in N!RowsOf(q.id)
        /\ q.op # "delete" => /\ N!IsBody(q.body) /\ N!Valid(q.id, N!NewRow(q), N!MeantTargets(q))
                              /\ q.upload # None <=> HasUpload(q.body)
    BY <1>1, <1>2, <1>3, <2>1 DEF WritingOK
  <2> QED BY <1>3, <1>4, <2>2 DEF WritingOK, Busy
<1>9. ASSUME NEW b \in Editors \ {a} PROVE WritingOK(b)'
  <2>1. WritingOK(b) /\ request'[b] = request[b]
    BY <1>4 DEF PostInv
  <2>2. request[b] # None => request[b].id \in N!Posts
    BY RequestFacts
  <2>3. Busy(b) => /\ request[b].id # id /\ rowLocks'[request[b].id] = b
                   /\ notified'[request[b].id] = notified[request[b].id]
    <3>1. Busy(b) => rowLocks[request[b].id] = b /\ request[b] # None
      BY <2>1 DEF WritingOK, Busy
    <3> QED BY <1>6, <2>2, <3>1, PostFacts
  <2>4. ASSUME request[b] # None, request[b].op = "create", request[b].at # "committed"
        PROVE  /\ row'[request[b].id] = None /\ ~notified'[request[b].id] /\ ~request[b].flag
               /\ \A c \in Editors : request'[c] # None /\ request'[c].id = request[b].id => c = b
    <3>1. request[b].id # id
      BY <1>1, <1>2, <2>1, <2>4 DEF WritingOK
    <3>2. row'[request[b].id] = row[request[b].id] /\ notified'[request[b].id] = notified[request[b].id]
      BY <1>6, <2>2, <2>4, <3>1
    <3>3. ASSUME NEW c \in Editors, request'[c] # None, request'[c].id = request[b].id PROVE c = b
      <4>1. c # a
        BY <1>3, <1>4, <3>1, <3>3
      <4> QED BY <1>4, <2>1, <2>4, <3>3, <4>1 DEF WritingOK
    <3> QED BY <2>1, <2>4, <3>2, <3>3 DEF WritingOK
  <2> QED BY <2>1, <2>3, <2>4 DEF WritingOK, Busy
<1> QED BY <1>5, <1>7, <1>8, <1>9 DEF PostInv

LEMMA DisputedFiles ==
    ASSUME PostInv, NEW a \in Editors, request[a] # None
    PROVE  N!Disputed(request[a]) \subseteq N!Files
<1>1. PICK r, id : r = request[a] /\ id = r.id /\ id \in N!Posts
  BY RequestFacts
<1>2. r.seen.file \in N!Files \cup {None} /\ (row[id] # None => row[id].file \in N!Files \cup {None})
  BY <1>1, PostFacts DEF PostInv, WritingOK, PostOK
<1>3. PICK few : few = IF row[id] = None THEN {} ELSE {row[id].file}
  OBVIOUS
<1>4. few \subseteq N!Files \cup {None}
  BY <1>2, <1>3
<1>5. N!Disputed(r) \subseteq ({r.seen.file} \cup few) \ {None}
  BY <1>1, <1>3 DEF N!Disputed
<1> QED BY <1>1, <1>2, <1>4, <1>5

\* A request that found the sets it was validated for leaves a scope that fits.
LEMMA CommitFits ==
    ASSUME PostInv, NEW a \in Editors, N!Commit(a), request'[a] # None, request'[a].at = "committed"
    PROVE  N!ScopesFit
<1>1. PICK r, id, new, sets : r = request[a] /\ id = r.id /\ new = N!NewRow(r) /\ sets = N!NewTargets(r)
  OBVIOUS
<1>2. /\ r # None /\ r.at = "stored" /\ row' = [row EXCEPT ![id] = new]
      /\ targets' = [targets EXCEPT ![id] = sets] /\ request[a] # None
  BY <1>1 DEF N!Commit
<1>3. /\ r \in N!Requests /\ id \in N!Posts /\ WritingOK(a)
  BY <1>1, <1>2, RequestFacts DEF PostInv
<1>4. N!Valid(id, new, N!MeantTargets(r))
  BY <1>1, <1>2, <1>3 DEF WritingOK, Busy
<1>5. /\ row'[id] = new /\ targets'[id] = sets
      /\ \A i \in N!Posts \ {id} : row'[i] = row[i] /\ targets'[i] = targets[i]
  BY <1>2, <1>3 DEF PostInv, PostsShape
<1>7. CASE r.among = targets[id]
  <2>1. sets = N!MeantTargets(r)
    BY <1>1, <1>7 DEF N!NewTargets, N!MeantTargets
  <2>2. id \in Announcements => N!Fits(new, sets)
    BY <1>4, <2>1 DEF N!Valid
  <2>3. ASSUME NEW i \in Announcements, N!Misfit(i)', ~N!Misfit(i) PROVE FALSE
    <3>1. i \in N!Posts
      BY PostFacts
    <3>2. CASE i = id
      <4>1. PICK x, y : x = row'[i] /\ x = new /\ y = targets'[i] /\ y = sets
        BY <1>5, <3>2
      <4> QED BY <2>2, <2>3, <3>2, <4>1 DEF N!Misfit
    <3>3. CASE i # id
      <4>1. row'[i] = row[i] /\ targets'[i] = targets[i]
        BY <1>5, <3>1, <3>3
      <4> QED BY <2>3, <4>1 DEF N!Misfit
    <3> QED BY <3>2, <3>3
  <2> QED BY <2>3 DEF N!ScopesFit
<1>8. CASE r.among # targets[id]
  <2>1. N!Overtaken(id)
    BY <1>1, <1>2, <1>8 DEF N!Overtaken
  <2>2. ASSUME NEW i \in Announcements, i # id, N!Misfit(i)' PROVE N!Misfit(i)
    <3>1. row'[i] = row[i] /\ targets'[i] = targets[i]
      BY <1>5, <2>2, PostFacts
    <3> QED BY <2>2, <3>1 DEF N!Misfit
  <2> QED BY <2>1, <2>2 DEF N!ScopesFit
<1> QED BY <1>7, <1>8

LEMMA CommitPostGood ==
    ASSUME PostInv, NEW a \in Editors, N!Commit(a)
    PROVE  GoodPosts
<1>1. PICK r, id, new, sets : r = request[a] /\ id = r.id /\ new = N!NewRow(r) /\ sets = N!NewTargets(r)
  OBVIOUS
<1>2. /\ r # None /\ r.at = "stored" /\ row' = [row EXCEPT ![id] = new]
      /\ targets' = [targets EXCEPT ![id] = sets] /\ disputed' = disputed \cup N!Disputed(r)
      /\ rowLocks' = [rowLocks EXCEPT ![id] = None]
      /\ request' = [request EXCEPT ![a].at = "committed", ![a].previous = N!Replaced(r.seen, new)]
      /\ UNCHANGED <<files, asked, page, linked, mishaps, plan>>
  BY <1>1 DEF N!Commit
<1>3. /\ id \in N!Posts /\ WritingOK(a) /\ r.upload \in N!Files \cup {None} /\ r \in N!Requests
      /\ targets[id] \in N!TargetSets
  BY <1>1, <1>2, RequestFacts DEF PostInv, PostsShape
<1>4. /\ r.op # "delete" /\ rowLocks[id] = a /\ r.seen \in N!RowsOf(id) /\ N!IsBody(r.body)
      /\ N!Valid(id, new, N!MeantTargets(r))
  BY <1>1, <1>2, <1>3 DEF WritingOK, Busy
<1>5. new \in N!RowsOf(id) /\ new # None /\ N!Filled(id, new)
  BY <1>1, <1>3, <1>4, MergedIsRow, PostFacts DEF N!NewRow, N!Valid
<1>6. PICK previous \in N!Files \cup {None} : previous = N!Replaced(r.seen, new)
  BY <1>3, <1>4, PostFacts DEF N!Replaced
<1>7. sets \in N!TargetSets
  BY <1>1, <1>3, <1>4, MergedIsTargets DEF N!NewTargets
<1>8. request' = [request EXCEPT ![a].at = "committed", ![a].previous = previous]
  BY <1>2, <1>6
<1>9. PostInv'
  <2>1. /\ notified' \in [N!Posts -> BOOLEAN]
        /\ \A i \in N!Posts \ {id} : notified'[i] = notified[i]
        /\ told' \in [N!Posts -> SUBSET (Children \cup {GuardianOf[c] : c \in Children})]
    BY <1>1, CommitTells
  <2>2. request[a] # None /\ id = request[a].id
    BY <1>1, <1>2
  <2>3. /\ row' = [row EXCEPT ![id] = new] /\ rowLocks' = [rowLocks EXCEPT ![id] = None]
        /\ targets' = [targets EXCEPT ![id] = sets]
        /\ UNCHANGED <<files, asked, page, linked, mishaps, plan>>
    BY <1>2
  <2>4. id \in N!Posts /\ (rowLocks[id] = a \/ (new = None /\ rowLocks[id] = None))
    BY <1>3, <1>4
  <2>5. /\ new # None => new \in N!RowsOf(id) /\ N!Filled(id, new)
        /\ new = None => notified' = notified
    BY <1>5
  <2>6. disputed' \subseteq N!Files
    BY <1>1, <1>2, DisputedFiles DEF PostInv, PostsShape
  <2>7. Finishes(a, id, new, previous, sets)
    BY <1>8, <2>1, <2>2, <2>3, <2>4, <2>5, <2>6 DEF Finishes
  <2> QED BY <1>7, <2>4, <2>7, DoneGood
<1>10. request'[a] # None /\ request'[a].at = "committed"
  <2>1. PICK q : q = [[r EXCEPT !.at = "committed"] EXCEPT !.previous = previous]
    OBVIOUS
  <2>2. q \in N!Requests /\ q.at = "committed"
    BY <1>3, <2>1 DEF N!Requests
  <2>3. request'[a] = q
    BY <1>1, <1>8, <2>1 DEF PostInv, PostsShape
  <2> QED BY <2>2, <2>3, PostFacts
<1> QED BY <1>9, <1>10, CommitTells, CommitFits DEF GoodPosts

LEMMA DeletePostGood ==
    ASSUME PostInv, NEW a \in Editors, N!Delete(a)
    PROVE  GoodPosts
<1>1. PICK r, id : r = request[a] /\ id = r.id
  OBVIOUS
<1>2. r # None /\ r.at = "asked" /\ r.op = "delete" /\ N!Unlocked(a, id)
  BY <1>1 DEF N!Delete
<1>3. CASE id \in Homework /\ ~N!AssignmentWritable(a, r.seen.assignment)
  BY <1>1, <1>3, FailGood DEF N!Delete
<1>4. CASE ~(id \in Homework /\ ~N!AssignmentWritable(a, r.seen.assignment))
  <2>1. /\ row' = [row EXCEPT ![id] = None]
        /\ targets' = [targets EXCEPT ![id] = N!NoTargets] /\ disputed' = disputed \cup N!Disputed(r)
        /\ request' = [request EXCEPT ![a].at = "committed", ![a].previous = r.seen.file]
        /\ UNCHANGED <<notified, told, files, asked, rowLocks, page, linked, mishaps, plan>>
    BY <1>1, <1>4 DEF N!Delete
  <2>2. /\ id \in N!Posts /\ WritingOK(a) /\ PostOK(id)
    BY <1>1, <1>2, RequestFacts DEF PostInv
  <2>3. PICK previous \in N!Files \cup {None} : previous = r.seen.file
    BY <1>1, <1>2, <2>2, PostFacts DEF WritingOK
  <2>4. rowLocks[id] = None
    BY <1>1, <1>2, <2>2, PostFacts DEF N!Unlocked, PostOK, Busy
  <2>5. rowLocks' = [rowLocks EXCEPT ![id] = None]
    BY <2>1, <2>2, <2>4 DEF PostInv, PostsShape
  <2>6. PICK new : new = None
    OBVIOUS
  <2>7. /\ notified' \in [N!Posts -> BOOLEAN]
        /\ told' \in [N!Posts -> SUBSET (Children \cup {GuardianOf[c] : c \in Children})]
    BY <2>1 DEF PostInv, PostsShape
  <2>8. PICK sets \in N!TargetSets : sets = N!NoTargets
    BY DEF N!NoTargets, N!TargetSets
  <2>9. disputed' \subseteq N!Files
    BY <1>1, <1>2, <2>1, DisputedFiles DEF PostInv, PostsShape
  <2>10. PostInv'
    <3>1. Finishes(a, id, new, previous, sets)
      BY <1>1, <1>2, <2>1, <2>2, <2>3, <2>4, <2>5, <2>6, <2>7, <2>8, <2>9 DEF Finishes
    <3> QED BY <2>2, <2>3, <2>8, <3>1, DoneGood
  <2>11. ASSUME NEW i \in Announcements, N!Misfit(i)' PROVE N!Misfit(i)
    <3>1. row'[i] # None /\ i \in N!Posts
      BY <2>11, PostFacts DEF N!Misfit
    <3>2. i # id
      BY <2>1, <3>1 DEF PostInv, PostsShape
    <3>3. row'[i] = row[i] /\ targets'[i] = targets[i]
      BY <2>1, <3>1, <3>2 DEF PostInv, PostsShape
    <3> QED BY <2>11, <3>3 DEF N!Misfit
  <2>12. N!ScopesFit
    BY <2>11 DEF N!ScopesFit
  <2> QED BY <2>1, <2>10, <2>12, NothingAnnounced DEF GoodPosts
<1> QED BY <1>3, <1>4

LEMMA CleanUpGood ==
    ASSUME PostInv, NEW a \in Editors, N!CleanUp(a)
    PROVE  GoodPosts
<1>1. /\ request[a] # None /\ request[a].at = "committed" /\ request' = [request EXCEPT ![a] = None]
      /\ files' \subseteq files
      /\ UNCHANGED <<row, targets, disputed, asked, notified, told, rowLocks, page, linked, plan>>
  BY DEF N!CleanUp, N!RemovePrevious, N!tables
<1>2. mishaps' \in 0..plan.mishaps
  <2>1. mishaps \in 0..plan.mishaps /\ plan.mishaps \in Nat
    BY PostingsAssumption DEF PostInv, PostsShape, N!Sensible
  <2>2. mishaps' = mishaps \/ (mishaps < plan.mishaps /\ mishaps' = mishaps + 1)
    BY DEF N!CleanUp, N!RemovePrevious
  <2> QED BY <2>1, <2>2
<1>3. PostsShape'
  BY <1>1, <1>2 DEF PostInv, PostsShape
<1>4. request'[a] = None /\ \A b \in Editors \ {a} : request'[b] = request[b]
  BY <1>1 DEF PostInv, PostsShape
<1>5. ASSUME NEW i \in N!Posts PROVE PostOK(i)'
  <2>1. PostOK(i) /\ (rowLocks[i] # None => rowLocks[i] \in Editors \ {a})
    BY <1>1 DEF PostInv, PostsShape, PostOK, Busy
  <2> QED BY <1>1, <1>4, <2>1 DEF PostOK, Busy
<1>6. ASSUME NEW b \in Editors PROVE WritingOK(b)'
  BY <1>1, <1>4 DEF PostInv, WritingOK, Busy
<1> QED BY <1>1, <1>3, <1>5, <1>6, NothingAnnounced, NothingEdited DEF GoodPosts, PostInv

-----------------------------------------------------------------------------
(* The timer *)

LEMMA BatchIsOfAnnouncements ==
    ASSUME PostInv, NEW last PROVE N!Batch(last) \subseteq Nat \X Announcements
<1>1. ASSUME NEW id \in Announcements, N!Due(id) PROVE N!Key(id) \in Nat \X Announcements
  <2>1. row[id] # None /\ id \in N!Posts
    BY <1>1, PostFacts DEF N!Due
  <2>2. row[id] \in N!RowsOf(id)
    BY <2>1 DEF PostInv, PostOK
  <2> QED BY <2>2, PostFacts DEF N!Key
<1> QED BY <1>1 DEF N!Batch

LEMMA TimerGood ==
    ASSUME PostInv,
           N!StartJob \/ \E k \in page : N!SkipRow(k) \/ N!FailRow(k) \/ N!NotifyRow(k)
    PROVE  GoodPosts
<1>1. /\ UNCHANGED <<row, targets, files, disputed, asked, rowLocks, request, linked, plan, date>>
      /\ page' \subseteq Nat \X Announcements
  <2>1. \A k : N!Proceed(k) => page' \subseteq Nat \X Announcements
    BY BatchIsOfAnnouncements DEF N!Proceed, PostInv, PostsShape
  <2>2. N!StartJob => page' \subseteq Nat \X Announcements
    BY BatchIsOfAnnouncements DEF N!StartJob
  <2> QED BY <2>1, <2>2 DEF N!StartJob, N!SkipRow, N!FailRow, N!NotifyRow, N!tables
<1>2. mishaps' \in 0..plan.mishaps
  <2>1. mishaps \in 0..plan.mishaps /\ plan.mishaps \in Nat
    BY PostingsAssumption DEF PostInv, PostsShape, N!Sensible
  <2>2. mishaps' = mishaps \/ (mishaps < plan.mishaps /\ mishaps' = mishaps + 1)
    BY DEF N!StartJob, N!SkipRow, N!FailRow, N!NotifyRow
  <2> QED BY <2>1, <2>2
<1>3. files' \subseteq N!Files /\ linked' \subseteq Children
  BY <1>1 DEF PostInv, PostsShape
<1>4. CASE UNCHANGED <<notified, told>>
  BY <1>1, <1>2, <1>3, <1>4, PostsKept
<1>5. ASSUME NEW k \in page, N!NotifyRow(k) PROVE GoodPosts
  <2>1. PICK id \in Announcements : id = k[2]
    BY DEF PostInv, PostsShape
  <2>2. /\ rowLocks[id] = None /\ row[id] # None /\ ~notified[id] /\ N!Published(row[id])
        /\ N!Announce(id, row[id], targets[id]) /\ mishaps' = mishaps
    BY <1>5, <2>1 DEF N!NotifyRow, N!Due
  <2>3. PICK new \in N!RowsOf(id), sets \in N!TargetSets : new = row[id] /\ new = row'[id] /\ sets = targets[id] /\ sets = targets'[id]
    BY <1>1, <2>2, PostFacts DEF PostInv, PostsShape, PostOK
  <2>4. /\ N!AnnouncedOnce
        /\ notified' \in [N!Posts -> BOOLEAN] /\ \A i \in N!Posts \ {id} : notified'[i] = notified[i]
        /\ told' \in [N!Posts -> SUBSET (Children \cup {GuardianOf[c] : c \in Children})]
    BY <1>1, <2>2, <2>3, AnnounceTells
  <2>5. PostsShape'
    BY <1>1, <1>2, <2>4 DEF PostInv, PostsShape
  <2>6. \A i \in N!Posts : PostOK(i)'
    BY <1>1 DEF PostInv, PostOK, Busy
  <2>7. ASSUME NEW b \in Editors PROVE WritingOK(b)'
    <3>1. WritingOK(b) /\ (request[b] # None => request[b].id \in N!Posts)
      BY RequestFacts DEF PostInv
    <3>2. Busy(b) => request[b].id # id
      BY <2>2, <3>1, PostFacts DEF WritingOK, Busy
    <3>3. request[b] # None /\ request[b].op = "create" /\ request[b].at # "committed" => request[b].id # id
      BY <2>2, <3>1 DEF WritingOK
    <3> QED BY <1>1, <2>4, <3>1, <3>2, <3>3 DEF WritingOK, Busy
  <2> QED BY <1>1, <2>4, <2>5, <2>6, <2>7, NothingEdited DEF GoodPosts, PostInv
<1>6. N!StartJob \/ (\E k \in page : N!SkipRow(k) \/ N!FailRow(k)) => UNCHANGED <<notified, told>>
  BY DEF N!StartJob, N!SkipRow, N!FailRow, N!tables
<1> QED BY <1>4, <1>5, <1>6

LEMMA PostStep == PostInv /\ [N!Next]_(N!vars) => PostInv' /\ N!AnnouncedOnce /\ N!ScopesFit
<1> SUFFICES ASSUME PostInv, [N!Next]_(N!vars) PROVE GoodPosts
  BY DEF GoodPosts
<1>1. ASSUME NEW a \in Editors, N!Asking(a) \/ N!Answering(a) PROVE GoodPosts
  BY <1>1, AskingGood, LockPostGood, StorePostGood, CommitPostGood, DeletePostGood, CleanUpGood, FailGood
     DEF N!Answering
<1>2. CASE \/ \E c \in Children : N!EndLink(c)
           \/ \E b \in Lessons : N!EndAssignment(b)
           \/ N!NextDay
           \/ UNCHANGED N!vars
  <2>1. /\ UNCHANGED <<row, targets, disputed, asked, notified, told, files, rowLocks, request, page, mishaps, plan>>
        /\ linked' \subseteq linked
    BY <1>2 DEF N!EndLink, N!EndAssignment, N!NextDay, N!vars, N!tables
  <2> QED BY <2>1, PostsKept DEF PostInv, PostsShape
<1> QED BY <1>1, <1>2, TimerGood DEF N!Next

LEMMA PostInit == N!Init => PostInv
<1> SUFFICES ASSUME N!Init PROVE PostInv
  OBVIOUS
<1>1. plan \in Occasions /\ plan.mishaps \in Nat /\ 0 \in 0..MaxRequests
  BY PostingsAssumption DEF N!Init, N!Sensible
<1>2. PostsShape
  <2>1. N!NoTargets \in N!TargetSets
    BY DEF N!NoTargets, N!TargetSets
  <2> QED BY <1>1, <2>1 DEF N!Init, PostsShape
<1> QED BY <1>2, PostFacts DEF N!Init, PostInv, PostOK, WritingOK

LEMMA PostImplies == PostInv => N!TypeOK
  BY RequestFacts DEF PostInv, PostsShape, PostOK, N!TypeOK

-----------------------------------------------------------------------------
(* Files of posts.  The upload of a request is nobody else's until it        *)
(* commits, and what a request replaced no row names any more, unless it is  *)
(* disputed.                                                                 *)

Uses(a) ==
    IF request[a] = None THEN {}
    ELSE {request[a].seen.file, request[a].upload, request[a].previous} \ {None}

Orphans == files \ (N!Named \cup N!InHand \cup disputed)

\* No name comes before its request, so that the next one is fresh.
NamesOld ==
    /\ \A f \in files \cup N!Named : f <= asked
    /\ \A a \in Editors : \A f \in Uses(a) : f <= asked

NamesDiffer ==
    \A i, j \in N!Posts :
        /\ row[i] # None /\ row[j] # None
        /\ row[i].file # None /\ row[i].file \notin disputed /\ row[i].file = row[j].file
        => i = j

UploadOK(a) ==
    LET r == request[a] IN r # None /\ r.at # "committed" =>
        /\ r.previous = None
        /\ r.op = "delete" => r.upload = None
        /\ r.upload # None =>
              /\ r.upload # r.seen.file /\ r.upload \notin N!Named
              /\ \A b \in Editors \ {a} : r.upload \notin Uses(b)
              /\ r.at = "stored" <=> r.upload \in files

RemovalOK(a) ==
    LET r == request[a] IN
    r # None /\ r.at = "committed" /\ r.previous \notin disputed => r.previous \notin N!Named

StoreInv ==
    /\ NamesOld
    /\ NamesDiffer
    /\ \A a \in Editors : UploadOK(a) /\ RemovalOK(a)
    /\ N!Named \ disputed \subseteq files
    /\ Cardinality(Orphans) <= mishaps

FilesInv == PostInv /\ StoreInv

\* The file of what a request writes.
LEMMA NewFile ==
    ASSUME PostInv, NEW a \in Editors, NEW r, r = request[a], r # None, r.op # "delete"
    PROVE  /\ r.upload # None => N!NewRow(r).file = r.upload
           /\ r.upload = None => N!NewRow(r).file \in {None, r.seen.file}
<1>1. WritingOK(a) /\ r.seen \in N!RowsOf(r.id) /\ (r.upload # None <=> HasUpload(r.body))
  BY DEF PostInv, WritingOK
<1>2. "file" \in DOMAIN r.seen
  BY <1>1 DEF N!RowsOf, N!AnnouncementRows, N!HomeworkRows
<1>3. N!NewRow(r).file = IF "file" \notin DOMAIN r.body THEN r.seen["file"] ELSE r.upload
  BY <1>2 DEF N!NewRow, N!Merged
<1> QED BY <1>1, <1>3 DEF HasUpload

LEMMA NameFacts ==
    /\ \A f : f \in N!Named <=> f # None /\ \E i \in N!Posts : row[i] # None /\ row[i].file = f
    /\ \A f : f \in N!Named' <=> f # None /\ \E i \in N!Posts : row'[i] # None /\ row'[i].file = f
  BY DEF N!Named

\* What requests have in hand, before and after a step of one of them.
LEMMA HandFacts ==
    ASSUME NEW a \in Editors, \A b \in Editors \ {a} : request'[b] = request[b]
    PROVE  /\ \A f : f \in N!InHand =>
                 \/ f \in N!InHand'
                 \/ request[a] # None /\ f = request[a].previous
                 \/ request[a] # None /\ request[a].at # "committed" /\ f = request[a].upload
           /\ request'[a] # None => request'[a].previous \in N!InHand'
           /\ request'[a] # None /\ request'[a].at # "committed" => request'[a].upload \in N!InHand'
           /\ \A f : f \in N!InHand' =>
                 \/ f \in N!InHand
                 \/ request'[a] # None /\ f \in {request'[a].upload, request'[a].previous}
  BY DEF N!InHand

LEMMA FilesAreNumbers ==
    ASSUME PostInv
    PROVE  /\ IsFiniteSet(files) /\ files \subseteq Nat /\ N!Files \subseteq Nat
           /\ None \notin files /\ asked \in Nat /\ mishaps \in Nat
<1>1. MaxRequests \in Nat /\ N!Files = 1..MaxRequests
  BY PostingsAssumption DEF N!Sensible, N!Files
<1>2. IsFiniteSet(N!Files)
  BY <1>1, FS_Interval
<1>3. files \subseteq N!Files /\ asked \in 0..MaxRequests /\ mishaps \in 0..plan.mishaps
  BY DEF PostInv, PostsShape
<1>4. N!Files \subseteq Nat /\ asked \in Nat /\ mishaps \in Nat
  BY <1>1, <1>3
<1>5. IsFiniteSet(files)
  BY <1>2, <1>3, FS_Subset
<1>6. None \notin files
  BY <1>3, PostFacts
<1> QED BY <1>3, <1>4, <1>5, <1>6

\* No more files than before are left without a name.
LEMMA FewOrphans ==
    ASSUME StoreInv, PostInv, PostInv', Orphans' \subseteq Orphans, mishaps <= mishaps'
    PROVE  Cardinality(Orphans)' <= mishaps'
<1>1. IsFiniteSet(Orphans) /\ IsFiniteSet(Orphans')
  BY FilesAreNumbers, FS_Subset DEF Orphans
<1>2. /\ Cardinality(Orphans) \in Nat /\ Cardinality(Orphans') \in Nat
      /\ Cardinality(Orphans') <= Cardinality(Orphans)
  BY <1>1, FS_Subset, FS_CardinalityType
<1>3. mishaps \in Nat /\ mishaps' \in Nat
  BY DEF PostInv, PostsShape
<1> QED BY <1>2, <1>3 DEF StoreInv

-----------------------------------------------------------------------------
(* Steps of a request that leave the rows alone *)

\* What a request has in its fields, read and to be stored.
LEMMA UsesTyped ==
    ASSUME PostInv, NEW a \in Editors
    PROVE  Uses(a) \subseteq N!Files
<1>1. CASE request[a] # None
  <2>1. PICK r : r = request[a] /\ r # None
    BY <1>1
  <2>2. /\ r.upload \in N!Files \cup {None} /\ r.previous \in N!Files \cup {None}
        /\ r.seen.file \in N!Files \cup {None}
    <3>1. r.seen \in N!AnnouncementRows \cup N!HomeworkRows
      BY <2>1, RequestFacts
    <3>2. r.seen.file \in N!Files \cup {None}
      BY <3>1 DEF N!AnnouncementRows, N!HomeworkRows
    <3> QED BY <2>1, <3>2, RequestFacts
  <2> QED BY <2>1, <2>2 DEF Uses
<1> QED BY <1>1 DEF Uses

LEMMA NamedTyped == PostInv => N!Named \subseteq N!Files
<1> SUFFICES ASSUME PostInv, NEW f \in N!Named PROVE f \in N!Files
  OBVIOUS
<1>1. PICK i \in N!Posts : f # None /\ row[i] # None /\ row[i].file = f
  BY NameFacts
<1>2. row[i] \in N!RowsOf(i)
  BY <1>1 DEF PostInv, PostOK
<1> QED BY <1>1, <1>2, PostFacts

\* One request changes, and a file may come or go.
LEMMA RowsAsTheyAre ==
    ASSUME PostInv, PostInv', StoreInv, UNCHANGED <<row, disputed, mishaps>>, asked <= asked',
           NEW a \in Editors, \A b \in Editors \ {a} : request'[b] = request[b],
           UploadOK(a)', RemovalOK(a)',
           \A f \in Uses(a)' : f <= asked', \A f \in files' : f <= asked',
           \A b \in Editors \ {a} : \A f \in Uses(a)' :
               request[b] # None /\ request[b].at # "committed" => f # request[b].upload,
           NEW lost, files \ {lost} \subseteq files', lost \notin N!Named \ disputed,
           \A b \in Editors \ {a} :
               request[b] # None /\ request[b].at # "committed" /\ request[b].upload # None =>
                   (request[b].upload \in files' <=> request[b].upload \in files),
           Orphans' \subseteq Orphans
    PROVE  StoreInv'
<1>1. N!Named' = N!Named
  BY DEF N!Named
<1>2. NamesDiffer'
  BY DEF StoreInv, NamesDiffer
<1>3. ASSUME NEW b \in Editors \ {a} PROVE UploadOK(b)' /\ RemovalOK(b)' /\ \A f \in Uses(b)' : f <= asked'
  <2>1. UploadOK(b) /\ RemovalOK(b) /\ request'[b] = request[b] /\ Uses(b)' = Uses(b)
    BY DEF StoreInv, Uses
  <2>2. \A c \in Editors \ {a} : Uses(c)' = Uses(c)
    BY DEF Uses
  <2>3. ASSUME request[b] # None, request[b].at # "committed", request[b].upload # None
        PROVE  \A c \in Editors \ {b} : request[b].upload \notin Uses(c)'
    BY <2>1, <2>2, <2>3 DEF UploadOK
  <2>4. UploadOK(b)'
    BY <1>1, <2>1, <2>3 DEF UploadOK
  <2>5. RemovalOK(b)'
    BY <1>1, <2>1 DEF RemovalOK
  <2>6. ASSUME NEW f \in Uses(b) PROVE f <= asked'
    <3>1. f <= asked /\ f \in Nat /\ asked \in Nat /\ asked' \in Nat
      BY UsesTyped, FilesAreNumbers DEF StoreInv, NamesOld, PostInv, PostsShape
    <3> QED BY <3>1
  <2> QED BY <2>1, <2>4, <2>5, <2>6
<1>4. NamesOld'
  <2>1. ASSUME NEW f \in N!Named PROVE f <= asked'
    <3>1. f <= asked /\ f \in Nat /\ asked \in Nat /\ asked' \in Nat
      BY NamedTyped, FilesAreNumbers DEF StoreInv, NamesOld, PostInv, PostsShape
    <3> QED BY <3>1
  <2> QED BY <1>1, <1>3, <2>1 DEF NamesOld
<1>5. N!Named' \ disputed' \subseteq files'
  BY <1>1 DEF StoreInv
<1>6. mishaps <= mishaps'
  BY DEF PostInv, PostsShape
<1>7. Cardinality(Orphans)' <= mishaps'
  BY <1>6, FewOrphans
<1> QED BY <1>2, <1>3, <1>4, <1>5, <1>7 DEF StoreInv

LEMMA AskFiles ==
    ASSUME PostInv, PostInv', StoreInv, NEW a \in Editors, NEW op, NEW id \in N!Posts, NEW body,
           op = "create" \/ (op \in {"update", "delete"} /\ row[id] # None), op = "delete" => body = N!NoBody,
           N!Ask(a, op, id, body)
    PROVE  StoreInv'
<1>1. PICK upload, seen : upload = N!Upload(body) /\ seen = IF op = "create" THEN N!New(id) ELSE row[id]
  OBVIOUS
<1>2. PICK new : new = [op |-> op, id |-> id, body |-> body, upload |-> upload, seen |-> seen,
                        among |-> targets[id], flag |-> notified[id], at |-> "asked", previous |-> None]
  OBVIOUS
<1>3. /\ request[a] = None /\ request' = [request EXCEPT ![a] = new] /\ asked' = asked + 1
      /\ UNCHANGED <<row, files, disputed, mishaps>>
  BY <1>1, <1>2 DEF N!Ask, N!tables
<1>4. asked \in Nat /\ asked' \in Nat /\ asked < asked' /\ asked <= asked'
  BY <1>3, FilesAreNumbers
<1>5. upload \in {None, asked'} /\ (op = "delete" => upload = None)
  BY <1>1, <1>3 DEF N!Upload, N!NoBody
<1>6. request'[a] = new /\ \A b \in Editors \ {a} : request'[b] = request[b]
  BY <1>3 DEF PostInv, PostsShape
<1>7. /\ new.op = op /\ new.upload = upload /\ new.seen = seen /\ new.id = id
      /\ new.at = "asked" /\ new.previous = None
  BY <1>2
<1>8. N!Named' = N!Named /\ seen.file \in N!Named \cup {None}
  <2>1. CASE op = "create"
    BY <1>1, <1>3, <2>1 DEF N!New, N!Draft, N!Exercise, N!Named
  <2>2. CASE op # "create"
    BY <1>1, <1>3, <2>2, NameFacts DEF N!Named
  <2> QED BY <2>1, <2>2
<1>9. /\ \A f \in files \cup N!Named : f \in Nat /\ f <= asked
      /\ \A b \in Editors : \A f \in Uses(b) : f \in Nat /\ f <= asked
  BY FilesAreNumbers, NamedTyped, UsesTyped DEF StoreInv, NamesOld
<1>10. /\ \A f \in files \cup N!Named : f <= asked' /\ f # asked'
       /\ \A b \in Editors : \A f \in Uses(b) : f <= asked' /\ f # asked'
  BY <1>4, <1>9
<1>11. Uses(a)' \subseteq {seen.file, upload} \ {None} /\ \A b \in Editors \ {a} : Uses(b)' = Uses(b)
  BY <1>6, <1>7 DEF Uses
<1>12. UploadOK(a)'
  <2>1. upload # None => /\ upload # seen.file /\ upload \notin N!Named /\ upload \notin files
                         /\ \A b \in Editors \ {a} : upload \notin Uses(b)'
    BY <1>5, <1>8, <1>10, <1>11
  <2> QED BY <1>3, <1>5, <1>6, <1>7, <1>8, <2>1 DEF UploadOK
<1>13. RemovalOK(a)'
  BY <1>6, <1>7 DEF RemovalOK
<1>14. \A f \in Uses(a)' : f <= asked'
  BY <1>4, <1>5, <1>8, <1>10, <1>11
<1>15. ASSUME NEW b \in Editors \ {a}, NEW f \in Uses(a)', request[b] # None, request[b].at # "committed"
       PROVE  f # request[b].upload
  <2>1. UploadOK(b) /\ f # None /\ (f \in N!Named \/ f = asked')
    BY <1>5, <1>8, <1>11, <1>15 DEF StoreInv
  <2>2. request[b].upload # None => request[b].upload \in Uses(b)
    BY <1>15 DEF Uses
  <2> QED BY <1>10, <1>15, <2>1, <2>2 DEF UploadOK
<1>16. Orphans' \subseteq Orphans
  <2>1. \A f : f \in N!InHand => f \in N!InHand'
    BY <1>3, <1>6, HandFacts
  <2> QED BY <1>3, <1>8, <2>1 DEF Orphans
<1> QED BY <1>3, <1>4, <1>6, <1>10, <1>12, <1>13, <1>14, <1>15, <1>16, FilesAreNumbers, RowsAsTheyAre

LEMMA FailFiles ==
    ASSUME PostInv, PostInv', StoreInv, NEW a \in Editors, N!Fail(a)
    PROVE  StoreInv'
<1>1. PICK r : r = request[a]
  OBVIOUS
<1>2. /\ r # None /\ r.at # "committed"
      /\ files' = IF r.at = "stored" THEN files \ {r.upload} ELSE files
      /\ request' = [request EXCEPT ![a] = None]
      /\ UNCHANGED <<row, disputed, asked, mishaps>>
  BY <1>1 DEF N!Fail, N!tables
<1>3. UploadOK(a) /\ r.previous = None
  BY <1>1, <1>2 DEF StoreInv, UploadOK
<1>4. request'[a] = None /\ \A b \in Editors \ {a} : request'[b] = request[b]
  BY <1>2 DEF PostInv, PostsShape
<1>5. UploadOK(a)' /\ RemovalOK(a)' /\ Uses(a)' = {} /\ N!Named' = N!Named
  BY <1>2, <1>4 DEF UploadOK, RemovalOK, Uses, N!Named
<1>6. files \ {r.upload} \subseteq files' /\ r.upload \notin N!Named \ disputed /\ files' \subseteq files
  BY <1>1, <1>2, <1>3, NameFacts DEF UploadOK
<1>7. ASSUME NEW b \in Editors \ {a}, request[b] # None, request[b].at # "committed", request[b].upload # None
      PROVE  request[b].upload \in files' <=> request[b].upload \in files
  <2>1. UploadOK(b) /\ (r.upload # None => r.upload \in Uses(a))
    BY <1>1, <1>2 DEF StoreInv, Uses
  <2>2. request[b].upload # r.upload
    BY <1>7, <2>1 DEF UploadOK
  <2> QED BY <1>2, <2>2
<1>8. Orphans' \subseteq Orphans
  <2>1. ASSUME NEW f \in files', f \notin N!Named, f \notin N!InHand', f \notin disputed PROVE f \notin N!InHand
    <3>1. f # None /\ f # r.previous
      BY <1>3, <1>6, <2>1, FilesAreNumbers
    <3>2. f # r.upload
      BY <1>1, <1>2, <1>3, <2>1, <3>1 DEF UploadOK
    <3> QED BY <1>1, <1>4, <2>1, <3>1, <3>2, HandFacts
  <2> QED BY <1>2, <1>5, <1>6, <2>1 DEF Orphans
<1>9. asked <= asked' /\ \A f \in files' : f <= asked'
  BY <1>2, <1>6, FilesAreNumbers DEF StoreInv, NamesOld
<1> QED BY <1>2, <1>4, <1>5, <1>6, <1>7, <1>8, <1>9, RowsAsTheyAre

\* A request goes on without writing.
LEMMA GoesOnFiles ==
    ASSUME PostInv, PostInv', StoreInv, NEW a \in Editors, request[a] # None,
           request[a].at \notin {"stored", "committed"}, NEW q, request' = [request EXCEPT ![a] = q],
           q.op = request[a].op, q.upload = request[a].upload,
           q.seen = request[a].seen, q.previous = request[a].previous, q # None,
           \/ q.at = "locked" /\ files' = files
           \/ q.at = "stored" /\ files' = files \cup ({request[a].upload} \ {None}),
           UNCHANGED <<row, disputed, asked, mishaps>>
    PROVE  StoreInv'
<1>1. UploadOK(a) /\ q.at # "committed"
  BY DEF StoreInv
<1>2. request'[a] = q /\ \A b \in Editors \ {a} : request'[b] = request[b]
  BY DEF PostInv, PostsShape
<1>3. N!Named' = N!Named /\ \A b \in Editors : Uses(b)' = Uses(b)
  BY <1>2 DEF N!Named, Uses
<1>4. files \subseteq files' /\ files' \subseteq files \cup (Uses(a) \cap {q.upload})
  BY DEF Uses
<1>5. UploadOK(a)' /\ RemovalOK(a)'
  <2>1. q.upload # None => (q.at = "stored" <=> q.upload \in files')
    BY <1>1 DEF UploadOK
  <2> QED BY <1>1, <1>2, <1>3, <2>1 DEF UploadOK, RemovalOK
<1>6. ASSUME NEW b \in Editors \ {a}, request[b] # None, request[b].at # "committed"
      PROVE  /\ \A f \in Uses(a) : f # request[b].upload
             /\ request[b].upload # None => (request[b].upload \in files' <=> request[b].upload \in files)
  <2>1. UploadOK(b) /\ None \notin Uses(a)
    BY DEF StoreInv, Uses
  <2>2. \A f \in Uses(a) : f # request[b].upload
    BY <1>6, <2>1 DEF UploadOK
  <2> QED BY <1>4, <2>2
<1>7. Orphans' \subseteq Orphans
  <2>1. \A f : f \in N!InHand => f \in N!InHand'
    BY <1>1, <1>2, HandFacts
  <2>2. q.upload \in N!InHand'
    BY <1>1, <1>2, HandFacts
  <2> QED BY <1>3, <1>4, <2>1, <2>2 DEF Orphans
<1>8. asked <= asked' /\ (\A f \in files' : f <= asked') /\ (\A f \in Uses(a)' : f <= asked')
  BY <1>3, <1>4, FilesAreNumbers DEF StoreInv, NamesOld
<1>9. PICK lost : lost = None
  OBVIOUS
<1>10. files \ {lost} \subseteq files' /\ lost \notin N!Named \ disputed
  BY <1>4, <1>9, NameFacts
<1> QED BY <1>2, <1>3, <1>5, <1>6, <1>7, <1>8, <1>10, RowsAsTheyAre

LEMMA LockFiles ==
    ASSUME PostInv, PostInv', StoreInv, NEW a \in Editors, N!Lock(a) \/ N!Store(a)
    PROVE  StoreInv'
<1>1. CASE N!Fail(a)
  BY <1>1, FailFiles
<1>2. CASE ~N!Fail(a) /\ N!Lock(a)
  <2>1. PICK flag : flag = N!FreshFlag(a)
    OBVIOUS
  <2>2. PICK q : q = [[request[a] EXCEPT !.at = "locked"] EXCEPT !.flag = flag]
    OBVIOUS
  <2>3. /\ request[a] # None /\ request[a].at = "asked" /\ request' = [request EXCEPT ![a] = q]
        /\ UNCHANGED <<row, files, disputed, asked, mishaps>>
    BY <1>2, <2>1, <2>2 DEF N!Lock, N!tables
  <2>4. /\ q.at = "locked" /\ q.op = request[a].op /\ q.upload = request[a].upload
        /\ q.seen = request[a].seen /\ q.previous = request[a].previous
    BY <2>2, <2>3, RequestFacts DEF N!Requests
  <2>5. request'[a] = q /\ q # None
    <3>1. request'[a] = q
      BY <2>3 DEF PostInv, PostsShape
    <3>2. request[a].id \in N!Posts /\ request[a] \in N!Requests
      BY <2>3, RequestFacts
    <3>3. flag \in BOOLEAN
      BY <2>1, <3>2 DEF N!FreshFlag, PostInv, PostsShape
    <3>4. q \in N!Requests
      BY <2>2, <3>2, <3>3 DEF N!Requests
    <3> QED BY <3>1, <3>4, PostFacts
  <2> QED BY <2>3, <2>4, <2>5, GoesOnFiles
<1>3. CASE ~N!Fail(a) /\ N!Store(a)
  <2>1. PICK q : q = [request[a] EXCEPT !.at = "stored"]
    OBVIOUS
  <2>2. /\ request[a] # None /\ request[a].at \notin {"stored", "committed"}
        /\ request' = [request EXCEPT ![a] = q]
        /\ files' = files \cup ({request[a].upload} \ {None})
        /\ UNCHANGED <<row, disputed, asked, mishaps>>
    BY <1>3, <2>1 DEF N!Store, N!Goto, N!tables, N!ReadyToStore
  <2>3. /\ q.at = "stored" /\ q.op = request[a].op /\ q.upload = request[a].upload
        /\ q.seen = request[a].seen /\ q.previous = request[a].previous
    BY <2>1, <2>2, RequestFacts DEF N!Requests
  <2>4. q # None
    BY <2>1, <2>2, RequestFacts, PostFacts DEF N!Requests
  <2> QED BY <2>2, <2>3, <2>4, GoesOnFiles
<1> QED BY <1>1, <1>2, <1>3

-----------------------------------------------------------------------------
(* Steps that write a row or remove a file *)

\* A row is written or deleted: its file is the upload, the one that was read,
\* or none; of what was read another request may have changed.
Writes(a, id, new, file, q) ==
    /\ request[a] # None /\ request[a].at # "committed" /\ id = request[a].id
    /\ file = IF new = None THEN None ELSE new.file
    /\ file = request[a].upload \/ (request[a].upload = None /\ file \in {None, request[a].seen.file})
    /\ file # None /\ file = request[a].upload => file \in files
    /\ q # None /\ q.at = "committed" /\ q.seen = request[a].seen /\ q.upload = request[a].upload
    /\ q.previous = IF request[a].seen.file # file THEN request[a].seen.file ELSE None
    /\ row' = [row EXCEPT ![id] = new] /\ request' = [request EXCEPT ![a] = q]
    /\ disputed' = disputed \cup N!Disputed(request[a])
    /\ UNCHANGED <<files, asked, mishaps>>

\* Either the row still names what was read, or both names are disputed.
LEMMA DisputedFacts ==
    ASSUME NEW r, NEW id, id = r.id
    PROVE  \/ row[id] # None /\ row[id].file = r.seen.file
           \/ /\ r.seen.file # None => r.seen.file \in N!Disputed(r)
              /\ row[id] # None /\ row[id].file # None => row[id].file \in N!Disputed(r)
  BY DEF N!Disputed

LEMMA DoneFiles ==
    ASSUME PostInv, PostInv', StoreInv, NEW a \in Editors, NEW id \in N!Posts,
           NEW new, NEW file, NEW q, Writes(a, id, new, file, q)
    PROVE  StoreInv'
<1> USE DEF Writes
<1>1. PICK r : r = request[a]
  OBVIOUS
<1>2. /\ r.previous = None
      /\ r.upload # None => /\ r.upload # r.seen.file /\ r.upload \notin N!Named
                            /\ \A b \in Editors \ {a} : r.upload \notin Uses(b)
  BY <1>1 DEF StoreInv, UploadOK
<1>3. request'[a] = q /\ \A b \in Editors \ {a} : request'[b] = request[b]
  BY DEF PostInv, PostsShape
<1>4. row'[id] = new /\ \A i \in N!Posts \ {id} : row'[i] = row[i]
  BY DEF PostInv, PostsShape
<1>5. disputed \subseteq disputed'
  OBVIOUS
<1>6. \/ row[id] # None /\ row[id].file = r.seen.file
      \/ /\ r.seen.file # None => r.seen.file \in disputed'
         /\ row[id] # None /\ row[id].file # None => row[id].file \in disputed'
  BY <1>1, DisputedFacts
<1>7. \A f : f \in N!Named' <=> \/ f # None /\ f = file
                                \/ f # None /\ \E i \in N!Posts \ {id} : row[i] # None /\ row[i].file = f
  <2>1. \A f : f \in N!Named' <=> f # None /\ \E i \in N!Posts : row'[i] # None /\ row'[i].file = f
    BY NameFacts
  <2> QED BY <1>4, <2>1
<1>8. file # None /\ file = r.seen.file /\ file \notin disputed' => file \in N!Named
  BY <1>6, NameFacts
<1>9. N!Named' \ disputed' \subseteq files
  <2>1. ASSUME NEW f \in N!Named', f \notin disputed' PROVE f \in files
    <3>1. f \in N!Named => f \in files
      BY <1>5, <2>1 DEF StoreInv
    <3>2. CASE f = file
      BY <1>1, <1>8, <2>1, <3>1, <3>2, NameFacts
    <3>3. CASE f # file
      BY <1>7, <2>1, <3>1, <3>3, NameFacts
    <3> QED BY <3>2, <3>3
  <2> QED BY <2>1
\* A name of another row is neither the upload nor, undisputed, what was read.
<1>10. ASSUME NEW i \in N!Posts \ {id}, row[i] # None, row[i].file # None, row[i].file \notin disputed'
       PROVE  row[i].file # r.seen.file /\ row[i].file # file
  <2>1. row[i].file \in N!Named
    BY <1>10, NameFacts
  <2>2. row[i].file # r.seen.file
    <3>1. SUFFICES ASSUME row[i].file = r.seen.file PROVE FALSE
      OBVIOUS
    <3>2. row[id] # None /\ row[id].file = row[i].file
      BY <1>6, <1>10, <3>1
    <3> QED BY <1>5, <1>10, <3>2 DEF StoreInv, NamesDiffer
  <2> QED BY <1>1, <1>2, <1>10, <2>1, <2>2
<1>11. NamesDiffer'
  <2>1. ASSUME NEW i \in N!Posts, NEW j \in N!Posts, row'[i] # None, row'[j] # None,
               row'[i].file # None, row'[i].file \notin disputed', row'[i].file = row'[j].file
        PROVE  i = j
    <3>1. \A k \in N!Posts \ {id} :
              row'[k] # None /\ row'[k].file # None /\ row'[k].file \notin disputed' => row'[k].file # file
      BY <1>4, <1>10
    <3>2. (i = id => row'[i].file = file) /\ (j = id => row'[j].file = file)
      BY <1>4, <2>1
    <3>3. CASE i # id /\ j # id
      BY <1>4, <1>5, <2>1, <3>3 DEF StoreInv, NamesDiffer
    <3> QED BY <2>1, <3>1, <3>2, <3>3
  <2> QED BY <2>1 DEF NamesDiffer
<1>12. Uses(a)' \subseteq Uses(a) /\ \A b \in Editors \ {a} : Uses(b)' = Uses(b)
  BY <1>1, <1>3 DEF Uses
<1>13. N!Named' \subseteq N!Named \cup Uses(a)
  <2>1. file \in Uses(a) \cup {None}
    BY <1>1 DEF Uses
  <2> QED BY <1>7, <2>1, NameFacts
<1>14. NamesOld'
  BY <1>12, <1>13 DEF StoreInv, NamesOld
<1>15. UploadOK(a)' /\ RemovalOK(a)'
  <2>1. q.previous \notin disputed' => q.previous \notin N!Named'
    <3>1. SUFFICES ASSUME q.previous \notin disputed', q.previous \in N!Named' PROVE FALSE
      OBVIOUS
    <3>2. q.previous # None /\ q.previous = r.seen.file /\ q.previous # file
      BY <1>1, <3>1, NameFacts
    <3>3. PICK i \in N!Posts \ {id} : row[i] # None /\ row[i].file = q.previous
      BY <1>7, <3>1, <3>2
    <3> QED BY <1>10, <3>1, <3>2, <3>3
  <2> QED BY <1>3, <2>1 DEF UploadOK, RemovalOK
<1>16. ASSUME NEW b \in Editors \ {a} PROVE UploadOK(b)' /\ RemovalOK(b)'
  <2>1. UploadOK(b) /\ RemovalOK(b) /\ request'[b] = request[b] /\ files' = files
    BY <1>3 DEF StoreInv
  <2>2. UploadOK(b)'
    <3>1. ASSUME request[b] # None, request[b].at # "committed", request[b].upload # None
          PROVE  /\ request[b].upload \notin N!Named'
                 /\ \A c \in Editors \ {b} : request[b].upload \notin Uses(c)'
      <4>1. /\ request[b].upload \notin N!Named
            /\ \A c \in Editors \ {b} : request[b].upload \notin Uses(c)
        BY <2>1, <3>1 DEF UploadOK
      <4> QED BY <1>12, <1>13, <4>1
    <3> QED BY <2>1, <3>1 DEF UploadOK
  <2>3. RemovalOK(b)'
    <3>1. ASSUME request[b] # None, request[b].at = "committed", request[b].previous \notin disputed',
                 request[b].previous \in N!Named'
          PROVE  FALSE
      <4>1. PICK p : p = request[b].previous /\ p # None /\ p \notin N!Named
        BY <1>5, <2>1, <3>1, NameFacts DEF RemovalOK
      <4>2. p = file
        BY <1>7, <3>1, <4>1, NameFacts
      <4>3. p \in Uses(b)
        BY <3>1, <4>1 DEF Uses
      <4>4. p # r.upload
        BY <1>2, <4>1, <4>3
      <4>5. p = r.seen.file
        BY <1>1, <4>1, <4>2, <4>4
      <4> QED BY <1>8, <3>1, <4>1, <4>2, <4>5
    <3> QED BY <2>1, <3>1 DEF RemovalOK
  <2> QED BY <2>2, <2>3
<1>17. Orphans' \subseteq Orphans
  <2>1. ASSUME NEW f \in files, f \notin N!Named', f \notin N!InHand', f \notin disputed'
        PROVE  f \notin N!Named /\ f \notin N!InHand /\ f \notin disputed
    <3>1. f # None /\ f # q.previous
      BY <1>3, <2>1, FilesAreNumbers, HandFacts
    <3>2. f # file
      BY <1>7, <2>1, <3>1
    <3>3. f # r.seen.file
      BY <1>1, <3>1, <3>2
    <3>4. f \notin N!Named
      <4>1. SUFFICES ASSUME NEW i \in N!Posts, row[i] # None, row[i].file = f PROVE FALSE
        BY NameFacts
      <4>2. i = id
        BY <1>7, <2>1, <3>1, <4>1
      <4> QED BY <1>6, <2>1, <3>1, <3>3, <4>1, <4>2
    <3>5. f # r.upload
      BY <1>1, <3>1, <3>2
    <3>6. f \notin N!InHand
      BY <1>1, <1>2, <1>3, <2>1, <3>1, <3>5, HandFacts
    <3> QED BY <1>5, <2>1, <3>4, <3>6
  <2> QED BY <2>1 DEF Orphans
<1>18. mishaps <= mishaps'
  BY DEF PostInv, PostsShape
<1>19. Cardinality(Orphans)' <= mishaps'
  BY <1>17, <1>18, FewOrphans
<1> QED BY <1>9, <1>11, <1>14, <1>15, <1>16, <1>19 DEF StoreInv

LEMMA CommitFiles ==
    ASSUME PostInv, PostInv', StoreInv, NEW a \in Editors, N!Commit(a)
    PROVE  StoreInv'
<1>1. PICK r, new, previous : r = request[a] /\ new = N!NewRow(r) /\ previous = N!Replaced(r.seen, new)
  OBVIOUS
<1>2. PICK id, q : id = r.id /\ q = [[r EXCEPT !.at = "committed"] EXCEPT !.previous = previous]
  OBVIOUS
<1>3. /\ r # None /\ r.at = "stored" /\ row' = [row EXCEPT ![id] = new]
      /\ disputed' = disputed \cup N!Disputed(r)
      /\ request' = [request EXCEPT ![a].at = "committed", ![a].previous = previous]
      /\ UNCHANGED <<files, asked, mishaps>>
  BY <1>1, <1>2 DEF N!Commit
<1>4. /\ r \in N!Requests /\ id \in N!Posts /\ WritingOK(a) /\ UploadOK(a)
  BY <1>1, <1>2, <1>3, RequestFacts DEF PostInv, StoreInv
<1>5. r.op # "delete" /\ r.seen \in N!RowsOf(id) /\ N!IsBody(r.body)
  BY <1>1, <1>2, <1>3, <1>4 DEF WritingOK, Busy
<1>6. r.upload # None => r.upload \in files
  BY <1>1, <1>3, <1>4 DEF UploadOK
<1>7. new # None
  BY <1>1, <1>2, <1>4, <1>5, MergedIsRow, PostFacts, RequestFacts, <1>3 DEF N!NewRow
<1>8. PICK file : file = new.file
  OBVIOUS
<1>9. file = r.upload \/ (r.upload = None /\ file \in {None, r.seen.file})
  BY <1>1, <1>3, <1>5, <1>8, NewFile
<1>10. /\ q.at = "committed" /\ q.seen = r.seen /\ q.upload = r.upload /\ q.previous = previous
  BY <1>2, <1>4 DEF N!Requests
<1>11. request' = [request EXCEPT ![a] = q]
  BY <1>1, <1>2, <1>3
<1>12. q # None
  BY <1>1, <1>3, <1>11, RequestFacts, PostFacts DEF PostInv, PostsShape, N!Requests
<1>13. previous = IF r.seen.file # file THEN r.seen.file ELSE None
  BY <1>1, <1>8 DEF N!Replaced
<1>14. file = IF new = None THEN None ELSE new.file
  BY <1>7, <1>8
<1>20. Writes(a, id, new, file, q)
  BY <1>1, <1>2, <1>3, <1>6, <1>9, <1>10, <1>11, <1>12, <1>13, <1>14 DEF Writes
<1> QED BY <1>4, <1>20, DoneFiles

LEMMA DeleteFiles ==
    ASSUME PostInv, PostInv', StoreInv, NEW a \in Editors, N!Delete(a)
    PROVE  StoreInv'
<1>1. CASE N!Fail(a)
  BY <1>1, FailFiles
<1>2. CASE ~N!Fail(a)
  <2>1. PICK r, new, file : r = request[a] /\ new = None /\ file = None
    OBVIOUS
  <2>2. PICK id, previous : id = r.id /\ previous = r.seen.file
    OBVIOUS
  <2>3. PICK q : q = [[r EXCEPT !.at = "committed"] EXCEPT !.previous = previous]
    OBVIOUS
  <2>4. /\ r # None /\ r.at = "asked" /\ r.op = "delete" /\ row' = [row EXCEPT ![id] = new]
        /\ disputed' = disputed \cup N!Disputed(r)
        /\ request' = [request EXCEPT ![a].at = "committed", ![a].previous = previous]
        /\ UNCHANGED <<files, asked, mishaps>>
    BY <1>2, <2>1, <2>2 DEF N!Delete
  <2>5. /\ r \in N!Requests /\ id \in N!Posts /\ UploadOK(a)
    BY <2>1, <2>2, <2>4, RequestFacts DEF PostInv, StoreInv
  <2>6. r.upload = None
    BY <2>1, <2>4, <2>5 DEF UploadOK
  <2>7. /\ q.at = "committed" /\ q.seen = r.seen /\ q.upload = r.upload /\ q.previous = previous
    BY <2>3, <2>5 DEF N!Requests
  <2>8. request' = [request EXCEPT ![a] = q]
    BY <2>1, <2>3, <2>4
  <2>9. q # None
    BY <2>1, <2>4, <2>8, RequestFacts, PostFacts DEF PostInv, PostsShape, N!Requests
  <2>10. /\ file = IF new = None THEN None ELSE new.file
         /\ previous = IF r.seen.file # file THEN r.seen.file ELSE None
    BY <2>1, <2>2
  <2>20. Writes(a, id, new, file, q)
    BY <2>1, <2>2, <2>4, <2>6, <2>7, <2>8, <2>9, <2>10 DEF Writes
  <2> QED BY <2>5, <2>20, DoneFiles
<1> QED BY <1>1, <1>2

\* One more file may be left behind, where its removal fails.
LEMMA CleanUpFiles ==
    ASSUME PostInv, PostInv', StoreInv, NEW a \in Editors, N!CleanUp(a)
    PROVE  StoreInv'
<1>1. PICK r : r = request[a]
  OBVIOUS
<1>2. /\ r # None /\ r.at = "committed" /\ request' = [request EXCEPT ![a] = None]
      /\ UNCHANGED <<row, disputed, asked>>
      /\ \/ files' = files \ {r.previous} /\ mishaps' = mishaps
         \/ files' = files /\ mishaps' = mishaps + 1
  BY <1>1 DEF N!CleanUp, N!RemovePrevious, N!tables
<1>3. r.previous \notin disputed => r.previous \notin N!Named
  BY <1>1, <1>2 DEF StoreInv, RemovalOK
<1>4. request'[a] = None /\ \A b \in Editors \ {a} : request'[b] = request[b]
  BY <1>2 DEF PostInv, PostsShape
<1>5. UploadOK(a)' /\ RemovalOK(a)' /\ Uses(a)' = {} /\ N!Named' = N!Named
  BY <1>2, <1>4 DEF UploadOK, RemovalOK, Uses, N!Named
<1>6. files' \subseteq files /\ None \notin files /\ asked <= asked'
  BY <1>2, FilesAreNumbers
<1>7. \A f : f \in N!InHand => f \in N!InHand' \/ f = r.previous
  BY <1>1, <1>2, <1>4, HandFacts
<1>8. CASE files' = files \ {r.previous} /\ mishaps' = mishaps
  <2>1. Orphans' \subseteq Orphans
    BY <1>2, <1>5, <1>7, <1>8 DEF Orphans
  <2>2. ASSUME NEW b \in Editors \ {a}, request[b] # None, request[b].at # "committed", request[b].upload # None
        PROVE  request[b].upload \in files' <=> request[b].upload \in files
    <3>1. UploadOK(b) /\ (r.previous # None => r.previous \in Uses(a))
      BY <1>1, <1>2 DEF StoreInv, Uses
    <3>2. request[b].upload # r.previous
      BY <2>2, <3>1 DEF UploadOK
    <3> QED BY <1>8, <3>2
  <2>3. \A f \in files' : f <= asked'
    BY <1>2, <1>6 DEF StoreInv, NamesOld
  <2> QED BY <1>2, <1>3, <1>4, <1>5, <1>6, <1>8, <2>1, <2>2, <2>3, RowsAsTheyAre
<1>9. CASE files' = files /\ mishaps' = mishaps + 1
  <2>1. Orphans' \subseteq Orphans \cup {r.previous}
    BY <1>2, <1>5, <1>7, <1>9 DEF Orphans
  <2>2. IsFiniteSet(Orphans) /\ IsFiniteSet(Orphans \cup {r.previous})
    BY FilesAreNumbers, FS_Subset, FS_AddElement DEF Orphans
  <2>3. /\ Cardinality(Orphans) \in Nat /\ Cardinality(Orphans') \in Nat
        /\ Cardinality(Orphans') <= Cardinality(Orphans \cup {r.previous})
        /\ Cardinality(Orphans \cup {r.previous}) <= Cardinality(Orphans) + 1
    <3>1. Cardinality(Orphans) \in Nat
      BY <2>2, FS_CardinalityType
    <3>2. IsFiniteSet(Orphans') /\ Cardinality(Orphans') <= Cardinality(Orphans \cup {r.previous})
      BY <2>1, <2>2, FS_Subset
    <3>3. Cardinality(Orphans') \in Nat
      BY <3>2, FS_CardinalityType
    <3>4. Cardinality(Orphans \cup {r.previous}) <= Cardinality(Orphans) + 1
      BY <2>2, <3>1, FS_AddElement
    <3> QED BY <3>1, <3>2, <3>3, <3>4
  <2>4. Cardinality(Orphans \cup {r.previous}) \in Nat /\ mishaps \in Nat
    BY <2>2, FS_CardinalityType DEF PostInv, PostsShape
  <2>5. Cardinality(Orphans)' <= mishaps'
    BY <1>9, <2>3, <2>4 DEF StoreInv
  <2>6. \A b \in Editors : Uses(b)' \subseteq Uses(b)
    BY <1>4 DEF Uses
  <2>7. ASSUME NEW b \in Editors \ {a} PROVE UploadOK(b)' /\ RemovalOK(b)'
    <3>1. UploadOK(b) /\ RemovalOK(b) /\ request'[b] = request[b]
      BY <1>4 DEF StoreInv
    <3> QED BY <1>2, <1>5, <1>9, <2>6, <3>1 DEF UploadOK, RemovalOK
  <2>8. NamesOld' /\ NamesDiffer'
    BY <1>2, <1>5, <1>6, <2>6 DEF StoreInv, NamesOld, NamesDiffer
  <2> QED BY <1>2, <1>5, <1>9, <2>5, <2>7, <2>8 DEF StoreInv
<1> QED BY <1>2, <1>8, <1>9

LEMMA StoreStep ==
    ASSUME PostInv, PostInv', StoreInv, [N!Next]_(N!vars)
    PROVE  StoreInv'
<1>1. ASSUME NEW a \in Editors, N!Asking(a) PROVE StoreInv'
  <2>1. PICK id \in plan.posts : \/ \E body \in plan.bodies : N!AskCreate(a, id, body) \/ N!AskUpdate(a, id, body)
                                 \/ N!AskDelete(a, id)
    BY <1>1 DEF N!Asking
  <2>2. id \in N!Posts
    BY PostingsAssumption DEF PostInv, PostsShape, N!Sensible
  <2> QED BY <2>1, <2>2, AskFiles DEF N!AskCreate, N!AskUpdate, N!AskDelete, N!Visible
<1>2. ASSUME NEW a \in Editors, N!Answering(a) PROVE StoreInv'
  BY <1>2, LockFiles, CommitFiles, DeleteFiles, CleanUpFiles, FailFiles DEF N!Answering
<1>3. CASE UNCHANGED <<row, files, disputed, asked, request>> /\ mishaps <= mishaps'
  <2>1. N!Named' = N!Named /\ N!InHand' = N!InHand
    BY <1>3 DEF N!Named, N!InHand
  <2>2. Orphans' \subseteq Orphans
    BY <1>3, <2>1 DEF Orphans
  <2>3. \A a \in Editors : Uses(a)' = Uses(a)
    BY <1>3 DEF Uses
  <2>4. Cardinality(Orphans)' <= mishaps'
    BY <1>3, <2>2, FewOrphans
  <2>5. \A a \in Editors : UploadOK(a)' /\ RemovalOK(a)'
    BY <1>3, <2>1, <2>3 DEF StoreInv, UploadOK, RemovalOK
  <2> QED BY <1>3, <2>1, <2>3, <2>4, <2>5 DEF StoreInv, NamesOld, NamesDiffer
<1>4. \/ \E a \in Editors : N!Asking(a) \/ N!Answering(a)
      \/ UNCHANGED <<row, files, disputed, asked, request>> /\ mishaps <= mishaps'
  <2>1. mishaps \in Nat
    BY DEF PostInv, PostsShape
  <2>2. \/ \E a \in Editors : N!Asking(a) \/ N!Answering(a)
        \/ /\ UNCHANGED <<row, files, disputed, asked, request>>
           /\ mishaps' = mishaps \/ mishaps' = mishaps + 1
    BY DEF N!Next, N!StartJob, N!SkipRow, N!FailRow, N!NotifyRow, N!EndLink,
           N!EndAssignment, N!NextDay, N!vars, N!tables
  <2> QED BY <2>1, <2>2
<1> QED BY <1>1, <1>2, <1>3, <1>4

LEMMA FilesStep == FilesInv /\ [N!Next]_(N!vars) => FilesInv'
  BY PostStep, StoreStep DEF FilesInv

LEMMA FilesInit == N!Init => FilesInv
<1> SUFFICES ASSUME N!Init PROVE FilesInv
  OBVIOUS
<1>1. PostInv
  BY PostInit
<1>2. /\ files = {} /\ mishaps = 0 /\ \A i \in N!Posts : row[i] = None
      /\ \A a \in Editors : request[a] = None
  BY DEF N!Init
<1>3. Orphans = {} /\ Cardinality({}) = 0
  BY <1>2, FS_EmptySet DEF Orphans
<1>4. N!Named = {} /\ \A a \in Editors : Uses(a) = {}
  BY <1>2 DEF N!Named, Uses
<1>5. StoreInv
  BY <1>2, <1>3, <1>4 DEF StoreInv, NamesOld, NamesDiffer, UploadOK, RemovalOK
<1> QED BY <1>1, <1>5 DEF FilesInv

LEMMA FilesImply == FilesInv => N!FilesMatchRows
<1>1. \A S : N!Cardinality(S) = Cardinality(S)
  BY DEF N!Cardinality, Cardinality
<1> QED BY <1>1 DEF FilesInv, StoreInv, Orphans, N!FilesMatchRows

-----------------------------------------------------------------------------
(* The school day: a behaviour is one of a single part. *)

LEMMA PartStays == [SchoolNext]_schoolVars => part' = part
  BY DEF SchoolNext, schoolVars, shared

LEMMA PartSteps ==
    ASSUME [SchoolNext]_schoolVars
    PROVE  /\ part = "attendance" => [A!Next]_(A!vars)
           /\ part = "grades" => [B!Next]_(B!vars)
           /\ part = "postings" => [N!Next]_(N!vars)
           /\ part = "decisions" => [D!Next]_(D!vars)
           /\ part = "calendar" => [Y!Next]_(Y!vars)
  BY DEF SchoolNext, schoolVars, shared, avars, A!vars, bvars, B!vars, B!book,
         pvars, N!vars, N!tables, dvars, D!vars, yvars, Y!vars

LEMMA DecisionsThrough ==
    /\ SchoolInit => (part = "decisions" => DecisionsInv)
    /\ (part = "decisions" => DecisionsInv) /\ [SchoolNext]_schoolVars =>
          /\ (part = "decisions" => DecisionsInv)'
          /\ part = "decisions" => D!OnceDecided /\ D!Answered
<1>1. SchoolInit => (part = "decisions" => DecisionsInv)
  BY CasesInit, DecisionsAssumption DEF SchoolInit
<1>2. ASSUME part = "decisions" => DecisionsInv, [SchoolNext]_schoolVars
      PROVE  /\ (part = "decisions" => DecisionsInv)'
             /\ part = "decisions" => D!OnceDecided /\ D!Answered
  BY <1>2, PartStays, PartSteps, CasesStep, DecisionsAssumption
<1> QED BY <1>1, <1>2

\* Of any number of members of the staff who decide one appointment or answer
\* one letter at the same time one prevails, and nothing that comes later
\* changes or repeats the decision (appointments/services.py,
\* school_requests/views.py: the status is read again under the row lock).
THEOREM OneDecisionStands == SchoolSpec => DecisionsStand
<1> DEFINE Inv == part = "decisions" => DecisionsInv
<1>1. SchoolInit => Inv
  BY DecisionsThrough
<1>2. Inv /\ [SchoolNext]_schoolVars => Inv' /\ [part = "decisions" => D!OnceDecided]_schoolVars
  BY DecisionsThrough
<1> QED BY <1>1, <1>2, PTL DEF SchoolSpec, DecisionsStand

LEMMA AttendanceThrough ==
    /\ SchoolInit => (part = "attendance" => AttendanceInv)
    /\ (part = "attendance" => AttendanceInv) /\ [SchoolNext]_schoolVars =>
          /\ (part = "attendance" => AttendanceInv)'
          /\ part = "attendance" => A!AnnouncedOnce /\ A!OnlyNamedChanges
<1>1. SchoolInit => (part = "attendance" => AttendanceInv)
  BY AttendanceInit DEF SchoolInit
<1>2. ASSUME part = "attendance" => AttendanceInv, [SchoolNext]_schoolVars
      PROVE  /\ (part = "attendance" => AttendanceInv)'
             /\ part = "attendance" => A!AnnouncedOnce /\ A!OnlyNamedChanges
  BY <1>2, PartStays, PartSteps, AttendanceStep
<1> QED BY <1>1, <1>2

\* Of two people who change one sheet at a time neither undoes what the other
\* wrote: a request works on the record as it is under the row lock, changes
\* what it names and what follows from it, and a normal departure completes
\* only (attendance/services.py, select_for_update in every write).
THEOREM EditsStay == SchoolSpec => EditsKeepEditsOfOthers
<1> DEFINE Inv == part = "attendance" => AttendanceInv
<1>1. SchoolInit => Inv
  BY AttendanceThrough
<1>2. Inv /\ [SchoolNext]_schoolVars => Inv' /\ [part = "attendance" => A!OnlyNamedChanges]_schoolVars
  BY AttendanceThrough
<1> QED BY <1>1, <1>2, PTL DEF SchoolSpec, EditsKeepEditsOfOthers

LEMMA GradesThrough ==
    /\ SchoolInit => (part = "grades" => BookInv)
    /\ (part = "grades" => BookInv) /\ [SchoolNext]_schoolVars =>
          /\ (part = "grades" => BookInv)'
          /\ part = "grades" => B!ShownStays /\ B!ResultsTold
<1>1. SchoolInit => (part = "grades" => BookInv)
  BY BookInit DEF SchoolInit
<1>2. ASSUME part = "grades" => BookInv, [SchoolNext]_schoolVars
      PROVE  /\ (part = "grades" => BookInv)'
             /\ part = "grades" => B!ShownStays /\ B!ResultsTold
  BY <1>2, PartStays, PartSteps, BookStep
<1> QED BY <1>1, <1>2

\* What guardians have been shown of results and exams is never withdrawn or
\* redefined, whatever requests were validated before the publication; a score
\* that was published changes by the hand of a corrector only, who asks no
\* teacher's permission (grades/services.py, the refusals under the row locks).
THEOREM ResultsStand == SchoolSpec => PublishedResultsStand
<1> DEFINE Inv == part = "grades" => BookInv
<1>1. SchoolInit => Inv
  BY GradesThrough
<1>2. Inv /\ [SchoolNext]_schoolVars => Inv' /\ [part = "grades" => B!ShownStays]_schoolVars
  BY GradesThrough
<1> QED BY <1>1, <1>2, PTL DEF SchoolSpec, PublishedResultsStand

LEMMA CalendarThrough ==
    /\ SchoolInit => (part = "calendar" => CalendarInv)
    /\ (part = "calendar" => CalendarInv) /\ [SchoolNext]_schoolVars => (part = "calendar" => CalendarInv)'
<1>1. SchoolInit => (part = "calendar" => CalendarInv)
  BY CalendarInit DEF SchoolInit
<1>2. ASSUME part = "calendar" => CalendarInv, [SchoolNext]_schoolVars
      PROVE  (part = "calendar" => CalendarInv)'
  BY <1>2, PartStays, PartSteps, CalendarStep
<1> QED BY <1>1, <1>2

\* The books are right at all times: records of attendance are consistent and
\* their percentages add up; no score exceeds its maximum, none lies outside
\* the sections of its assessment, each is the end of its log, and no
\* percentage exceeds 100; one year, term and teacher at a time, and, unless
\* two unlocked checks raced, all of them in order.
THEOREM BooksStayInOrder == SchoolSpec => []BooksAddUp
<1> DEFINE Inv == /\ part = "attendance" => AttendanceInv
                  /\ part = "grades" => BookInv
                  /\ part = "calendar" => CalendarInv
<1>1. SchoolInit => Inv
  BY AttendanceThrough, GradesThrough, CalendarThrough
<1>2. Inv /\ [SchoolNext]_schoolVars => Inv'
  BY AttendanceThrough, GradesThrough, CalendarThrough
<1>3. Inv => BooksAddUp
  BY AttendanceImplies, BookImplies, CalendarImplies DEF BooksAddUp
<1> QED BY <1>1, <1>2, <1>3, PTL DEF SchoolSpec

LEMMA PostingsThrough ==
    /\ SchoolInit => (part = "postings" => FilesInv)
    /\ (part = "postings" => FilesInv) /\ [SchoolNext]_schoolVars =>
          /\ (part = "postings" => FilesInv)'
          /\ part = "postings" => N!AnnouncedOnce /\ N!ScopesFit
<1>1. SchoolInit => (part = "postings" => FilesInv)
  BY FilesInit DEF SchoolInit
<1>2. ASSUME part = "postings" => FilesInv, [SchoolNext]_schoolVars
      PROVE  /\ (part = "postings" => FilesInv)'
             /\ part = "postings" => N!AnnouncedOnce /\ N!ScopesFit
  BY <1>2, PartStays, PartSteps, FilesStep, PostStep DEF FilesInv
<1> QED BY <1>1, <1>2

\* Whom an announcement is for agrees with its scope: of all the edits by any
\* number of people only one that commits sets it was not validated for, since
\* another request replaced them meanwhile, can break that (announcements/
\* serializers.py validates the copy that views.py read before the lock).
THEOREM AudienceFitsScope == SchoolSpec => TargetsFitScope
<1> DEFINE Inv == part = "postings" => FilesInv
<1>1. SchoolInit => Inv
  BY PostingsThrough
<1>2. Inv /\ [SchoolNext]_schoolVars => Inv' /\ [part = "postings" => N!ScopesFit]_schoolVars
  BY PostingsThrough
<1> QED BY <1>1, <1>2, PTL DEF SchoolSpec, TargetsFitScope

\* The invariants of the parts, each while its part is the one at work.
SchoolInv ==
    /\ part = "attendance" => AttendanceInv
    /\ part = "grades" => BookInv
    /\ part = "postings" => FilesInv
    /\ part = "decisions" => DecisionsInv
    /\ part = "calendar" => CalendarInv

LEMMA SchoolThrough ==
    /\ SchoolInit => SchoolInv
    /\ SchoolInv /\ [SchoolNext]_schoolVars => SchoolInv'
<1>1. SchoolInit => SchoolInv
  BY AttendanceThrough, GradesThrough, PostingsThrough, DecisionsThrough, CalendarThrough DEF SchoolInv
<1>2. SchoolInv /\ [SchoolNext]_schoolVars => SchoolInv'
  BY AttendanceThrough, GradesThrough, PostingsThrough, DecisionsThrough, CalendarThrough DEF SchoolInv
<1> QED BY <1>1, <1>2

\* Guardians hear once, and in the step in which it happens, of absences,
\* published results, announcements, homework and decisions, nobody else does,
\* and what they heard of is on their phones.
THEOREM FamiliesHear == SchoolSpec => FamiliesAreTold
<1> DEFINE Told == /\ part = "attendance" => A!AnnouncedOnce
                   /\ part = "grades" => B!ResultsTold
                   /\ part = "postings" => N!AnnouncedOnce
                   /\ part = "decisions" => D!Answered
<1>1. SchoolInit => SchoolInv
  BY SchoolThrough
<1>2. SchoolInv /\ [SchoolNext]_schoolVars => SchoolInv' /\ [Told]_schoolVars
  BY SchoolThrough, AttendanceThrough, GradesThrough, PostingsThrough, DecisionsThrough DEF SchoolInv
<1> QED BY <1>1, <1>2, PTL DEF SchoolSpec, FamiliesAreTold

\* A school day is a behaviour of Placement too, which stutters in other parts.
LEMMA PlacementThrough ==
    /\ SchoolInit => Init
    /\ [SchoolNext]_schoolVars => [Next]_vars
<1>1. SchoolInit => Init
  BY DEF SchoolInit
<1>2. [SchoolNext]_schoolVars => [Next]_vars
  BY DEF SchoolNext, schoolVars
<1> QED BY <1>1, <1>2

\* The rows of every part have the shape of its tables at all times, and of
\* announcements and homework the columns values that their forms allow.
THEOREM TablesStayOK == SchoolSpec => []TablesOK
<1>1. SchoolInit => SchoolInv /\ PlacementInv
  BY SchoolThrough, PlacementThrough, InitGood
<1>2. SchoolInv /\ PlacementInv /\ [SchoolNext]_schoolVars => SchoolInv' /\ PlacementInv'
  BY SchoolThrough, PlacementThrough, StepGood
<1>3. SchoolInv /\ PlacementInv => TablesOK
  <2>1. PlacementInv => TypeOK
    BY DEF PlacementInv, Shape
  <2>2. DecisionsInv => D!TypeOK
    BY DEF DecisionsInv, CasesShape, D!TypeOK
  <2> QED BY <2>1, <2>2, AttendanceImplies, BookImplies, PostImplies, CalendarImplies
         DEF SchoolInv, FilesInv, TablesOK
<1> QED BY <1>1, <1>2, <1>3, PTL DEF SchoolSpec

\* No announcement and no homework ever names a file that is gone, whatever
\* fails in between, and a file that no row and no request names is one whose
\* removal failed; only of a file that two requests replaced or kept, each from
\* its own copy of the row, nothing is promised (discard_new_attachment_on_error,
\* delete_replaced_attachment_on_commit).
THEOREM FilesStayWithRows == SchoolSpec => []FilesMatchRows
<1>1. SchoolInit => SchoolInv
  BY SchoolThrough
<1>2. SchoolInv /\ [SchoolNext]_schoolVars => SchoolInv'
  BY SchoolThrough
<1>3. SchoolInv => FilesMatchRows
  BY FilesImply DEF SchoolInv, FilesMatchRows
<1> QED BY <1>1, <1>2, <1>3, PTL DEF SchoolSpec

=============================================================================
