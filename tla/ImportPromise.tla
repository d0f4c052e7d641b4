----------------------------- MODULE ImportPromise -----------------------------
(***************************************************************************)
(* What the import of students promises: a row is imported or refused once *)
(* and for good, with exactly one student for an imported row and none for *)
(* another, and a job is finished only after all its rows.                 *)
(***************************************************************************)
EXTENDS Integers

CONSTANTS Jobs, Rows, Forms

VARIABLES outcome, students, status

vars == <<outcome, students, status>>

Init ==
    /\ outcome = [r \in Rows |-> "waiting"]
    /\ students = [s \in Rows \cup Forms |-> 0]
    /\ status = [j \in Jobs |-> "open"]

Import(r) ==
    /\ outcome[r] = "waiting"
    /\ outcome' = [outcome EXCEPT ![r] = "succeeded"]
    /\ students' = [students EXCEPT ![r] = 1]
    /\ UNCHANGED status

Refuse(r) ==
    /\ outcome[r] = "waiting"
    /\ outcome' = [outcome EXCEPT ![r] = "failed"]
    /\ UNCHANGED <<students, status>>

Register(f) ==
    /\ students' = [students EXCEPT ![f] = @ + 1]
    /\ UNCHANGED <<outcome, status>>

Finish(j) ==
    LET results == {outcome[r] : r \in {q \in Rows : q.job = j}}
    IN /\ status[j] = "open"
       /\ "waiting" \notin results
       /\ status' = [status EXCEPT ![j] =
                       IF "failed" \in results THEN "completed_with_errors" ELSE "completed"]
       /\ UNCHANGED <<outcome, students>>

Next ==
    \/ \E r \in Rows : Import(r) \/ Refuse(r)
    \/ \E f \in Forms : Register(f)
    \/ \E j \in Jobs : Finish(j)

Spec == Init /\ [][Next]_vars
=============================================================================
