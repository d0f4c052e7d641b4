----------------------------- MODULE MCAccounts -----------------------------
(* Instances of Accounts and GuardianData: a behaviour is one of the first in *)
(* some scenario or, where the scenario has no operations, one of the second. *)
EXTENDS Accounts, TLC

CONSTANTS a1, a2, gu, nu, s1, s2, Guardians, Installs, Tokens, Events, Tx, Limit

VARIABLES closed, device, older, note, condemned, userLock, rowLock, gpc, job, topic, told
gvars == <<closed, device, older, note, condemned, userLock, rowLock, gpc, job, topic, told>>

G == INSTANCE GuardianData WITH pc <- gpc

ASSUME GuardianDataAssumption == G!Sensible

\* Two school administrators, a guardian and an account yet to be created.
TwoAdmins == [u \in Users |-> IF u \in {a1, a2} THEN "school_admin" ELSE IF u = gu THEN "guardian" ELSE None]

\* One administrator and a guardian.
Small == [TwoAdmins EXCEPT ![a2] = None]

\* A supervisor and a secretary.
Office == [TwoAdmins EXCEPT ![a1] = "supervisor", ![a2] = "secretariat"]

Case(staff, ops) ==
    [staff |-> staff, menu |-> ops,
     signedIn |-> [s \in Sessions |-> IF s = s1 THEN a1
                                      ELSE IF s = s2 /\ staff[a2] # None THEN a2 ELSE None]]

MCScenarios ==
    {Case(TwoAdmins, ops) : ops \in
        {{"update", "replace"}, {"update", "update_me", "change_password"},
         {"create", "update"}, {"replace", "set_active", "update_me"},
         {"reset", "change_password"}}}
    \cup {Case(Small, ops) : ops \in
        {{"delete", "refresh", "browse"}, {"refresh", "change_password", "browse"},
         {"refresh", "set_active", "browse"}}}
    \cup {Case(Office, ops) : ops \in
        {{"create", "update", "set_active", "reset"}, {"reset", "refresh", "browse"}}}
    \cup {Case(TwoAdmins, {})}

MCChildren == [u \in Users |-> IF u = gu THEN {"primary"} ELSE {}]
MCScopes == {[type |-> "selected", stages |-> {"primary"}]}
MCGrants == {{}, Codes}
MCRoles == {"supervisor", "teacher"}

Symmetric == Permutations(Requests) \cup Permutations(Tx)

MCInit == Init /\ G!Init /\ (menu # {} => topic = "devices")

MCNext ==
    \/ menu # {} /\ Next /\ UNCHANGED gvars
    \/ menu = {} /\ G!Next /\ UNCHANGED vars

MCSpec == MCInit /\ [][MCNext]_<<vars, gvars>>

DevicesInOrder == G!DevicesInOrder
NobodyIsMissed == G!NobodyIsMissed
=============================================================================
