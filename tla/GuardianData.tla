---------------------------- MODULE GuardianData ----------------------------
(* What the school keeps for a guardian besides the account: the devices     *)
(* that receive pushes and the notifications (notifications/device_services, *)
(* notifications/services), and how closing the account removes them         *)
(* (accounts/services.py, delete_guardian_account).                          *)
(*                                                                           *)
(* A transaction is a step for every wait for a row lock; what it writes     *)
(* becomes visible with its last step.                                       *)
EXTENDS Naturals, FiniteSets

CONSTANTS
    Guardians,
    Installs,  \* installations of the application
    Tokens,    \* FCM tokens
    Events,    \* event keys
    Tx,        \* transactions that run at the same time
    Limit,     \* MOBILE_MAX_ACTIVE_DEVICES_PER_GUARDIAN, at least 1
    None

Topics == {"devices", "notifications"}

VARIABLES
    closed,     \* guardians whose account was closed (is_active and the links)
    device,     \* the row of an installation, or None
    older,      \* pairs of devices, the one with the earlier last_seen_at first
    note,       \* notification of an event for a guardian: "none", "unread", "read"
    condemned,  \* devices the push worker found dead and has not disabled yet
    userLock,   \* SELECT FOR UPDATE of a guardian's user row
    rowLock,    \* SELECT FOR UPDATE of a device row
    pc, job,
    topic,      \* what a behaviour is about besides closing accounts (a bound)
    told        \* ghost: fan-outs that ended well, as <<recipients, event>>

vars == <<closed, device, older, note, condemned, userLock, rowLock, pc, job, topic, told>>
stored == <<closed, device, older, note, condemned, topic, told>>

Devices == [user : Guardians, token : Tokens, active : BOOLEAN]

\* The constants: finitely many installations, a limit of at least one
\* (register_push_device refuses any other), and None is nothing else.
Sensible ==
    /\ IsFiniteSet(Installs)
    /\ Limit \in Nat \ {0}
    /\ None \notin Tx \cup Devices

Idle(t) == pc[t] = "idle"

Finish(t) ==
    /\ pc' = [pc EXCEPT ![t] = "idle"]
    /\ job' = [job EXCEPT ![t] = None]
    /\ userLock' = [g \in Guardians |-> IF userLock[g] = t THEN None ELSE userLock[g]]
    /\ rowLock' = [i \in Installs |-> IF rowLock[i] = t THEN None ELSE rowLock[i]]

\* A refusal, a deadlock resolved against this transaction, or a crash.
Abort(t) ==
    /\ ~Idle(t)
    /\ Finish(t)
    /\ UNCHANGED stored

Goto(t, label) == pc' = [pc EXCEPT ![t] = label]

FreeFor(t, i) == rowLock[i] \in {None, t}

LockRows(t, rows) == rowLock' = [i \in Installs |-> IF i \in rows THEN t ELSE rowLock[i]]

-----------------------------------------------------------------------------
(* register_push_device and unregister_push_device *)

StartRegister(t, g, i, token) ==
    /\ Idle(t) /\ g \notin closed /\ topic = "devices"
    /\ Goto(t, "register")
    /\ job' = [job EXCEPT ![t] = [user |-> g, install |-> i, token |-> token, yield |-> {}]]
    /\ UNCHANGED <<stored, userLock, rowLock>>

\* Mutant: concurrent registrations of one guardian are not serialised.
ReadGuardian(t) ==
    /\ pc[t] = "register"
    /\ Goto(t, "take")
    /\ UNCHANGED <<stored, job, userLock, rowLock>>

LockGuardian(t) ==
    /\ pc[t] = "register"
    /\ userLock[job[t].user] = None
    /\ userLock' = [userLock EXCEPT ![job[t].user] = t]
    /\ Goto(t, "take")
    /\ UNCHANGED <<stored, job, rowLock>>

\* get_or_create: a second insert of the installation waits for the first.
TakeDevice(t) ==
    /\ pc[t] = "take"
    /\ FreeFor(t, job[t].install)
    /\ LockRows(t, {job[t].install})
    /\ Goto(t, "compare")
    /\ UNCHANGED <<stored, job, userLock>>

OthersWithToken(t) ==
    {i \in Installs \ {job[t].install} :
        device[i] # None /\ device[i].active /\ device[i].token = job[t].token}

\* Somebody else's device is never switched off; one's own yields the token.
YieldToken(t) ==
    LET rows == OthersWithToken(t) IN
    /\ pc[t] = "compare"
    /\ \A i \in rows : FreeFor(t, i)
    /\ IF \E i \in rows : device[i].user # job[t].user
       THEN Finish(t)
       ELSE /\ LockRows(t, rows)
            /\ job' = [job EXCEPT ![t].yield = rows]
            /\ Goto(t, "save")
            /\ UNCHANGED userLock
    /\ UNCHANGED stored

Existing == {i \in Installs : device[i] # None}

Registered(t) ==
    [i \in Installs |->
        IF i = job[t].install
        THEN [user |-> job[t].user, token |-> job[t].token, active |-> TRUE]
        ELSE IF i \in job[t].yield THEN [device[i] EXCEPT !.active = FALSE]
        ELSE device[i]]

\* The oldest active devices beyond the limit, never the new one.
Excess(t, rows) ==
    LET mine == {i \in Installs : rows[i] # None /\ rows[i].active /\ rows[i].user = job[t].user}
        newer(i) == {j \in mine : j = job[t].install \/ <<i, j>> \in older}
    IN  {i \in mine \ {job[t].install} : Cardinality(newer(i)) >= Limit}

\* Mutant: the unique index on active tokens is missing.
TokenAlwaysFree(t) == TRUE

TokenIsFree(t) == OthersWithToken(t) \subseteq job[t].yield

\* The unique index on active tokens waits for a token that is being stored and
\* refuses one that was stored meanwhile; then the limit is applied.
SaveDevice(t) ==
    LET excess == Excess(t, Registered(t)) IN
    /\ pc[t] = "save"
    /\ \A o \in Tx : pc[o] = "store" => job[o].token # job[t].token
    /\ IF TokenIsFree(t)
       THEN /\ \A i \in excess : FreeFor(t, i)
            /\ LockRows(t, excess)
            /\ job' = [job EXCEPT ![t].yield = @ \cup excess]
            /\ Goto(t, "store")
            /\ UNCHANGED userLock
       ELSE Finish(t)
    /\ UNCHANGED stored

StoreDevice(t) ==
    /\ pc[t] = "store"
    /\ device' = Registered(t)
    /\ LET i == job[t].install IN
         older' = {p \in older : p[1] # i /\ p[2] # i} \cup ((Existing \ {i}) \X {i})
    /\ Finish(t)
    /\ UNCHANGED <<closed, note, condemned, topic, told>>

Unregister(g, i) ==
    /\ g \notin closed
    /\ rowLock[i] = None
    /\ device[i] # None /\ device[i].user = g /\ device[i].active
    /\ device' = [device EXCEPT ![i].active = FALSE]
    /\ UNCHANGED <<closed, older, note, condemned, topic, told, userLock, rowLock, pc, job>>

\* The push worker sends to a device it read earlier and learns that the token
\* is dead; the device is disabled by its primary key.
FindDead(i) ==
    /\ device[i] # None /\ device[i].active
    /\ condemned' = condemned \cup {i}
    /\ UNCHANGED <<closed, device, older, note, topic, told, userLock, rowLock, pc, job>>

DisableDead(i) ==
    /\ i \in condemned
    /\ rowLock[i] = None
    /\ condemned' = condemned \ {i}
    /\ device' = IF device[i] # None THEN [device EXCEPT ![i].active = FALSE] ELSE device
    /\ UNCHANGED <<closed, older, note, topic, told, userLock, rowLock, pc, job>>

-----------------------------------------------------------------------------
(* create_notifications: the guardians of an event, each told once *)

\* The caller has queried the active guardians that are concerned.
StartFanOut(t, recipients, e) ==
    /\ Idle(t) /\ topic = "notifications"
    /\ recipients # {} /\ recipients \cap closed = {}
    /\ Goto(t, "validate")
    /\ job' = [job EXCEPT ![t] = [to |-> recipients, event |-> e, new |-> {}]]
    /\ UNCHANGED <<stored, userLock, rowLock>>

Has(g, e) == note[g][e] # "none"

\* A link that has become inactive fails the whole operation of the caller.
Validate(t) ==
    /\ pc[t] = "validate"
    /\ IF job[t].to \cap closed # {}
       THEN Finish(t)
       ELSE /\ job' = [job EXCEPT ![t].new = {g \in job[t].to : ~Has(g, job[t].event)}]
            /\ Goto(t, "insert")
            /\ UNCHANGED <<userLock, rowLock>>
    /\ UNCHANGED stored

Insert(t, new) ==
    /\ \A g \in new : userLock[g] = None    \* the foreign key waits for FOR UPDATE
    /\ note' = [g \in Guardians |->
         IF g \in new THEN [note[g] EXCEPT ![job[t].event] = "unread"] ELSE note[g]]
    /\ told' = told \cup {<<job[t].to, job[t].event>>}
    /\ Finish(t)
    /\ UNCHANGED <<closed, device, older, condemned, topic>>

BulkInsert(t) ==
    /\ pc[t] = "insert"
    /\ IF \E g \in job[t].new : Has(g, job[t].event)
       THEN /\ Goto(t, "one by one")
            /\ UNCHANGED <<stored, job, userLock, rowLock>>
       ELSE Insert(t, job[t].new)

\* Mutant: the clash is taken for proof that everybody has been told.
NobodyMissing(t) == {}

Missing(t) == {g \in job[t].to : ~Has(g, job[t].event)}

\* create_notification for each recipient; the links are validated again.
OneByOne(t) ==
    /\ pc[t] = "one by one"
    /\ IF job[t].to \cap closed # {}
       THEN Finish(t) /\ UNCHANGED stored
       ELSE Insert(t, Missing(t))

MarkRead(g, e) ==
    /\ g \notin closed /\ note[g][e] = "unread"
    /\ note' = [note EXCEPT ![g][e] = "read"]
    /\ UNCHANGED <<closed, device, older, condemned, topic, told, userLock, rowLock, pc, job>>

MarkAllRead(g) ==
    /\ g \notin closed
    /\ note' = [note EXCEPT ![g] = [e \in Events |-> IF @[e] = "unread" THEN "read" ELSE @[e]]]
    /\ UNCHANGED <<closed, device, older, condemned, topic, told, userLock, rowLock, pc, job>>

-----------------------------------------------------------------------------
(* delete_guardian_account *)

StartClosing(t, g) ==
    /\ Idle(t) /\ g \notin closed
    /\ Goto(t, "close")
    /\ job' = [job EXCEPT ![t] = [user |-> g, rows |-> {}, old |-> {}]]
    /\ UNCHANGED <<stored, userLock, rowLock>>

LockAccount(t) ==
    /\ pc[t] = "close"
    /\ userLock[job[t].user] = None
    /\ userLock' = [userLock EXCEPT ![job[t].user] = t]
    /\ Goto(t, "erase")
    /\ UNCHANGED <<stored, job, rowLock>>

DevicesOf(g) == {i \in Installs : device[i] # None /\ device[i].user = g}

\* Deletes the devices, then the notifications there are by now.
EraseData(t) ==
    LET g == job[t].user IN
    /\ pc[t] = "erase"
    /\ \A i \in DevicesOf(g) : FreeFor(t, i)
    /\ LockRows(t, DevicesOf(g))
    /\ job' = [job EXCEPT ![t].rows = DevicesOf(g), ![t].old = {e \in Events : Has(g, e)}]
    /\ Goto(t, "commit")
    /\ UNCHANGED <<stored, userLock>>

CommitClosing(t) ==
    LET g == job[t].user IN
    /\ pc[t] = "commit"
    /\ closed' = closed \cup {g}
    /\ device' = [i \in Installs |-> IF i \in job[t].rows THEN None ELSE device[i]]
    /\ older' = {p \in older : p[1] \notin job[t].rows /\ p[2] \notin job[t].rows}
    /\ note' = [note EXCEPT ![g] = [e \in Events |-> IF e \in job[t].old THEN "none" ELSE @[e]]]
    /\ condemned' = condemned \ job[t].rows
    /\ Finish(t)
    /\ UNCHANGED <<topic, told>>

-----------------------------------------------------------------------------
Init ==
    /\ closed = {}
    /\ device = [i \in Installs |-> None]
    /\ older = {}
    /\ note = [g \in Guardians |-> [e \in Events |-> "none"]]
    /\ condemned = {}
    /\ userLock = [g \in Guardians |-> None]
    /\ rowLock = [i \in Installs |-> None]
    /\ pc = [t \in Tx |-> "idle"]
    /\ job = [t \in Tx |-> None]
    /\ topic \in Topics
    /\ told = {}

Start(t) ==
    \/ \E g \in Guardians, i \in Installs, token \in Tokens : StartRegister(t, g, i, token)
    \/ \E recipients \in SUBSET Guardians, e \in Events : StartFanOut(t, recipients, e)
    \/ \E g \in Guardians : StartClosing(t, g)

Proceed(t) ==
    \/ LockGuardian(t)
    \/ TakeDevice(t)
    \/ YieldToken(t)
    \/ SaveDevice(t)
    \/ StoreDevice(t)
    \/ Validate(t)
    \/ BulkInsert(t)
    \/ OneByOne(t)
    \/ LockAccount(t)
    \/ EraseData(t)
    \/ CommitClosing(t)
    \/ Abort(t)

Next ==
    \/ \E t \in Tx : Start(t) \/ Proceed(t)
    \/ \E i \in Installs : FindDead(i) \/ DisableDead(i)
    \/ \E g \in Guardians :
         \/ \E i \in Installs : Unregister(g, i)
         \/ \E e \in Events : MarkRead(g, e)
         \/ MarkAllRead(g)

Spec == Init /\ [][Next]_vars

-----------------------------------------------------------------------------
(* Properties *)

ActiveOf(g) == {i \in DevicesOf(g) : device[i].active}

\* However many sign-ins register devices at the same time, with one another's
\* tokens or installations: a token belongs to one active device, a guardian
\* has at most Limit of them, and age puts exactly the devices there are in a
\* line, so that the oldest are well defined.
DevicesInOrder ==
    /\ \A i, j \in Installs :
         /\ device[i] # None /\ device[j] # None
         /\ device[i].active /\ device[j].active /\ device[i].token = device[j].token
         => i = j
    /\ \A g \in Guardians : Cardinality(ActiveOf(g)) <= Limit
    /\ older \subseteq Existing \X Existing
    /\ \A i, j \in Existing : i # j <=> <<i, j>> \in older \/ <<j, i>> \in older
    /\ \A i, j, k \in Existing : <<i, j>> \in older /\ <<j, k>> \in older => <<i, k>> \in older

\* An operation that ended well has told every guardian concerned, also when
\* another one inserted some of the same events before it; only closing the
\* account removes the notification again.
NobodyIsMissed ==
    \A x \in told : \A g \in x[1] \ closed : Has(g, x[2])

=============================================================================
