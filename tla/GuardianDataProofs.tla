-------------------------- MODULE GuardianDataProofs --------------------------
(* Proofs about GuardianData: whatever sign-ins, fan-outs and closings happen *)
(* at the same time, nobody concerned misses a notification, a token belongs  *)
(* to one active device, and nobody has more active devices than allowed.     *)
EXTENDS GuardianData, Sums

Registering == [user : Guardians, install : Installs, token : Tokens, yield : SUBSET Installs]
FanOuts == [to : SUBSET Guardians, event : Events, new : SUBSET Guardians]
Closings == [user : Guardians, rows : SUBSET Installs, old : SUBSET Events]

Serialised == {"take", "compare", "save", "store"}
RegisterLabels == {"register"} \cup Serialised
FanOutLabels == {"validate", "insert", "one by one"}
ClosingLabels == {"close", "erase", "commit"}
Labels == {"idle"} \cup RegisterLabels \cup FanOutLabels \cup ClosingLabels

\* The active devices that user will have when t has stored its own.
ActiveAfter(t) ==
    {i \in Installs : /\ Registered(t)[i] # None
                      /\ Registered(t)[i].active /\ Registered(t)[i].user = job[t].user}

FieldsOK(t) ==
    /\ pc[t] \in RegisterLabels => job[t] \in Registering
    /\ pc[t] \in FanOutLabels => job[t] \in FanOuts
    /\ pc[t] \in ClosingLabels => job[t] \in Closings

\* What a transaction holds: the guardian, and the rows it is going to change.
LocksOK(t) ==
    /\ pc[t] \in Serialised => userLock[job[t].user] = t
    /\ pc[t] \in {"save", "store"} =>
         \A i \in job[t].yield : rowLock[i] = t /\ device[i] # None
    /\ pc[t] = "commit" => \A i \in job[t].rows : rowLock[i] = t

\* When a device is about to be stored its token is, and stays, its own, and
\* the limit is respected.
StoreOK(t) ==
    pc[t] = "store" =>
        /\ OthersWithToken(t) \subseteq job[t].yield
        /\ Cardinality(ActiveAfter(t)) <= Limit
        /\ \A o \in Tx : pc[o] = "store" /\ job[o].token = job[t].token => o = t

\* Whoever is not about to be told has been told, or closed the account.
FanOutOK(t) ==
    pc[t] = "insert" =>
        \A g \in job[t].to \ closed : g \in job[t].new \/ Has(g, job[t].event)

JobOK(t) == FieldsOK(t) /\ LocksOK(t) /\ StoreOK(t) /\ FanOutOK(t)

\* The devices in the order of last_seen_at.
InLine ==
    /\ older \subseteq Existing \X Existing
    /\ \A i, j \in Existing : i # j <=> <<i, j>> \in older \/ <<j, i>> \in older
    /\ \A i, j, k \in Existing : <<i, j>> \in older /\ <<j, k>> \in older => <<i, k>> \in older

OneDevicePerToken ==
    \A i, j \in Installs :
        /\ device[i] # None /\ device[j] # None
        /\ device[i].active /\ device[j].active /\ device[i].token = device[j].token
        => i = j

WithinLimit == \A g \in Guardians : Cardinality(ActiveOf(g)) <= Limit

TablesOK == InLine /\ OneDevicePerToken /\ WithinLimit /\ NobodyIsMissed

TableShape ==
    /\ closed \subseteq Guardians
    /\ device \in [Installs -> Devices \cup {None}]
    /\ note \in [Guardians -> [Events -> {"none", "unread", "read"}]]
    /\ told \subseteq (SUBSET Guardians) \X Events

ControlShape ==
    /\ userLock \in [Guardians -> Tx \cup {None}]
    /\ rowLock \in [Installs -> Tx \cup {None}]
    /\ pc \in [Tx -> Labels]
    /\ DOMAIN job = Tx

GuardianInv == TableShape /\ ControlShape /\ TablesOK /\ \A t \in Tx : JobOK(t)

-----------------------------------------------------------------------------
(* What a step may do to the other transactions *)

\* Their place, their fields and their locks are left alone.
LeavesAlone(p) ==
    /\ \A o \in Tx \ {p} : pc'[o] = pc[o] /\ job'[o] = job[o]
    /\ \A g \in Guardians : userLock[g] \in Tx \ {p} => userLock'[g] = userLock[g]
    /\ \A i \in Installs : rowLock[i] \in Tx \ {p} => rowLock'[i] = rowLock[i]

\* No device loses its row but under the actor's lock.
KeepsLockedRows(p) ==
    \A i \in Installs : device[i] # None /\ device'[i] = None => rowLock[i] = p

\* An active device was active before for the same guardian with the same token,
\* or it is the one the actor stores.
ActiveBefore(i) ==
    /\ device[i] # None /\ device[i].active
    /\ device[i].user = device'[i].user /\ device[i].token = device'[i].token

StoredBy(p, i) ==
    /\ p \in Tx /\ pc[p] = "store"
    /\ i = job[p].install
    /\ device'[i].user = job[p].user /\ device'[i].token = job[p].token

ActivatesOwn(p) ==
    \A i \in Installs : device'[i] # None /\ device'[i].active => ActiveBefore(i) \/ StoredBy(p, i)

\* Notifications stay until the account is closed.
KeepsNotes ==
    /\ closed \subseteq closed'
    /\ \A g \in Guardians \ closed', e \in Events : Has(g, e) => note'[g][e] # "none"

\* A token that is being stored is not stored a second time.
WaitsForToken(p) ==
    p \in Tx /\ pc'[p] = "store" =>
        \A o \in Tx \ {p} : pc[o] = "store" => job[o].token # job'[p].token

Gentle(p) ==
    LeavesAlone(p) /\ KeepsLockedRows(p) /\ ActivatesOwn(p) /\ KeepsNotes /\ WaitsForToken(p)

LEMMA NobodyIsNone == Sensible => None \notin Tx /\ None \notin Devices
  BY DEF Sensible

LEMMA DeviceFacts ==
  ASSUME TableShape, NEW i \in Installs
  PROVE  device[i] = None \/ device[i] \in Devices
  BY DEF TableShape

\* Who is active for a guardian when a request has stored its own device: the
\* new one, and those that were and do not yield to it.
RowsAfter(rows, q) ==
    [i \in Installs |->
        IF i = q.install
        THEN [user |-> q.user, token |-> q.token, active |-> TRUE]
        ELSE IF i \in q.yield THEN [rows[i] EXCEPT !.active = FALSE]
        ELSE rows[i]]

ActiveIn(rows, g) == {i \in Installs : rows[i] # None /\ rows[i].active /\ rows[i].user = g}

LEMMA ActiveInIs ==
  /\ \A t \in Tx : ActiveAfter(t) = ActiveIn(RowsAfter(device, job[t]), job[t].user)
  /\ \A g : ActiveOf(g) = ActiveIn(device, g)
<1>1. ASSUME NEW t \in Tx
      PROVE  ActiveAfter(t) = ActiveIn(RowsAfter(device, job[t]), job[t].user)
  BY DEF ActiveAfter, ActiveIn, Registered, RowsAfter
<1>2. ASSUME NEW g PROVE ActiveOf(g) = ActiveIn(device, g)
  BY DEF ActiveOf, DevicesOf, ActiveIn
<1> QED
  BY <1>1, <1>2

LEMMA ActiveWhenStored ==
  ASSUME Sensible, NEW rows \in [Installs -> Devices \cup {None}], NEW q \in Registering,
         \A i \in q.yield : rows[i] # None
  PROVE  ActiveIn(RowsAfter(rows, q), q.user) =
           {q.install} \cup {i \in ActiveIn(rows, q.user) : i \notin q.yield}
<1>1. q.install \in Installs /\ q.user \in Guardians /\ q.token \in Tokens
      /\ q.yield \subseteq Installs
  BY DEF Registering
<1>2. PICK w : w = RowsAfter(rows, q)
  OBVIOUS
<1>3. ASSUME NEW i \in Installs
      PROVE  i \in ActiveIn(w, q.user) <=>
               i = q.install \/ (i \in ActiveIn(rows, q.user) /\ i \notin q.yield)
  <2>1. CASE i = q.install
    <3>1. PICK d \in Devices : d = [user |-> q.user, token |-> q.token, active |-> TRUE]
      BY <1>1 DEF Devices
    <3>2. d # None /\ d.active /\ d.user = q.user
      BY <3>1, NobodyIsNone
    <3> QED
      BY <1>2, <2>1, <3>1, <3>2 DEF ActiveIn, RowsAfter
  <2>2. CASE i # q.install /\ i \in q.yield
    <3>1. rows[i] \in Devices
      BY <2>2
    <3>2. PICK d : d = [rows[i] EXCEPT !.active = FALSE]
      OBVIOUS
    <3>3. ~ d.active
      BY <3>1, <3>2 DEF Devices
    <3> QED
      BY <1>2, <2>2, <3>2, <3>3 DEF ActiveIn, RowsAfter
  <2>3. CASE i # q.install /\ i \notin q.yield
    BY <1>2, <2>3 DEF ActiveIn, RowsAfter
  <2> QED
    BY <2>1, <2>2, <2>3
<1>4. ActiveIn(w, q.user) \subseteq Installs /\ ActiveIn(rows, q.user) \subseteq Installs
  BY DEF ActiveIn
<1> QED
  BY <1>1, <1>2, <1>3, <1>4

LEMMA FewerFit ==
  ASSUME Sensible, NEW S \in SUBSET Installs, NEW T \in SUBSET S, Cardinality(S) <= Limit
  PROVE  Cardinality(T) <= Limit
<1>1. IsFiniteSet(S)
  BY FS_Subset DEF Sensible
<1>2. IsFiniteSet(T) /\ Cardinality(T) <= Cardinality(S)
  BY <1>1, FS_Subset
<1>3. Cardinality(T) \in Nat /\ Cardinality(S) \in Nat
  BY <1>1, <1>2, FS_CardinalityType
<1> QED
  BY <1>2, <1>3 DEF Sensible

\* Devices of a guardian after a step are devices before it, but for a new one.
LEMMA ActiveInAfterwards ==
  ASSUME NEW p, ActivatesOwn(p), NEW g, NEW i \in ActiveIn(device', g), i \notin ActiveIn(device, g)
  PROVE  StoredBy(p, i) /\ job[p].user = g
  BY DEF ActivatesOwn, ActiveBefore, StoredBy, ActiveIn

LEMMA OthersStay ==
  ASSUME Sensible, GuardianInv, NEW p, Gentle(p), TableShape', NEW o \in Tx, o # p
  PROVE  JobOK(o)'
<1>1. pc'[o] = pc[o] /\ job'[o] = job[o]
  BY DEF Gentle, LeavesAlone
<1>2. JobOK(o)
  BY DEF GuardianInv
<1>3. FieldsOK(o)'
  BY <1>1, <1>2 DEF FieldsOK, JobOK
<1>4. LocksOK(o)'
  <2>1. ASSUME pc[o] \in Serialised PROVE userLock'[job[o].user] = o
    <3>1. job[o].user \in Guardians
      BY <1>2, <2>1 DEF JobOK, FieldsOK, RegisterLabels, Registering
    <3> QED
      BY <1>2, <2>1, <3>1 DEF JobOK, LocksOK, Gentle, LeavesAlone
  <2>2. ASSUME pc[o] \in {"save", "store"}, NEW i \in job[o].yield
        PROVE  rowLock'[i] = o /\ device'[i] # None
    <3>1. i \in Installs
      BY <1>2, <2>2 DEF JobOK, FieldsOK, RegisterLabels, Serialised, Registering
    <3>2. rowLock[i] = o /\ device[i] # None
      BY <1>2, <2>2 DEF JobOK, LocksOK
    <3> QED
      BY <3>1, <3>2 DEF Gentle, LeavesAlone, KeepsLockedRows
  <2>3. ASSUME pc[o] = "commit", NEW i \in job[o].rows
        PROVE  rowLock'[i] = o
    <3>1. i \in Installs
      BY <1>2, <2>3 DEF JobOK, FieldsOK, ClosingLabels, Closings
    <3> QED
      BY <1>2, <2>3, <3>1 DEF JobOK, LocksOK, Gentle, LeavesAlone
  <2> QED
    BY <1>1, <2>1, <2>2, <2>3 DEF LocksOK
<1>5. StoreOK(o)'
  <2> SUFFICES ASSUME pc[o] = "store" PROVE StoreOK(o)'
    BY <1>1 DEF StoreOK
  <2>1. job[o] \in Registering
    BY <1>2 DEF JobOK, FieldsOK, RegisterLabels, Serialised
  <2>2. \A x \in Tx : pc[x] = "store" /\ job[x].token = job[o].token => x = o
    BY <1>2 DEF JobOK, StoreOK
  <2>3. OthersWithToken(o)' \subseteq job'[o].yield
    <3>1. ASSUME NEW i \in OthersWithToken(o)' PROVE i \in OthersWithToken(o)
      <4>1. i \in Installs \ {job[o].install} /\ device'[i] # None /\ device'[i].active
            /\ device'[i].token = job[o].token
        BY <1>1, <3>1 DEF OthersWithToken
      <4>2. ~ StoredBy(p, i)
        BY <2>2, <4>1 DEF StoredBy
      <4>3. ActiveBefore(i)
        BY <4>1, <4>2 DEF Gentle, ActivatesOwn
      <4> QED
        BY <4>1, <4>3 DEF ActiveBefore, OthersWithToken
    <3> QED
      BY <1>1, <1>2, <3>1 DEF JobOK, StoreOK
  <2>4. Cardinality(ActiveAfter(o)') <= Limit
    <3>1. \A i \in job[o].yield : device[i] # None /\ device'[i] # None
      BY <1>1, <1>2, <1>4 DEF JobOK, LocksOK
    <3>2. PICK q \in Registering : q = job[o]
      BY <2>1
    <3>3. PICK g \in Guardians : g = q.user
      BY DEF Registering
    <3>4. PICK new, old : new = ActiveIn(device', g) /\ old = ActiveIn(device, g)
      OBVIOUS
    <3>5. ActiveAfter(o) = {q.install} \cup {i \in old : i \notin q.yield}
      <4>1. ActiveAfter(o) = ActiveIn(RowsAfter(device, q), q.user)
        BY <3>2, ActiveInIs
      <4>2. device \in [Installs -> Devices \cup {None}]
        BY DEF GuardianInv, TableShape
      <4>3. \A i \in q.yield : device[i] # None
        BY <3>1, <3>2
      <4>4. ActiveIn(RowsAfter(device, q), q.user) =
              {q.install} \cup {i \in ActiveIn(device, q.user) : i \notin q.yield}
        BY <4>2, <4>3, ActiveWhenStored
      <4> QED
        BY <3>3, <3>4, <4>1, <4>4
    <3>6. ActiveAfter(o)' = {q.install} \cup {i \in new : i \notin q.yield}
      <4>1. ActiveAfter(o)' = ActiveIn(RowsAfter(device', q), q.user)
        BY <1>1, <3>2 DEF ActiveAfter, ActiveIn, Registered, RowsAfter
      <4> QED
        BY <3>1, <3>2, <3>3, <3>4, <4>1, ActiveWhenStored DEF TableShape
    <3>7. new \subseteq old
      <4>1. SUFFICES ASSUME NEW i \in new, i \notin old PROVE FALSE
        OBVIOUS
      <4>2. StoredBy(p, i) /\ job[p].user = g
        BY <3>4, <4>1, ActiveInAfterwards DEF Gentle
      <4>3. userLock[job[p].user] = p /\ userLock[job[o].user] = o
        BY <1>2, <4>2 DEF GuardianInv, JobOK, LocksOK, Serialised, StoredBy
      <4> QED
        BY <3>2, <3>3, <4>2, <4>3
    <3>8. old \subseteq Installs /\ q.install \in Installs
      BY <3>4 DEF ActiveIn, Registering
    <3> QED
      BY <1>2, <3>5, <3>6, <3>7, <3>8, FewerFit DEF JobOK, StoreOK
  <2>5. ASSUME NEW x \in Tx, pc'[x] = "store", job'[x].token = job'[o].token
        PROVE  x = o
    <3>1. CASE x = p
      BY <1>1, <2>5, <3>1 DEF Gentle, WaitsForToken
    <3>2. CASE x # p
      BY <1>1, <2>2, <2>5, <3>2 DEF Gentle, LeavesAlone
    <3> QED
      BY <3>1, <3>2
  <2> QED
    BY <2>3, <2>4, <2>5 DEF StoreOK
<1>6. FanOutOK(o)'
  <2> SUFFICES ASSUME pc[o] = "insert", NEW g \in job[o].to \ closed'
               PROVE  g \in job[o].new \/ Has(g, job[o].event)'
    BY <1>1 DEF FanOutOK, Has
  <2>1. g \in Guardians /\ job[o].event \in Events
    BY <1>2 DEF JobOK, FieldsOK, FanOutLabels, FanOuts
  <2>2. g \in job[o].new \/ Has(g, job[o].event)
    BY <1>2 DEF JobOK, FanOutOK, Gentle, KeepsNotes
  <2> QED
    BY <1>1, <2>1, <2>2 DEF Gentle, KeepsNotes, Has
<1> QED
  BY <1>3, <1>4, <1>5, <1>6 DEF JobOK

-----------------------------------------------------------------------------
(* Steps that only move their own transaction *)

LEMMA StepKeepsInv ==
  ASSUME Sensible, GuardianInv, NEW p, Gentle(p), TableShape', ControlShape', TablesOK',
         p \in Tx => JobOK(p)'
  PROVE  GuardianInv'
<1>1. \A t \in Tx : JobOK(t)'
  BY OthersStay
<1> QED
  BY <1>1 DEF GuardianInv

LEMMA QuietGood ==
  ASSUME Sensible, GuardianInv, UNCHANGED <<closed, device, older, note, told>>, ControlShape',
         NEW p, LeavesAlone(p), WaitsForToken(p), p \in Tx => JobOK(p)'
  PROVE  GuardianInv'
<1>1. TableShape'
  BY DEF GuardianInv, TableShape
<1>2. TablesOK'
  <2>1. InLine' /\ OneDevicePerToken'
    BY DEF GuardianInv, TablesOK, InLine, OneDevicePerToken, Existing
  <2>2. WithinLimit'
    BY DEF GuardianInv, TablesOK, WithinLimit, ActiveOf, DevicesOf
  <2>3. NobodyIsMissed'
    BY DEF GuardianInv, TablesOK, NobodyIsMissed, Has
  <2> QED
    BY <2>1, <2>2, <2>3 DEF TablesOK
<1>3. KeepsLockedRows(p) /\ ActivatesOwn(p)
  BY DEF KeepsLockedRows, ActivatesOwn, ActiveBefore
<1>4. KeepsNotes
  BY DEF KeepsNotes, Has
<1> QED
  BY <1>1, <1>2, <1>3, <1>4, StepKeepsInv DEF Gentle

LEMMA FinishFacts ==
  ASSUME Sensible, GuardianInv, NEW t \in Tx, Finish(t)
  PROVE  ControlShape' /\ LeavesAlone(t) /\ WaitsForToken(t) /\ JobOK(t)'
<1>1. ControlShape
  BY DEF GuardianInv
<1>2. pc' \in [Tx -> Labels] /\ pc'[t] = "idle" /\ DOMAIN job' = Tx
      /\ \A o \in Tx \ {t} : pc'[o] = pc[o] /\ job'[o] = job[o]
  BY <1>1 DEF Finish, ControlShape, Labels
<1>3. userLock' \in [Guardians -> Tx \cup {None}] /\ rowLock' \in [Installs -> Tx \cup {None}]
  BY <1>1 DEF Finish, ControlShape
<1>4. LeavesAlone(t)
  BY <1>2 DEF LeavesAlone, Finish
<1>5. WaitsForToken(t)
  BY <1>2 DEF WaitsForToken
<1>6. JobOK(t)'
  BY <1>2 DEF JobOK, FieldsOK, LocksOK, StoreOK, FanOutOK, RegisterLabels, Serialised,
              FanOutLabels, ClosingLabels
<1> QED
  BY <1>2, <1>3, <1>4, <1>5, <1>6 DEF ControlShape

LEMMA EndedGood ==
  ASSUME Sensible, GuardianInv, NEW t \in Tx, Finish(t), UNCHANGED stored
  PROVE  GuardianInv'
  BY FinishFacts, QuietGood DEF stored

LEMMA GotoFacts ==
  ASSUME GuardianInv, NEW t \in Tx, NEW l \in Labels, Goto(t, l)
  PROVE  /\ pc' \in [Tx -> Labels] /\ pc'[t] = l
         /\ \A o \in Tx \ {t} : pc'[o] = pc[o]
  BY DEF Goto, GuardianInv, ControlShape

LEMMA StartGood ==
  ASSUME Sensible, GuardianInv, NEW t \in Tx, NEW q, NEW l, Goto(t, l),
         job' = [job EXCEPT ![t] = q], UNCHANGED <<stored, userLock, rowLock>>,
         \/ l = "register" /\ q \in Registering
         \/ l = "validate" /\ q \in FanOuts
         \/ l = "close" /\ q \in Closings
  PROVE  GuardianInv'
<1>1. l \in Labels
  BY DEF Labels, RegisterLabels, FanOutLabels, ClosingLabels
<1>2. /\ pc' \in [Tx -> Labels] /\ pc'[t] = l
      /\ \A o \in Tx \ {t} : pc'[o] = pc[o]
  BY <1>1, GotoFacts
<1>3. /\ job'[t] = q /\ DOMAIN job' = Tx
      /\ \A o \in Tx \ {t} : job'[o] = job[o]
  BY DEF GuardianInv, ControlShape
<1>4. ControlShape'
  BY <1>2, <1>3 DEF GuardianInv, ControlShape
<1>5. LeavesAlone(t)
  BY <1>2, <1>3 DEF LeavesAlone
<1>6. WaitsForToken(t)
  BY <1>2 DEF WaitsForToken
<1>7. JobOK(t)'
  BY <1>2, <1>3 DEF JobOK, FieldsOK, LocksOK, StoreOK, FanOutOK, RegisterLabels, Serialised,
              FanOutLabels, ClosingLabels
<1> QED
  BY <1>4, <1>5, <1>6, <1>7, QuietGood DEF stored

LEMMA StartsGood ==
  ASSUME Sensible, GuardianInv, NEW t \in Tx, Start(t)
  PROVE  GuardianInv'
<1>1. CASE \E g \in Guardians, i \in Installs, token \in Tokens : StartRegister(t, g, i, token)
  <2>1. PICK g \in Guardians, i \in Installs, token \in Tokens : StartRegister(t, g, i, token)
    BY <1>1
  <2>2. PICK q : q = [user |-> g, install |-> i, token |-> token, yield |-> {}]
    OBVIOUS
  <2>3. q \in Registering
    BY <2>2 DEF Registering
  <2> QED
    BY <2>1, <2>2, <2>3, StartGood DEF StartRegister
<1>2. CASE \E recipients \in SUBSET Guardians, e \in Events : StartFanOut(t, recipients, e)
  <2>1. PICK recipients \in SUBSET Guardians, e \in Events : StartFanOut(t, recipients, e)
    BY <1>2
  <2>2. PICK q : q = [to |-> recipients, event |-> e, new |-> {}]
    OBVIOUS
  <2>3. q \in FanOuts
    BY <2>2 DEF FanOuts
  <2> QED
    BY <2>1, <2>2, <2>3, StartGood DEF StartFanOut
<1>3. CASE \E g \in Guardians : StartClosing(t, g)
  <2>1. PICK g \in Guardians : StartClosing(t, g)
    BY <1>3
  <2>2. PICK q : q = [user |-> g, rows |-> {}, old |-> {}]
    OBVIOUS
  <2>3. q \in Closings
    BY <2>2 DEF Closings
  <2> QED
    BY <2>1, <2>2, <2>3, StartGood DEF StartClosing
<1> QED
  BY <1>1, <1>2, <1>3 DEF Start

LEMMA LockRowsFacts ==
  ASSUME Sensible, GuardianInv, NEW t \in Tx, NEW rows, \A i \in rows : FreeFor(t, i),
         LockRows(t, rows)
  PROVE  /\ rowLock' \in [Installs -> Tx \cup {None}]
         /\ \A i \in Installs : rowLock[i] \in Tx \ {t} => rowLock'[i] = rowLock[i]
         /\ \A i \in Installs : rowLock[i] = t \/ i \in rows => rowLock'[i] = t
  BY NobodyIsNone DEF LockRows, FreeFor, GuardianInv, ControlShape

\* register_push_device up to the device row.
LEMMA LockGuardianGood ==
  ASSUME Sensible, GuardianInv, NEW t \in Tx, LockGuardian(t)
  PROVE  GuardianInv'
<1>1. "take" \in Labels
  BY DEF Labels, RegisterLabels, Serialised
<1>2. /\ pc' \in [Tx -> Labels] /\ pc'[t] = "take"
      /\ \A o \in Tx \ {t} : pc'[o] = pc[o]
  BY <1>1, GotoFacts DEF LockGuardian
<1>3. job[t] \in Registering /\ job' = job
  BY DEF LockGuardian, GuardianInv, JobOK, FieldsOK, RegisterLabels
<1>4. PICK g \in Guardians : g = job[t].user
  BY <1>3 DEF Registering
<1>5. /\ userLock' \in [Guardians -> Tx \cup {None}]
      /\ userLock'[g] = t
      /\ \A h \in Guardians : userLock[h] \in Tx \ {t} => userLock'[h] = userLock[h]
  BY <1>4, NobodyIsNone DEF LockGuardian, GuardianInv, ControlShape
<1>6. ControlShape'
  BY <1>2, <1>3, <1>5 DEF LockGuardian, GuardianInv, ControlShape
<1>7. LeavesAlone(t) /\ WaitsForToken(t)
  BY <1>2, <1>3, <1>5 DEF LeavesAlone, WaitsForToken, LockGuardian
<1>8. JobOK(t)'
  BY <1>2, <1>3, <1>4, <1>5
     DEF JobOK, FieldsOK, LocksOK, StoreOK, FanOutOK, RegisterLabels, Serialised,
         FanOutLabels, ClosingLabels
<1> QED
  BY <1>6, <1>7, <1>8, QuietGood DEF LockGuardian, stored

LEMMA TakeDeviceGood ==
  ASSUME Sensible, GuardianInv, NEW t \in Tx, TakeDevice(t)
  PROVE  GuardianInv'
<1>1. "compare" \in Labels
  BY DEF Labels, RegisterLabels, Serialised
<1>2. /\ pc' \in [Tx -> Labels] /\ pc'[t] = "compare"
      /\ \A o \in Tx \ {t} : pc'[o] = pc[o]
  BY <1>1, GotoFacts DEF TakeDevice
<1>3. job[t] \in Registering /\ job' = job /\ userLock[job[t].user] = t /\ userLock' = userLock
  BY DEF TakeDevice, GuardianInv, JobOK, FieldsOK, LocksOK, RegisterLabels, Serialised
<1>4. /\ rowLock' \in [Installs -> Tx \cup {None}]
      /\ \A i \in Installs : rowLock[i] \in Tx \ {t} => rowLock'[i] = rowLock[i]
  BY LockRowsFacts DEF TakeDevice
<1>5. ControlShape'
  BY <1>2, <1>3, <1>4 DEF GuardianInv, ControlShape
<1>6. LeavesAlone(t) /\ WaitsForToken(t)
  BY <1>2, <1>3, <1>4 DEF LeavesAlone, WaitsForToken
<1>7. JobOK(t)'
  BY <1>2, <1>3
     DEF JobOK, FieldsOK, LocksOK, StoreOK, FanOutOK, RegisterLabels, Serialised,
         FanOutLabels, ClosingLabels
<1> QED
  BY <1>5, <1>6, <1>7, QuietGood DEF TakeDevice, stored

LEMMA YieldTokenGood ==
  ASSUME Sensible, GuardianInv, NEW t \in Tx, YieldToken(t)
  PROVE  GuardianInv'
<1>1. CASE \E i \in OthersWithToken(t) : device[i].user # job[t].user
  BY <1>1, EndedGood DEF YieldToken
<1>2. CASE ~ \E i \in OthersWithToken(t) : device[i].user # job[t].user
  <2>1. "save" \in Labels
    BY DEF Labels, RegisterLabels, Serialised
  <2>2. /\ pc' \in [Tx -> Labels] /\ pc'[t] = "save"
        /\ \A o \in Tx \ {t} : pc'[o] = pc[o]
    BY <1>2, <2>1, GotoFacts DEF YieldToken
  <2>3. job[t] \in Registering /\ userLock[job[t].user] = t /\ userLock' = userLock
    BY <1>2 DEF YieldToken, GuardianInv, JobOK, FieldsOK, LocksOK, RegisterLabels, Serialised
  <2>4. PICK rows \in SUBSET Installs : rows = OthersWithToken(t)
    BY DEF OthersWithToken
  <2>5. /\ rowLock' \in [Installs -> Tx \cup {None}]
        /\ \A i \in Installs : rowLock[i] \in Tx \ {t} => rowLock'[i] = rowLock[i]
        /\ \A i \in rows : rowLock'[i] = t
    BY <1>2, <2>4, LockRowsFacts DEF YieldToken
  <2>6. PICK q : q = [job[t] EXCEPT !.yield = rows]
    OBVIOUS
  <2>7. q \in Registering /\ q.user = job[t].user /\ q.yield = rows
    BY <2>3, <2>6 DEF Registering
  <2>8. /\ job'[t] = q /\ DOMAIN job' = Tx
        /\ \A o \in Tx \ {t} : job'[o] = job[o]
    BY <1>2, <2>4, <2>6 DEF YieldToken, GuardianInv, ControlShape
  <2>9. ControlShape'
    BY <2>2, <2>3, <2>5, <2>8 DEF GuardianInv, ControlShape
  <2>10. LeavesAlone(t) /\ WaitsForToken(t)
    BY <2>2, <2>3, <2>5, <2>8 DEF LeavesAlone, WaitsForToken
  <2>11. \A i \in rows : device'[i] # None
    BY <2>4 DEF OthersWithToken, YieldToken, stored
  <2>12. JobOK(t)'
    BY <2>2, <2>3, <2>5, <2>7, <2>8, <2>11
       DEF JobOK, FieldsOK, LocksOK, StoreOK, FanOutOK, RegisterLabels, Serialised,
           FanOutLabels, ClosingLabels
  <2> QED
    BY <2>9, <2>10, <2>12, QuietGood DEF YieldToken, stored
<1> QED
  BY <1>1, <1>2

LEMMA LockAccountGood ==
  ASSUME Sensible, GuardianInv, NEW t \in Tx, LockAccount(t)
  PROVE  GuardianInv'
<1>1. "erase" \in Labels
  BY DEF Labels, ClosingLabels
<1>2. /\ pc' \in [Tx -> Labels] /\ pc'[t] = "erase"
      /\ \A o \in Tx \ {t} : pc'[o] = pc[o]
  BY <1>1, GotoFacts DEF LockAccount
<1>3. job[t] \in Closings /\ job' = job
  BY DEF LockAccount, GuardianInv, JobOK, FieldsOK, ClosingLabels
<1>4. PICK g \in Guardians : g = job[t].user
  BY <1>3 DEF Closings
<1>5. /\ userLock' \in [Guardians -> Tx \cup {None}]
      /\ \A h \in Guardians : userLock[h] \in Tx \ {t} => userLock'[h] = userLock[h]
  BY <1>4, NobodyIsNone DEF LockAccount, GuardianInv, ControlShape
<1>6. ControlShape'
  BY <1>2, <1>3, <1>5 DEF LockAccount, GuardianInv, ControlShape
<1>7. LeavesAlone(t) /\ WaitsForToken(t)
  BY <1>2, <1>3, <1>5 DEF LeavesAlone, WaitsForToken, LockAccount
<1>8. JobOK(t)'
  BY <1>2, <1>3
     DEF JobOK, FieldsOK, LocksOK, StoreOK, FanOutOK, RegisterLabels, Serialised,
         FanOutLabels, ClosingLabels
<1> QED
  BY <1>6, <1>7, <1>8, QuietGood DEF LockAccount, stored

LEMMA EraseDataGood ==
  ASSUME Sensible, GuardianInv, NEW t \in Tx, EraseData(t)
  PROVE  GuardianInv'
<1>1. "commit" \in Labels
  BY DEF Labels, ClosingLabels
<1>2. /\ pc' \in [Tx -> Labels] /\ pc'[t] = "commit"
      /\ \A o \in Tx \ {t} : pc'[o] = pc[o]
  BY <1>1, GotoFacts DEF EraseData
<1>3. job[t] \in Closings
  BY DEF EraseData, GuardianInv, JobOK, FieldsOK, ClosingLabels
<1>4. PICK rows \in SUBSET Installs : rows = DevicesOf(job[t].user)
  BY DEF DevicesOf
<1>5. PICK old \in SUBSET Events : old = {e \in Events : Has(job[t].user, e)}
  OBVIOUS
<1>6. /\ rowLock' \in [Installs -> Tx \cup {None}]
      /\ \A i \in Installs : rowLock[i] \in Tx \ {t} => rowLock'[i] = rowLock[i]
      /\ \A i \in rows : rowLock'[i] = t
  BY <1>4, LockRowsFacts DEF EraseData
<1>7. PICK q : q = [job[t] EXCEPT !.rows = rows, !.old = old]
  OBVIOUS
<1>8. q \in Closings /\ q.rows = rows
  BY <1>3, <1>7 DEF Closings
<1>9. /\ job'[t] = q /\ DOMAIN job' = Tx
      /\ \A o \in Tx \ {t} : job'[o] = job[o]
  BY <1>4, <1>5, <1>7 DEF EraseData, GuardianInv, ControlShape
<1>10. ControlShape'
  BY <1>2, <1>6, <1>9 DEF EraseData, GuardianInv, ControlShape
<1>11. LeavesAlone(t) /\ WaitsForToken(t)
  BY <1>2, <1>6, <1>9 DEF LeavesAlone, WaitsForToken, EraseData
<1>12. JobOK(t)'
  BY <1>2, <1>6, <1>8, <1>9
     DEF JobOK, FieldsOK, LocksOK, StoreOK, FanOutOK, RegisterLabels, Serialised,
         FanOutLabels, ClosingLabels
<1> QED
  BY <1>10, <1>11, <1>12, QuietGood DEF EraseData, stored

LEMMA ValidateGood ==
  ASSUME Sensible, GuardianInv, NEW t \in Tx, Validate(t)
  PROVE  GuardianInv'
<1>1. CASE job[t].to \cap closed # {}
  BY <1>1, EndedGood DEF Validate
<1>2. CASE job[t].to \cap closed = {}
  <2>1. "insert" \in Labels
    BY DEF Labels, FanOutLabels
  <2>2. /\ pc' \in [Tx -> Labels] /\ pc'[t] = "insert"
        /\ \A o \in Tx \ {t} : pc'[o] = pc[o]
    BY <1>2, <2>1, GotoFacts DEF Validate
  <2>3. job[t] \in FanOuts
    BY DEF Validate, GuardianInv, JobOK, FieldsOK, FanOutLabels
  <2>4. PICK new : new = {g \in job[t].to : ~Has(g, job[t].event)}
    OBVIOUS
  <2>5. new \in SUBSET Guardians
    BY <2>3, <2>4 DEF FanOuts
  <2>6. PICK q : q = [job[t] EXCEPT !.new = new]
    OBVIOUS
  <2>7. q \in FanOuts /\ q.new = new /\ q.to = job[t].to /\ q.event = job[t].event
    BY <2>3, <2>5, <2>6 DEF FanOuts
  <2>8. /\ job'[t] = q /\ DOMAIN job' = Tx
        /\ \A o \in Tx \ {t} : job'[o] = job[o]
    BY <1>2, <2>4, <2>6 DEF Validate, GuardianInv, ControlShape
  <2>9. ControlShape'
    BY <1>2, <2>2, <2>8 DEF Validate, GuardianInv, ControlShape
  <2>10. LeavesAlone(t) /\ WaitsForToken(t)
    BY <1>2, <2>2, <2>8 DEF LeavesAlone, WaitsForToken, Validate
  <2>11. \A g \in q.to \ closed' : g \in q.new \/ Has(g, q.event)'
    BY <2>4, <2>7 DEF Validate, stored, Has
  <2>12. FanOutOK(t)'
    BY <2>8, <2>11 DEF FanOutOK, Has
  <2>13. JobOK(t)'
    BY <2>2, <2>7, <2>8, <2>12
       DEF JobOK, FieldsOK, LocksOK, StoreOK, RegisterLabels, Serialised,
           FanOutLabels, ClosingLabels
  <2> QED
    BY <2>9, <2>10, <2>13, QuietGood DEF Validate, stored
<1> QED
  BY <1>1, <1>2

-----------------------------------------------------------------------------
(* Notifications *)

\* A step that writes notifications only, and loses none.
LEMMA NotesGood ==
  ASSUME Sensible, GuardianInv, NEW p, UNCHANGED <<closed, device, older>>, TableShape', ControlShape',
         LeavesAlone(p), WaitsForToken(p), p \in Tx => JobOK(p)',
         \A g \in Guardians, e \in Events : Has(g, e) => note'[g][e] # "none",
         NobodyIsMissed'
  PROVE  GuardianInv'
<1>1. InLine' /\ OneDevicePerToken'
  BY DEF GuardianInv, TablesOK, InLine, OneDevicePerToken, Existing
<1>2. WithinLimit'
  BY DEF GuardianInv, TablesOK, WithinLimit, ActiveOf, DevicesOf
<1>3. TablesOK'
  BY <1>1, <1>2 DEF TablesOK
<1>4. KeepsLockedRows(p) /\ ActivatesOwn(p)
  BY DEF KeepsLockedRows, ActivatesOwn, ActiveBefore
<1>5. KeepsNotes
  BY DEF KeepsNotes
<1> QED
  BY <1>3, <1>4, <1>5, StepKeepsInv DEF Gentle

\* Inserting for everybody who lacks the event, whoever was first.
LEMMA InsertGood ==
  ASSUME Sensible, GuardianInv, NEW t \in Tx, job[t] \in FanOuts, NEW new, Insert(t, new),
         \A g \in job[t].to \ closed : g \in new \/ Has(g, job[t].event)
  PROVE  GuardianInv'
<1>1. ControlShape' /\ LeavesAlone(t) /\ WaitsForToken(t) /\ JobOK(t)'
  BY FinishFacts DEF Insert
<1>2. PICK to \in SUBSET Guardians : to = job[t].to
  BY DEF FanOuts
<1>3. PICK e \in Events : e = job[t].event
  BY DEF FanOuts
<1>4. TableShape
  BY DEF GuardianInv
<1>5. ASSUME NEW g \in Guardians
      PROVE  /\ note'[g] \in [Events -> {"none", "unread", "read"}]
             /\ \A f \in Events : Has(g, f) => note'[g][f] # "none"
             /\ g \in new => note'[g][e] # "none"
  <2>1. note[g] \in [Events -> {"none", "unread", "read"}]
    BY <1>4 DEF TableShape
  <2>2. note'[g] = IF g \in new THEN [note[g] EXCEPT ![e] = "unread"] ELSE note[g]
    BY <1>3 DEF Insert
  <2>3. CASE g \in new
    BY <1>3, <2>1, <2>2, <2>3 DEF Has
  <2>4. CASE g \notin new
    BY <2>1, <2>2, <2>4 DEF Has
  <2> QED
    BY <2>3, <2>4
<1>6. note' \in [Guardians -> [Events -> {"none", "unread", "read"}]]
  <2>1. PICK w : w = note'
    OBVIOUS
  <2>2. w = [g \in Guardians |-> w[g]]
    BY <2>1 DEF Insert
  <2>3. \A g \in Guardians : w[g] \in [Events -> {"none", "unread", "read"}]
    BY <1>5, <2>1
  <2> QED
    BY <2>1, <2>2, <2>3
<1>7. TableShape'
  BY <1>2, <1>3, <1>4, <1>6 DEF TableShape, Insert
<1>8. NobodyIsMissed'
  <2> SUFFICES ASSUME NEW x \in told', NEW g \in x[1] \ closed PROVE note'[g][x[2]] # "none"
    BY DEF NobodyIsMissed, Insert, Has
  <2>1. x \in (SUBSET Guardians) \X Events
    BY <1>7 DEF TableShape
  <2>2. CASE x \in told
    BY <1>5, <2>1, <2>2 DEF GuardianInv, TablesOK, NobodyIsMissed
  <2>3. CASE x = <<to, e>>
    BY <1>2, <1>3, <1>5, <2>1, <2>3
  <2> QED
    BY <1>2, <1>3, <2>2, <2>3 DEF Insert
<1> QED
  BY <1>1, <1>5, <1>7, <1>8, NotesGood DEF Insert

LEMMA BulkInsertGood ==
  ASSUME Sensible, GuardianInv, NEW t \in Tx, BulkInsert(t)
  PROVE  GuardianInv'
<1>1. job[t] \in FanOuts /\ FanOutOK(t)
  BY DEF BulkInsert, GuardianInv, JobOK, FieldsOK, FanOutLabels
<1>2. CASE \E g \in job[t].new : Has(g, job[t].event)
  <2>1. "one by one" \in Labels
    BY DEF Labels, FanOutLabels
  <2>2. /\ pc' \in [Tx -> Labels] /\ pc'[t] = "one by one"
        /\ \A o \in Tx \ {t} : pc'[o] = pc[o]
    BY <1>2, <2>1, GotoFacts DEF BulkInsert
  <2>3. UNCHANGED <<stored, job, userLock, rowLock>>
    BY <1>2 DEF BulkInsert
  <2>4. ControlShape' /\ LeavesAlone(t) /\ WaitsForToken(t)
    BY <2>2, <2>3 DEF GuardianInv, ControlShape, LeavesAlone, WaitsForToken
  <2>5. JobOK(t)'
    BY <1>1, <2>2, <2>3
       DEF JobOK, FieldsOK, LocksOK, StoreOK, FanOutOK, RegisterLabels, Serialised,
           FanOutLabels, ClosingLabels
  <2> QED
    BY <2>3, <2>4, <2>5, QuietGood DEF stored
<1>3. CASE ~ \E g \in job[t].new : Has(g, job[t].event)
  <2>1. Insert(t, job[t].new)
    BY <1>3 DEF BulkInsert
  <2> QED
    BY <1>1, <2>1, InsertGood DEF FanOutOK, BulkInsert
<1> QED
  BY <1>2, <1>3

LEMMA OneByOneGood ==
  ASSUME Sensible, GuardianInv, NEW t \in Tx, OneByOne(t)
  PROVE  GuardianInv'
<1>1. job[t] \in FanOuts
  BY DEF OneByOne, GuardianInv, JobOK, FieldsOK, FanOutLabels
<1>2. CASE job[t].to \cap closed # {}
  BY <1>2, EndedGood DEF OneByOne
<1>3. CASE job[t].to \cap closed = {}
  <2>1. Insert(t, Missing(t))
    BY <1>3 DEF OneByOne
  <2>2. \A g \in job[t].to \ closed : g \in Missing(t) \/ Has(g, job[t].event)
    BY DEF Missing
  <2> QED
    BY <1>1, <2>1, <2>2, InsertGood
<1> QED
  BY <1>2, <1>3

\* The office has nothing under way: None is no transaction.
LEMMA NoTransaction ==
  ASSUME Sensible, GuardianInv, UNCHANGED <<userLock, rowLock, pc, job>>
  PROVE  ControlShape' /\ LeavesAlone(None) /\ WaitsForToken(None) /\ None \notin Tx
  BY NobodyIsNone DEF GuardianInv, ControlShape, LeavesAlone, WaitsForToken

LEMMA ReadingGood ==
  ASSUME Sensible, GuardianInv, NEW g \in Guardians,
         NEW marked \in [Events -> {"none", "unread", "read"}], note' = [note EXCEPT ![g] = marked],
         \A e \in Events : Has(g, e) => marked[e] # "none",
         UNCHANGED <<closed, device, older, told, userLock, rowLock, pc, job>>
  PROVE  GuardianInv'
<1>1. TableShape'
  BY DEF GuardianInv, TableShape
<1>2. \A h \in Guardians, e \in Events : Has(h, e) => note'[h][e] # "none"
  BY DEF GuardianInv, TableShape, Has
<1>3. NobodyIsMissed'
  <2> SUFFICES ASSUME NEW x \in told, NEW h \in x[1] \ closed PROVE note'[h][x[2]] # "none"
    BY DEF NobodyIsMissed, Has
  <2>1. x \in (SUBSET Guardians) \X Events
    BY DEF GuardianInv, TableShape
  <2> QED
    BY <1>2, <2>1 DEF GuardianInv, TablesOK, NobodyIsMissed
<1> QED
  BY <1>1, <1>2, <1>3, NoTransaction, NotesGood

LEMMA MarkReadGood ==
  ASSUME Sensible, GuardianInv, NEW g \in Guardians, NEW e \in Events, MarkRead(g, e)
  PROVE  GuardianInv'
<1>1. note[g] \in [Events -> {"none", "unread", "read"}]
  BY DEF GuardianInv, TableShape
<1>2. PICK m : m = [note[g] EXCEPT ![e] = "read"]
  OBVIOUS
<1>3. m \in [Events -> {"none", "unread", "read"}] /\ \A f \in Events : Has(g, f) => m[f] # "none"
  BY <1>1, <1>2 DEF Has
<1>4. note' = [note EXCEPT ![g] = m]
  BY <1>2 DEF MarkRead
<1> QED
  BY <1>3, <1>4, ReadingGood DEF MarkRead

LEMMA MarkAllReadGood ==
  ASSUME Sensible, GuardianInv, NEW g \in Guardians, MarkAllRead(g)
  PROVE  GuardianInv'
<1>1. note[g] \in [Events -> {"none", "unread", "read"}]
  BY DEF GuardianInv, TableShape
<1>2. PICK m : m = [e \in Events |-> IF note[g][e] = "unread" THEN "read" ELSE note[g][e]]
  OBVIOUS
<1>3. m \in [Events -> {"none", "unread", "read"}] /\ \A f \in Events : Has(g, f) => m[f] # "none"
  BY <1>1, <1>2 DEF Has
<1>4. note' = [note EXCEPT ![g] = m]
  BY <1>2 DEF MarkAllRead, GuardianInv, TableShape
<1> QED
  BY <1>3, <1>4, ReadingGood DEF MarkAllRead

-----------------------------------------------------------------------------
(* Devices *)

\* A set in a line, and those of it that stand too far from the end: so many
\* are behind them, or own the last place, that the limit is reached.
Ordered(S, line) ==
    /\ \A i, j \in S : i # j <=> <<i, j>> \in line \/ <<j, i>> \in line
    /\ \A i, j, k \in S : <<i, j>> \in line /\ <<j, k>> \in line => <<i, k>> \in line

Newer(S, own, line, i) == {j \in S : j = own \/ <<i, j>> \in line}

TooOld(S, own, line) == {i \in S \ {own} : Cardinality(Newer(S, own, line, i)) >= Limit}

\* A line has a first member.
LEMMA FirstInLine ==
  ASSUME NEW S, IsFiniteSet(S), S # {}, NEW line, Ordered(S, line)
  PROVE  \E m \in S : \A k \in S : k # m => <<m, k>> \in line
<1> DEFINE Before(m) == {k \in S : <<k, m>> \in line}
<1>1. PICK F : F = {Before(m) : m \in S}
  OBVIOUS
<1>2. \A m \in S : Before(m) \in SUBSET S
  OBVIOUS
<1>3. PICK s \in S : TRUE
  OBVIOUS
<1>4. Before(s) \in F
  BY <1>1, <1>3
<1>5. F \in SUBSET (SUBSET S) /\ F # {}
  <2> HIDE DEF Before
  <2> QED
    BY <1>1, <1>2, <1>4
<1>6. PICK T \in F : \A U \in F : U \subseteq T => U = T
  BY <1>5, SmallestSubset
<1>7. PICK m \in S : T = Before(m)
  BY <1>1, <1>6
<1>8. ASSUME NEW k \in S, <<k, m>> \in line PROVE FALSE
  <2>1. Before(k) \in F
    BY <1>1
  <2>2. Before(k) \subseteq T
    BY <1>7, <1>8 DEF Ordered
  <2>3. k \in T /\ k \notin Before(k)
    BY <1>7, <1>8 DEF Ordered
  <2> QED
    BY <1>6, <2>1, <2>2, <2>3
<1> QED
  BY <1>7, <1>8 DEF Ordered

\* Without those that are too old no more remain than the limit allows.
LEMMA RestFits ==
  ASSUME Sensible, NEW mine \in SUBSET Installs, NEW own, NEW line, Ordered(mine \ {own}, line)
  PROVE  Cardinality(mine \ TooOld(mine, own, line)) <= Limit
<1>1. PICK rest \in SUBSET mine : rest = mine \ TooOld(mine, own, line)
  OBVIOUS
<1>2. PICK S \in SUBSET (mine \ {own}) : S = rest \ {own}
  OBVIOUS
<1>3. IsFiniteSet(mine) /\ IsFiniteSet(rest) /\ IsFiniteSet(S)
  BY <1>2, FS_Subset DEF Sensible
<1>4. CASE S = {}
  <2>1. rest \subseteq {own}
    BY <1>2, <1>4
  <2>2. IsFiniteSet({own}) /\ Cardinality({own}) = 1
    BY FS_Singleton
  <2>3. Cardinality(rest) <= 1
    BY <2>1, <2>2, FS_Subset
  <2>4. Cardinality(rest) \in Nat
    BY <1>3, FS_CardinalityType
  <2> QED
    BY <1>1, <2>3, <2>4 DEF Sensible
<1>5. CASE S # {}
  <2>1. Ordered(S, line)
    BY DEF Ordered
  <2>2. PICK m \in S : \A k \in S : k # m => <<m, k>> \in line
    BY <1>3, <1>5, <2>1, FirstInLine
  <2>3. PICK newer \in SUBSET mine : newer = Newer(mine, own, line, m)
    BY DEF Newer
  <2>4. m \in mine \ {own} /\ m \notin TooOld(mine, own, line)
    BY <1>1, <1>2
  <2>5. ~ (Cardinality(newer) >= Limit)
    BY <2>3, <2>4 DEF TooOld
  <2>6. rest \ {m} \subseteq newer
    BY <1>2, <2>2, <2>3 DEF Newer
  <2>7. IsFiniteSet(newer)
    BY <1>3, FS_Subset
  <2>8. Cardinality(rest \ {m}) <= Cardinality(newer)
    BY <2>6, <2>7, FS_Subset
  <2>9. Cardinality(rest \ {m}) = Cardinality(rest) - 1
    BY <1>2, <1>3, FS_RemoveElement
  <2>10. Cardinality(newer) \in Nat /\ Cardinality(rest) \in Nat
    BY <1>3, <2>7, FS_CardinalityType
  <2> QED
    BY <1>1, <2>5, <2>8, <2>9, <2>10 DEF Sensible
<1> QED
  BY <1>4, <1>5

LEMMA SavingGood ==
  ASSUME Sensible, GuardianInv, NEW t \in Tx, SaveDevice(t), TokenIsFree(t)
  PROVE  GuardianInv'
<1>1. "store" \in Labels
  BY DEF Labels, RegisterLabels, Serialised
<1>2. /\ pc' \in [Tx -> Labels] /\ pc'[t] = "store"
      /\ \A o \in Tx \ {t} : pc'[o] = pc[o]
  BY <1>1, GotoFacts DEF SaveDevice
<1>3. job[t] \in Registering /\ userLock[job[t].user] = t /\ userLock' = userLock
      /\ \A i \in job[t].yield : rowLock[i] = t /\ device[i] # None
  BY DEF SaveDevice, GuardianInv, JobOK, FieldsOK, LocksOK, RegisterLabels, Serialised
<1>4. PICK p \in Registering : p = job[t]
  BY <1>3
<1>5. p.install \in Installs /\ p.user \in Guardians /\ p.yield \in SUBSET Installs
  BY DEF Registering
<1>6. PICK old : old = ActiveIn(device, p.user)
  OBVIOUS
<1>7. PICK mine \in SUBSET Installs : mine = ActiveAfter(t)
  BY DEF ActiveAfter
<1>8. mine = {p.install} \cup {i \in old : i \notin p.yield}
  <2>1. mine = ActiveIn(RowsAfter(device, p), p.user)
    BY <1>4, <1>7, ActiveInIs
  <2>2. device \in [Installs -> Devices \cup {None}]
    BY DEF GuardianInv, TableShape
  <2>3. \A i \in p.yield : device[i] # None
    BY <1>3, <1>4
  <2>4. ActiveIn(RowsAfter(device, p), p.user) =
          {p.install} \cup {i \in ActiveIn(device, p.user) : i \notin p.yield}
    BY <2>2, <2>3, ActiveWhenStored
  <2> QED
    BY <1>6, <2>1, <2>4
<1>9. PICK excess \in SUBSET mine : excess = Excess(t, Registered(t))
  BY <1>7 DEF Excess, ActiveAfter
<1>10. excess = TooOld(mine, p.install, older)
  BY <1>4, <1>7, <1>9 DEF Excess, ActiveAfter, TooOld, Newer
<1>11. \A i \in mine \ {p.install} : i \in Existing
  BY <1>6, <1>8 DEF ActiveIn, Existing
<1>12. Cardinality(mine \ excess) <= Limit
  <2>1. Ordered(mine \ {p.install}, older)
    BY <1>11 DEF GuardianInv, TablesOK, InLine, Ordered
  <2> QED
    BY <1>10, <2>1, RestFits
<1>13. /\ rowLock' \in [Installs -> Tx \cup {None}]
       /\ \A i \in Installs : rowLock[i] \in Tx \ {t} => rowLock'[i] = rowLock[i]
       /\ \A i \in Installs : rowLock[i] = t \/ i \in excess => rowLock'[i] = t
  BY <1>9, LockRowsFacts DEF SaveDevice
<1>14. PICK q : q = [p EXCEPT !.yield = p.yield \cup excess]
  OBVIOUS
<1>15. /\ q \in Registering /\ q.user = p.user /\ q.install = p.install /\ q.token = p.token
       /\ q.yield = p.yield \cup excess
  BY <1>14, <1>5 DEF Registering
<1>16. /\ job'[t] = q /\ DOMAIN job' = Tx
       /\ \A o \in Tx \ {t} : job'[o] = job[o]
  BY <1>4, <1>9, <1>14 DEF SaveDevice, GuardianInv, ControlShape
<1>17. ControlShape'
  BY <1>2, <1>3, <1>13, <1>16 DEF GuardianInv, ControlShape
<1>18. LeavesAlone(t)
  BY <1>2, <1>3, <1>13, <1>16 DEF LeavesAlone
<1>19. WaitsForToken(t)
  BY <1>2, <1>4, <1>15, <1>16 DEF WaitsForToken, SaveDevice
<1>20. device' = device
  BY DEF SaveDevice, stored
<1>21. \A i \in q.yield : rowLock'[i] = t /\ device'[i] # None
  BY <1>3, <1>4, <1>5, <1>9, <1>10, <1>11, <1>13, <1>15, <1>20 DEF Existing, TooOld
<1>22. Cardinality(ActiveAfter(t)') <= Limit
  <2>1. ActiveAfter(t)' = ActiveIn(RowsAfter(device, q), q.user)
    BY <1>16, <1>20 DEF ActiveAfter, ActiveIn, Registered, RowsAfter
  <2>2. device \in [Installs -> Devices \cup {None}]
    BY DEF GuardianInv, TableShape
  <2>3. \A i \in q.yield : device[i] # None
    BY <1>20, <1>21
  <2>4. ActiveIn(RowsAfter(device, q), q.user) =
          {q.install} \cup {i \in ActiveIn(device, q.user) : i \notin q.yield}
    BY <1>15, <2>2, <2>3, ActiveWhenStored
  <2>5. ActiveAfter(t)' = mine \ excess
    BY <1>6, <1>8, <1>10, <1>15, <2>1, <2>4 DEF TooOld
  <2> QED
    BY <1>12, <2>5
<1>23. OthersWithToken(t)' \subseteq q.yield
  <2>1. OthersWithToken(t)' = OthersWithToken(t)
    BY <1>4, <1>15, <1>16, <1>20 DEF OthersWithToken
  <2> QED
    BY <1>4, <1>15, <2>1 DEF TokenIsFree
<1>24. StoreOK(t)'
  BY <1>2, <1>16, <1>18, <1>19, <1>22, <1>23 DEF StoreOK, WaitsForToken, LeavesAlone
<1>25. JobOK(t)'
  BY <1>2, <1>3, <1>4, <1>15, <1>16, <1>21, <1>24
     DEF JobOK, FieldsOK, LocksOK, FanOutOK, RegisterLabels, Serialised, FanOutLabels, ClosingLabels
<1> QED
  BY <1>17, <1>18, <1>19, <1>25, QuietGood DEF SaveDevice, stored

LEMMA SaveDeviceGood ==
  ASSUME Sensible, GuardianInv, NEW t \in Tx, SaveDevice(t)
  PROVE  GuardianInv'
<1>1. CASE TokenIsFree(t)
  BY <1>1, SavingGood
<1>2. CASE ~TokenIsFree(t)
  BY <1>2, EndedGood DEF SaveDevice
<1> QED
  BY <1>1, <1>2

\* Steps after which no device is active that was not active before.
LEMMA FewerActive ==
  ASSUME Sensible, GuardianInv,
         \A i \in Installs : device'[i] # None /\ device'[i].active => ActiveBefore(i)
  PROVE  OneDevicePerToken' /\ WithinLimit' /\ \A p : ActivatesOwn(p)
<1>1. OneDevicePerToken'
  BY DEF GuardianInv, TablesOK, OneDevicePerToken, ActiveBefore
<1>2. ASSUME NEW g \in Guardians PROVE Cardinality(ActiveOf(g)') <= Limit
  <2>1. PICK S \in SUBSET Installs : S = ActiveOf(g)
    BY DEF ActiveOf, DevicesOf
  <2>2. PICK T : T = ActiveOf(g)'
    OBVIOUS
  <2>3. T \subseteq S
    BY <2>1, <2>2 DEF ActiveOf, DevicesOf, ActiveBefore
  <2>4. Cardinality(S) <= Limit
    BY <2>1 DEF GuardianInv, TablesOK, WithinLimit
  <2> QED
    BY <2>2, <2>3, <2>4, FewerFit
<1> QED
  BY <1>1, <1>2 DEF WithinLimit, ActivatesOwn

LEMMA DeactivatingGood ==
  ASSUME Sensible, GuardianInv, NEW i \in Installs, device[i] # None,
         device' = [device EXCEPT ![i].active = FALSE],
         UNCHANGED <<closed, older, note, told, userLock, rowLock, pc, job>>
  PROVE  GuardianInv'
<1>1. device[i] \in Devices /\ device \in [Installs -> Devices \cup {None}]
  BY DeviceFacts DEF GuardianInv, TableShape
<1>2. PICK d : d = [device[i] EXCEPT !.active = FALSE]
  OBVIOUS
<1>3. d \in Devices /\ ~ d.active /\ d # None
  BY <1>1, <1>2, NobodyIsNone DEF Devices
<1>4. device' = [device EXCEPT ![i] = d]
  BY <1>2
<1>5. TableShape'
  BY <1>1, <1>3, <1>4 DEF GuardianInv, TableShape
<1>6. \A j \in Installs : device'[j] # None <=> device[j] # None
  BY <1>1, <1>3, <1>4
<1>7. \A j \in Installs : device'[j] # None /\ device'[j].active => ActiveBefore(j)
  BY <1>1, <1>3, <1>4 DEF ActiveBefore
<1>8. InLine'
  <2>1. Existing' = Existing
    BY <1>6 DEF Existing
  <2> QED
    BY <2>1 DEF GuardianInv, TablesOK, InLine
<1>9. NobodyIsMissed'
  BY DEF GuardianInv, TablesOK, NobodyIsMissed, Has
<1>10. TablesOK'
  BY <1>7, <1>8, <1>9, FewerActive DEF TablesOK
<1>11. KeepsLockedRows(None) /\ KeepsNotes
  BY <1>6 DEF KeepsLockedRows, KeepsNotes, Has
<1>12. Gentle(None)
  BY <1>7, <1>11, FewerActive, NoTransaction DEF Gentle
<1> QED
  BY <1>5, <1>10, <1>12, NoTransaction, StepKeepsInv

LEMMA UnregisterGood ==
  ASSUME Sensible, GuardianInv, NEW g \in Guardians, NEW i \in Installs, Unregister(g, i)
  PROVE  GuardianInv'
  BY DeactivatingGood DEF Unregister

LEMMA FindDeadGood ==
  ASSUME Sensible, GuardianInv, NEW i \in Installs, FindDead(i)
  PROVE  GuardianInv'
  BY NoTransaction, QuietGood DEF FindDead

LEMMA DisableDeadGood ==
  ASSUME Sensible, GuardianInv, NEW i \in Installs, DisableDead(i)
  PROVE  GuardianInv'
<1>1. CASE device[i] # None
  BY <1>1, DeactivatingGood DEF DisableDead
<1>2. CASE device[i] = None
  BY <1>2, NoTransaction, QuietGood DEF DisableDead
<1> QED
  BY <1>1, <1>2

LEMMA StoreDeviceGood ==
  ASSUME Sensible, GuardianInv, NEW t \in Tx, StoreDevice(t)
  PROVE  GuardianInv'
<1>1. ControlShape' /\ LeavesAlone(t) /\ WaitsForToken(t) /\ JobOK(t)'
  BY FinishFacts DEF StoreDevice
<1>2. job[t] \in Registering /\ LocksOK(t) /\ StoreOK(t)
  BY DEF StoreDevice, GuardianInv, JobOK, FieldsOK, RegisterLabels, Serialised
<1>3. PICK q \in Registering : q = job[t]
  BY <1>2
<1>4. q.install \in Installs /\ q.user \in Guardians /\ q.token \in Tokens /\ q.yield \in SUBSET Installs
  BY DEF Registering
<1>5. device \in [Installs -> Devices \cup {None}]
  BY DEF GuardianInv, TableShape
<1>6. \A i \in q.yield : device[i] # None
  BY <1>2, <1>3 DEF LocksOK, StoreDevice
<1>7. PICK w : w = device'
  OBVIOUS
<1>8. w = RowsAfter(device, q)
  BY <1>3, <1>7 DEF StoreDevice, Registered, RowsAfter
<1>9. PICK d : d = [user |-> q.user, token |-> q.token, active |-> TRUE]
  OBVIOUS
<1>10. d \in Devices
  BY <1>4, <1>9 DEF Devices
<1>11. d \in Devices /\ d # None /\ d.user = q.user /\ d.token = q.token /\ d.active
  BY <1>9, <1>10, NobodyIsNone
<1>12. w[q.install] = d
  BY <1>4, <1>8, <1>9 DEF RowsAfter
<1>13. ASSUME NEW i \in Installs, i # q.install, i \in q.yield
       PROVE  w[i] \in Devices /\ w[i] # None /\ ~ w[i].active
  <2>1. device[i] \in Devices
    BY <1>5, <1>6, <1>13
  <2>2. w[i] = [device[i] EXCEPT !.active = FALSE]
    BY <1>8, <1>13 DEF RowsAfter
  <2>3. PICK v : v = [device[i] EXCEPT !.active = FALSE]
    OBVIOUS
  <2>4. v \in Devices /\ ~ v.active
    BY <2>1, <2>3 DEF Devices
  <2> QED
    BY <2>2, <2>3, <2>4, NobodyIsNone
<1>14. ASSUME NEW i \in Installs, i # q.install, i \notin q.yield PROVE w[i] = device[i]
  BY <1>8, <1>14 DEF RowsAfter
<1>15. w \in [Installs -> Devices \cup {None}]
  <2>1. w = [i \in Installs |-> w[i]]
    BY <1>8 DEF RowsAfter
  <2>2. \A i \in Installs : w[i] \in Devices \cup {None}
    BY <1>5, <1>11, <1>12, <1>13, <1>14
  <2> QED
    BY <2>1, <2>2
<1>16. TableShape'
  BY <1>7, <1>15 DEF GuardianInv, TableShape, StoreDevice
<1>17. \A i \in Installs : w[i] # None <=> i = q.install \/ device[i] # None
  BY <1>6, <1>11, <1>12, <1>13, <1>14
<1>18. ASSUME NEW i \in Installs, w[i] # None, w[i].active, i # q.install
       PROVE  i \notin q.yield /\ w[i] = device[i] /\ ActiveBefore(i)
  BY <1>7, <1>13, <1>14, <1>18 DEF ActiveBefore
<1>19. KeepsLockedRows(t)
  BY <1>7, <1>17 DEF KeepsLockedRows
<1>20. ActivatesOwn(t)
  BY <1>3, <1>7, <1>11, <1>12, <1>18 DEF ActivatesOwn, StoredBy, StoreDevice
<1>21. KeepsNotes
  BY DEF KeepsNotes, StoreDevice, Has
<1>22. InLine'
  <2>1. PICK E \in SUBSET Installs : E = Existing
    BY DEF Existing
  <2>2. Existing' = E \cup {q.install}
    BY <1>4, <1>7, <1>17, <2>1 DEF Existing
  <2>3. PICK old, new : old = older /\ new = older'
    OBVIOUS
  <2>4. new = {x \in old : x[1] # q.install /\ x[2] # q.install}
              \cup ((E \ {q.install}) \X {q.install})
    BY <1>3, <2>1, <2>3 DEF StoreDevice
  <2>5. /\ old \subseteq E \X E
        /\ \A i, j \in E : i # j <=> <<i, j>> \in old \/ <<j, i>> \in old
        /\ \A i, j, k \in E : <<i, j>> \in old /\ <<j, k>> \in old => <<i, k>> \in old
    BY <2>1, <2>3 DEF GuardianInv, TablesOK, InLine
  <2>6. \A i, j : <<i, j>> \in new <=>
            \/ <<i, j>> \in old /\ i # q.install /\ j # q.install
            \/ i \in E \ {q.install} /\ j = q.install
    BY <2>4
  <2>7. new \subseteq (E \cup {q.install}) \X (E \cup {q.install})
    BY <2>4, <2>5
  <2>8. \A i, j \in E \cup {q.install} : i # j <=> <<i, j>> \in new \/ <<j, i>> \in new
    BY <2>5, <2>6
  <2>9. \A i, j, k \in E \cup {q.install} :
            <<i, j>> \in new /\ <<j, k>> \in new => <<i, k>> \in new
    BY <2>5, <2>6
  <2> QED
    BY <2>2, <2>3, <2>7, <2>8, <2>9 DEF InLine
<1>23. OneDevicePerToken'
  <2> SUFFICES ASSUME NEW i \in Installs, NEW j \in Installs, w[i] # None, w[j] # None,
                      w[i].active, w[j].active, w[i].token = w[j].token
               PROVE  i = j
    BY <1>7 DEF OneDevicePerToken
  <2>1. ASSUME NEW k \in Installs, k # q.install, w[k] # None, w[k].active
        PROVE  w[k].token # q.token
    <3>1. k \notin OthersWithToken(t)
      BY <1>2, <1>3, <1>18, <2>1 DEF StoreOK, StoreDevice
    <3> QED
      BY <1>3, <1>18, <2>1, <3>1 DEF OthersWithToken, ActiveBefore
  <2>2. CASE i = q.install \/ j = q.install
    BY <1>11, <1>12, <2>1, <2>2
  <2>3. CASE i # q.install /\ j # q.install
    BY <1>18, <2>3 DEF GuardianInv, TablesOK, OneDevicePerToken, ActiveBefore
  <2> QED
    BY <2>2, <2>3
<1>24. WithinLimit'
  <2> SUFFICES ASSUME NEW g \in Guardians PROVE Cardinality(ActiveOf(g)') <= Limit
    BY DEF WithinLimit
  <2>1. ActiveOf(g)' = ActiveIn(w, g)
    BY <1>7 DEF ActiveOf, DevicesOf, ActiveIn
  <2>2. CASE g = q.user
    <3>1. ActiveAfter(t) = ActiveIn(w, g)
      BY <1>3, <1>8, <2>2, ActiveInIs
    <3> QED
      BY <1>2, <2>1, <3>1 DEF StoreOK, StoreDevice
  <2>3. CASE g # q.user
    <3>1. PICK S \in SUBSET Installs : S = ActiveOf(g)
      BY DEF ActiveOf, DevicesOf
    <3>2. ActiveIn(w, g) \subseteq S
      BY <1>11, <1>12, <1>18, <2>3, <3>1 DEF ActiveIn, ActiveOf, DevicesOf
    <3>3. Cardinality(S) <= Limit
      BY <3>1 DEF GuardianInv, TablesOK, WithinLimit
    <3> QED
      BY <2>1, <3>2, <3>3, FewerFit
  <2> QED
    BY <2>2, <2>3
<1>25. NobodyIsMissed'
  BY DEF GuardianInv, TablesOK, NobodyIsMissed, Has, StoreDevice
<1>26. TablesOK'
  BY <1>22, <1>23, <1>24, <1>25 DEF TablesOK
<1>27. Gentle(t)
  BY <1>1, <1>19, <1>20, <1>21 DEF Gentle
<1> QED
  BY <1>1, <1>16, <1>26, <1>27, StepKeepsInv

LEMMA CommitClosingGood ==
  ASSUME Sensible, GuardianInv, NEW t \in Tx, CommitClosing(t)
  PROVE  GuardianInv'
<1>1. ControlShape' /\ LeavesAlone(t) /\ WaitsForToken(t) /\ JobOK(t)'
  BY FinishFacts DEF CommitClosing
<1>2. job[t] \in Closings /\ LocksOK(t)
  BY DEF CommitClosing, GuardianInv, JobOK, FieldsOK, ClosingLabels
<1>3. PICK q \in Closings : q = job[t]
  BY <1>2
<1>4. q.user \in Guardians /\ q.rows \in SUBSET Installs
  BY DEF Closings
<1>5. TableShape
  BY DEF GuardianInv
<1>6. PICK w : w = device'
  OBVIOUS
<1>7. \A i \in Installs : w[i] = IF i \in q.rows THEN None ELSE device[i]
  BY <1>3, <1>6 DEF CommitClosing
<1>8. w \in [Installs -> Devices \cup {None}]
  BY <1>3, <1>5, <1>6 DEF CommitClosing, TableShape
<1>9. PICK m : m = [e \in Events |-> IF e \in q.old THEN "none" ELSE note[q.user][e]]
  OBVIOUS
<1>10. note[q.user] \in [Events -> {"none", "unread", "read"}]
  BY <1>4, <1>5 DEF TableShape
<1>11. m \in [Events -> {"none", "unread", "read"}]
  BY <1>9, <1>10
<1>12. note' = [note EXCEPT ![q.user] = m]
  BY <1>3, <1>4, <1>5, <1>9 DEF CommitClosing, TableShape
<1>13. note' \in [Guardians -> [Events -> {"none", "unread", "read"}]]
  BY <1>5, <1>11, <1>12 DEF TableShape
<1>14. closed' = closed \cup {q.user}
  BY <1>3 DEF CommitClosing
<1>15. TableShape'
  BY <1>4, <1>5, <1>6, <1>8, <1>13, <1>14 DEF TableShape, CommitClosing
<1>16. \A i \in Installs : w[i] # None => device[i] = w[i] /\ i \notin q.rows
  BY <1>7
<1>17. KeepsLockedRows(t)
  BY <1>2, <1>3, <1>6, <1>7 DEF KeepsLockedRows, LocksOK, CommitClosing
<1>18. \A i \in Installs : device'[i] # None /\ device'[i].active => ActiveBefore(i)
  BY <1>6, <1>16 DEF ActiveBefore
<1>19. \A g \in Guardians \ closed', e \in Events : Has(g, e) => note'[g][e] # "none"
  BY <1>5, <1>12, <1>14 DEF Has, TableShape
<1>20. KeepsNotes
  BY <1>14, <1>19 DEF KeepsNotes
<1>21. InLine'
  <2>1. PICK E \in SUBSET Installs : E = Existing
    BY DEF Existing
  <2>2. Existing' = E \ q.rows
    BY <1>4, <1>6, <1>7, <2>1 DEF Existing
  <2>3. PICK old, new : old = older /\ new = older'
    OBVIOUS
  <2>4. new = {x \in old : x[1] \notin q.rows /\ x[2] \notin q.rows}
    BY <1>3, <2>3 DEF CommitClosing
  <2>5. /\ old \subseteq E \X E
        /\ \A i, j \in E : i # j <=> <<i, j>> \in old \/ <<j, i>> \in old
        /\ \A i, j, k \in E : <<i, j>> \in old /\ <<j, k>> \in old => <<i, k>> \in old
    BY <2>1, <2>3 DEF GuardianInv, TablesOK, InLine
  <2>6. \A i, j : <<i, j>> \in new <=> <<i, j>> \in old /\ i \notin q.rows /\ j \notin q.rows
    BY <2>4
  <2>7. new \subseteq (E \ q.rows) \X (E \ q.rows)
    BY <2>4, <2>5
  <2> QED
    BY <2>2, <2>3, <2>5, <2>6, <2>7 DEF InLine
<1>22. NobodyIsMissed'
  <2> SUFFICES ASSUME NEW x \in told, NEW g \in x[1] \ closed' PROVE note'[g][x[2]] # "none"
    BY DEF NobodyIsMissed, Has, CommitClosing
  <2>1. x \in (SUBSET Guardians) \X Events
    BY <1>5 DEF TableShape
  <2> QED
    BY <1>14, <1>19, <2>1 DEF GuardianInv, TablesOK, NobodyIsMissed
<1>23. TablesOK'
  BY <1>18, <1>21, <1>22, FewerActive DEF TablesOK
<1>24. Gentle(t)
  BY <1>1, <1>17, <1>18, <1>20, FewerActive DEF Gentle
<1> QED
  BY <1>1, <1>15, <1>23, <1>24, StepKeepsInv

-----------------------------------------------------------------------------
LEMMA InitGood == Sensible /\ Init => GuardianInv
<1> SUFFICES ASSUME Sensible, Init PROVE GuardianInv
  OBVIOUS
<1>1. TableShape /\ ControlShape
  BY DEF Init, TableShape, ControlShape, Labels
<1>2. InLine /\ OneDevicePerToken
  BY DEF Init, InLine, Existing, OneDevicePerToken
<1>3. WithinLimit
  <2> SUFFICES ASSUME NEW g \in Guardians PROVE Cardinality(ActiveOf(g)) <= Limit
    BY DEF WithinLimit
  <2>1. ActiveOf(g) = {}
    BY DEF Init, ActiveOf, DevicesOf
  <2>2. Cardinality(ActiveOf(g)) = 0
    BY <2>1, FS_EmptySet
  <2> QED
    BY <2>2 DEF Sensible
<1>4. NobodyIsMissed
  BY DEF Init, NobodyIsMissed
<1>5. ASSUME NEW t \in Tx PROVE JobOK(t)
  BY DEF Init, JobOK, FieldsOK, LocksOK, StoreOK, FanOutOK, RegisterLabels, Serialised,
         FanOutLabels, ClosingLabels
<1> QED
  BY <1>1, <1>2, <1>3, <1>4, <1>5 DEF GuardianInv, TablesOK

LEMMA ProceedGood ==
  ASSUME Sensible, GuardianInv, NEW t \in Tx, Proceed(t)
  PROVE  GuardianInv'
<1>1. Abort(t) => GuardianInv'
  BY EndedGood DEF Abort
<1> QED
  BY <1>1, LockGuardianGood, TakeDeviceGood, YieldTokenGood, SaveDeviceGood, StoreDeviceGood,
     ValidateGood, BulkInsertGood, OneByOneGood, LockAccountGood, EraseDataGood, CommitClosingGood
     DEF Proceed

LEMMA StepGood == Sensible /\ GuardianInv /\ [Next]_vars => GuardianInv'
<1> SUFFICES ASSUME Sensible, GuardianInv, [Next]_vars PROVE GuardianInv'
  OBVIOUS
<1>1. CASE \E t \in Tx : Start(t) \/ Proceed(t)
  BY <1>1, StartsGood, ProceedGood
<1>2. CASE \E i \in Installs : FindDead(i) \/ DisableDead(i)
  BY <1>2, FindDeadGood, DisableDeadGood
<1>3. CASE \E g \in Guardians : \/ \E i \in Installs : Unregister(g, i)
                                \/ \E e \in Events : MarkRead(g, e)
                                \/ MarkAllRead(g)
  BY <1>3, UnregisterGood, MarkReadGood, MarkAllReadGood
<1>4. CASE UNCHANGED vars
  BY <1>4, NoTransaction, QuietGood DEF vars
<1> QED
  BY <1>1, <1>2, <1>3, <1>4 DEF Next

LEMMA Invariance ==
  ASSUME Sensible
  PROVE  Spec => []GuardianInv
<1>1. Init => GuardianInv
  BY InitGood
<1>2. GuardianInv /\ [Next]_vars => GuardianInv'
  BY StepGood
<1> QED
  BY <1>1, <1>2, PTL DEF Spec

\* However many sign-ins register devices at the same time, with one another's
\* tokens or installations, and whatever the limit: a token belongs to one
\* active device and a guardian has at most Limit of them (register_push_device
\* with its lock on the guardian and the unique index on active tokens).
THEOREM DevicesStayInOrder ==
  ASSUME Sensible
  PROVE  Spec => []DevicesInOrder
<1>1. GuardianInv => DevicesInOrder
  BY DEF GuardianInv, TablesOK, OneDevicePerToken, WithinLimit, InLine, DevicesInOrder
<1> QED
  BY <1>1, Invariance, PTL

\* A fan-out that ended well has told everybody concerned whose account is
\* open, whoever inserted some of the events before it (create_notifications
\* with its fallback to create_notification).
THEOREM EverybodyIsTold ==
  ASSUME Sensible
  PROVE  Spec => []NobodyIsMissed
<1>1. GuardianInv => NobodyIsMissed
  BY DEF GuardianInv, TablesOK
<1> QED
  BY <1>1, Invariance, PTL

================================================================================
