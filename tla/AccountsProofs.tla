---------------------------- MODULE AccountsProofs ----------------------------
(* Proofs about Accounts: what a request read earlier may be stale, and yet   *)
(* ended sessions stay ended, scopes follow roles, and managers who act at    *)
(* the same time cannot take the last permission from each other.  In the     *)
(* behaviours that the runs check, what GuardianDataProofs proves holds too.  *)
EXTENDS MCAccounts, TLAPS

GoodRows == {x \in Rows : x.mustChange <=> x.password = "temporary"}
TokenPairs == [user : Users, client : {"web", "mobile"}, version : Nat \ {0},
           access : BOOLEAN, refresh : BOOLEAN, era : Nat]
Bodies == [role : Roles \cup {None}, scope : Scopes \cup {None},
           codes : SUBSET Codes, active : BOOLEAN]
Accepted == [actor : Users, me : GoodRows, session : Sessions, client : {"web", "mobile"},
             target : Users, was : GoodRows \cup {None}, arg : Bodies, admins : SUBSET Users]
Refreshing == [session : Sessions, pair : TokenPairs]

Holding == {"lock_target", "commit"}
Labels == Ops \cup {"idle", "lock_admins"} \cup Holding

\* What is known of an account, of a session, of a request.
UserOK(u) ==
    /\ row[u] \in GoodRows \cup {None}
    /\ row[u] = None => revoked[u] = 0
    /\ row[u] # None /\ u \notin patched =>
          /\ row[u].version = revoked[u] + 1
          /\ row[u].role = "supervisor" <=> scope[u] # None

PairOK(t) ==
    /\ Exists(t.user)
    /\ t.user \in patched \/ t.version = t.era + 1

SessionOK(s) == token[s] # None => PairOK(token[s])

RoleAskedFor(q) == IF q.arg.role = None THEN q.was.role ELSE q.arg.role

FieldsOK(o, q) ==
    /\ q \in Accepted
    /\ Exists(q.actor)
    /\ o # "create" => Exists(q.target)
    /\ o = "create" => /\ q.arg.role \in Roles
                       /\ q.arg.role = "supervisor" <=> q.arg.scope # None
    /\ o = "update" => /\ q.was \in GoodRows
                       /\ q.arg.scope # None => RoleAskedFor(q) = "supervisor"

HeldByAdmins(r) ==
    \A u \in req[r].admins : lock[u] = r /\ u \in ActiveAdmins

RequestOK(r) ==
    /\ pc[r] = "refresh" => req[r] \in Refreshing /\ PairOK(req[r].pair)
    /\ pc[r] \notin {"idle", "refresh"} => FieldsOK(pc[r], req[r])
    /\ pc[r] \in Holding => HeldByAdmins(r)
    /\ pc[r] = "commit" => lock[req[r].target] = r /\ ~RemovesLastManager(r)

Shape ==
    /\ row \in [Users -> GoodRows \cup {None}]
    /\ perms \in [Users -> SUBSET Codes]
    /\ scope \in [Users -> Scopes \cup {None}]
    /\ links \in [Users -> SUBSET Stages]
    /\ token \in [Sessions -> TokenPairs \cup {None}]
    /\ lock \in [Users -> Requests \cup {None}]
    /\ pc \in [Requests -> Labels]
    /\ req \in [Requests -> {None} \cup Refreshing \cup Accepted]
    /\ revoked \in [Users -> Nat]
    /\ patched \subseteq Users
    /\ menu \subseteq Ops \cup {"browse"}

LocksOK == \A u \in Users : lock[u] # None => pc[lock[u]] \in Holding /\ Exists(u)

AccountsInv ==
    /\ Shape
    /\ LocksOK
    /\ \A u \in Users : UserOK(u)
    /\ \A s \in Sessions : SessionOK(s)
    /\ \A r \in Requests : RequestOK(r)

-----------------------------------------------------------------------------
(* What a step of p may do to what the others rely on.  p is a request, or   *)
(* None where no request is concerned.                                       *)

SameAdmin(u) ==
    /\ u \in ActiveAdmins' <=> u \in ActiveAdmins
    /\ perms'[u] = perms[u]

Courteous(p) ==
    /\ \A q \in Requests : q # p => pc'[q] = pc[q] /\ req'[q] = req[q]
    /\ \A u \in Users : lock'[u] = lock[u] \/ (lock[u] \in {None, p} /\ lock'[u] \in {None, p})
    /\ \A u \in Users : lock[u] \notin {None, p} => SameAdmin(u)
    /\ \A u \in Users : Exists(u) => Exists(u)'
    /\ patched \subseteq patched'

GoodStep(p) ==
    /\ Courteous(p)
    /\ Shape'
    /\ \A u \in Users : UserOK(u)'
    /\ \A s \in Sessions : SessionOK(s)'
    /\ p \in Requests => /\ RequestOK(p)'
                         /\ \A u \in Users : lock'[u] = p => pc'[p] \in Holding /\ Exists(u)'

LEMMA NoneFacts ==
    /\ None \notin Users /\ None \notin Requests /\ None \notin Sessions /\ None \notin Roles
    /\ None \notin Rows /\ None \notin Scopes
BY AccountsAssumption

LEMMA PairStays ==
    ASSUME NEW t, t.user \in Users, PairOK(t), NEW p, Courteous(p)
    PROVE  PairOK(t)'
BY DEF PairOK, Courteous, Exists

LEMMA RequestStays ==
    ASSUME AccountsInv, NEW p, Courteous(p), NEW r \in Requests, r # p
    PROVE  RequestOK(r)'
<1>1. pc'[r] = pc[r] /\ req'[r] = req[r] /\ RequestOK(r)
  BY DEF Courteous, AccountsInv
<1>2. \A u \in Users : lock[u] = r => lock'[u] = r /\ SameAdmin(u)
  BY NoneFacts DEF Courteous
<1>3. pc[r] = "refresh" => req'[r] \in Refreshing /\ PairOK(req[r].pair)'
  <2> SUFFICES ASSUME pc[r] = "refresh" PROVE req'[r] \in Refreshing /\ PairOK(req[r].pair)'
    OBVIOUS
  <2>1. req[r] \in Refreshing /\ PairOK(req[r].pair) /\ req[r].pair.user \in Users
    BY <1>1 DEF RequestOK, Refreshing, TokenPairs
  <2> QED BY <1>1, <2>1 DEF PairOK, Courteous, Exists
<1>4. pc[r] \notin {"idle", "refresh"} => FieldsOK(pc[r], req[r])'
  <2> SUFFICES ASSUME pc[r] \notin {"idle", "refresh"} PROVE FieldsOK(pc[r], req[r])'
    OBVIOUS
  <2>1. FieldsOK(pc[r], req[r]) /\ req[r].actor \in Users /\ req[r].target \in Users
    BY <1>1 DEF RequestOK, FieldsOK, Accepted
  <2>2. Exists(req[r].actor)' /\ (Exists(req[r].target) => Exists(req[r].target)')
    BY <1>1, <2>1 DEF FieldsOK, Courteous, Exists
  <2> QED BY <1>1, <2>1, <2>2 DEF FieldsOK, RoleAskedFor
<1>5. pc[r] \in Holding =>
        /\ req[r].admins \subseteq Users /\ req[r].target \in Users
        /\ \A u \in req[r].admins : lock[u] = r /\ u \in ActiveAdmins
  BY <1>1 DEF RequestOK, FieldsOK, Accepted, Holding, HeldByAdmins
<1>6. pc[r] \in Holding => HeldByAdmins(r)'
  BY <1>1, <1>2, <1>5 DEF HeldByAdmins, SameAdmin
<1>7. ASSUME pc[r] = "commit"
      PROVE  lock'[req[r].target] = r /\ ~RemovesLastManager(r)'
  <2>1. lock[req[r].target] = r /\ ~RemovesLastManager(r)
    BY <1>1, <1>7 DEF RequestOK
  <2>2. SameAdmin(req[r].target) /\ \A u \in req[r].admins : SameAdmin(u)
    BY <1>2, <1>5, <1>7, <2>1 DEF Holding
  <2> QED BY <1>1, <1>2, <1>5, <1>7, <2>1, <2>2 DEF RemovesLastManager, IsManager, SameAdmin, Holding
<1> QED BY <1>1, <1>3, <1>4, <1>6, <1>7 DEF RequestOK

LEMMA GoodStepKeepsInv ==
    ASSUME AccountsInv, NEW p, GoodStep(p)
    PROVE  AccountsInv'
<1>1. \A r \in Requests : RequestOK(r)'
  BY RequestStays DEF GoodStep
<1>2. LocksOK'
  <2> SUFFICES ASSUME NEW u \in Users, lock'[u] # None PROVE pc'[lock'[u]] \in Holding /\ Exists(u)'
    BY DEF LocksOK
  <2>1. lock'[u] \in Requests /\ (lock[u] = lock'[u] => pc[lock[u]] \in Holding /\ Exists(u))
    BY DEF GoodStep, Shape, AccountsInv, LocksOK
  <2>2. CASE lock'[u] = p
    BY <2>1, <2>2 DEF GoodStep
  <2>3. CASE lock'[u] # p
    <3>1. lock[u] = lock'[u]
      BY <2>3 DEF GoodStep, Courteous
    <3> QED BY <2>1, <2>3, <3>1 DEF GoodStep, Courteous
  <2> QED BY <2>2, <2>3
<1> QED BY <1>1, <1>2 DEF AccountsInv, GoodStep

-----------------------------------------------------------------------------
(* Steps of a request that release nothing.                                  *)

LEMMA IdleOK ==
    ASSUME NEW r \in Requests, pc'[r] = "idle"
    PROVE  RequestOK(r)'
BY DEF RequestOK, Holding

LEMMA NothingHeld ==
    ASSUME AccountsInv, NEW r \in Requests, pc[r] \notin Holding
    PROVE  \A u \in Users : lock[u] # r
BY NoneFacts DEF AccountsInv, LocksOK

LEMMA FinishShape ==
    ASSUME AccountsInv, NEW r \in Requests, Finish(r)
    PROVE  /\ pc' \in [Requests -> Labels] /\ req' \in [Requests -> {None} \cup Refreshing \cup Accepted]
           /\ pc'[r] = "idle"
           /\ \A q \in Requests : q # r => pc'[q] = pc[q] /\ req'[q] = req[q]
BY DEF AccountsInv, Shape, Finish, Labels

LEMMA RefusedGood ==
    ASSUME AccountsInv, NEW r \in Requests, pc[r] \notin Holding, Refused(r)
    PROVE  AccountsInv'
<1>1. /\ UNCHANGED <<row, perms, scope, links, menu, revoked, patched, token, lock>>
      /\ Finish(r)
  BY DEF Refused, tables
<1>2. \A u \in Users : UserOK(u)'
  BY <1>1 DEF UserOK, AccountsInv
<1>3. \A s \in Sessions : SessionOK(s)'
  BY <1>1 DEF SessionOK, PairOK, Exists, AccountsInv
<1>4. Courteous(r)
  BY <1>1, FinishShape DEF Courteous, SameAdmin, ActiveAdmins, Exists
<1>5. Shape'
  BY <1>1, FinishShape DEF Shape, AccountsInv
<1>6. GoodStep(r)
  BY <1>1, <1>2, <1>3, <1>4, <1>5, FinishShape, IdleOK, NothingHeld DEF GoodStep
<1> QED BY <1>6, GoodStepKeepsInv

LEMMA AccountGood ==
    ASSUME AccountsInv, NEW r \in Requests, NEW u \in Users, pc[r] \notin Holding,
           Finish(r), UNCHANGED <<lock, menu>>, lock[u] = None,
           row' \in [Users -> GoodRows \cup {None}], perms' \in [Users -> SUBSET Codes],
           scope' \in [Users -> Scopes \cup {None}], links' \in [Users -> SUBSET Stages],
           token' \in [Sessions -> TokenPairs \cup {None}], revoked' \in [Users -> Nat],
           patched' \subseteq Users, patched \subseteq patched',
           \A v \in Users \ {u} : /\ row'[v] = row[v] /\ perms'[v] = perms[v]
                                  /\ scope'[v] = scope[v] /\ revoked'[v] = revoked[v],
           Exists(u) => Exists(u)', UserOK(u)',
           \A s \in Sessions : token'[s] = token[s] \/ SessionOK(s)'
    PROVE  AccountsInv'
<1>1. \A v \in Users : UserOK(v)'
  <2> SUFFICES ASSUME NEW v \in Users, v # u PROVE UserOK(v)'
    OBVIOUS
  <2>1. UserOK(v) /\ row'[v] = row[v] /\ scope'[v] = scope[v] /\ revoked'[v] = revoked[v]
    BY DEF AccountsInv
  <2> QED BY <2>1 DEF UserOK
<1>2. \A v \in Users : Exists(v) => Exists(v)'
  BY DEF Exists
<1>3. \A v \in Users : lock[v] # None => SameAdmin(v)
  <2> SUFFICES ASSUME NEW v \in Users, lock[v] # None PROVE SameAdmin(v)
    OBVIOUS
  <2>1. v # u /\ row'[v] = row[v] /\ perms'[v] = perms[v]
    OBVIOUS
  <2> QED BY <2>1 DEF SameAdmin, ActiveAdmins, Exists
<1>4. Courteous(r)
  BY <1>2, <1>3, FinishShape DEF Courteous
<1>5. \A s \in Sessions : SessionOK(s)'
  <2> SUFFICES ASSUME NEW s \in Sessions, token'[s] = token[s], token[s] # None PROVE PairOK(token[s])'
    BY DEF SessionOK
  <2>1. token[s].user \in Users /\ PairOK(token[s])
    BY DEF AccountsInv, Shape, TokenPairs, SessionOK
  <2> QED BY <1>4, <2>1, PairStays
<1>6. Shape'
  BY FinishShape DEF Shape, AccountsInv
<1>7. GoodStep(r)
  BY <1>1, <1>4, <1>5, <1>6, FinishShape, IdleOK, NothingHeld DEF GoodStep
<1> QED BY <1>7, GoodStepKeepsInv

-----------------------------------------------------------------------------
(* The transactions on one account                                           *)

LEMMA RowFacts ==
    ASSUME NEW x \in GoodRows
    PROVE  /\ [x EXCEPT !.version = @ + 1] \in GoodRows
           /\ [x EXCEPT !.version = @ + 1].version = x.version + 1
           /\ [x EXCEPT !.version = @ + 1].role = x.role
           /\ \A b \in BOOLEAN : [x EXCEPT !.active = b] \in GoodRows
           /\ \A o \in Roles : [x EXCEPT !.role = o] \in GoodRows
BY DEF GoodRows, Rows

\* What the invariant says of a request that carries out operation o.
LEMMA RequestFacts ==
    ASSUME AccountsInv, NEW r \in Requests, NEW o \in Ops \ {"refresh"}, pc[r] = o
    PROVE  /\ pc[r] \notin Holding
           /\ req[r].actor \in Users /\ req[r].target \in Users
           /\ req[r].me \in GoodRows /\ req[r].session \in Sessions
           /\ req[r].arg \in Bodies /\ req[r].client \in {"web", "mobile"}
           /\ row[req[r].actor] \in GoodRows
           /\ o # "create" => row[req[r].target] \in GoodRows
           /\ FieldsOK(o, req[r])
<1>1. pc[r] \notin Holding /\ pc[r] \notin {"idle", "refresh"}
  BY DEF Ops, Holding
<1>2. FieldsOK(o, req[r])
  BY <1>1 DEF AccountsInv, RequestOK
<1>3. req[r] \in Accepted
  BY <1>2 DEF FieldsOK
<1>4. /\ req[r].actor \in Users /\ req[r].target \in Users
      /\ req[r].me \in GoodRows /\ req[r].session \in Sessions
      /\ req[r].arg \in Bodies /\ req[r].client \in {"web", "mobile"}
  BY <1>3 DEF Accepted
<1>5. \A u \in Users : Exists(u) => row[u] \in GoodRows
  BY DEF AccountsInv, Shape, Exists
<1> QED BY <1>1, <1>2, <1>4, <1>5 DEF FieldsOK

\* An account whose sessions are ended, and what else changes of it.
LEMMA RevokingFacts ==
    ASSUME AccountsInv, NEW u \in Users, NEW new \in GoodRows, Revoking(u, new)
    PROVE  /\ row' \in [Users -> GoodRows \cup {None}] /\ revoked' \in [Users -> Nat]
           /\ \A v \in Users \ {u} : row'[v] = row[v] /\ revoked'[v] = revoked[v]
           /\ row'[u] \in GoodRows /\ row'[u] # None
           /\ row'[u].role = new.role
           /\ row'[u].version = new.version + 1 /\ revoked'[u] = revoked[u] + 1
<1>1. row' = [row EXCEPT ![u] = [new EXCEPT !.version = @ + 1]] /\ revoked' = [revoked EXCEPT ![u] = @ + 1]
  BY DEF Revoking
<1>2. row \in [Users -> GoodRows \cup {None}] /\ revoked \in [Users -> Nat]
  BY DEF AccountsInv, Shape
<1>3. None \notin GoodRows
  BY NoneFacts DEF GoodRows
<1> QED BY <1>1, <1>2, <1>3, RowFacts

\* A change of one account that keeps its role and ends its sessions.
LEMMA RevokedGood ==
    ASSUME AccountsInv, NEW r \in Requests, NEW u \in Users, NEW new \in GoodRows,
           pc[r] \notin Holding, Finish(r), lock[u] = None,
           row[u] \in GoodRows, new.role = row[u].role, new.version = row[u].version,
           Revoking(u, new), UNCHANGED <<scope, menu, patched, lock>>,
           perms' \in [Users -> SUBSET Codes], links' \in [Users -> SUBSET Stages],
           \A v \in Users \ {u} : perms'[v] = perms[v],
           token' \in [Sessions -> TokenPairs \cup {None}],
           \A s \in Sessions : token'[s] = token[s] \/ SessionOK(s)'
    PROVE  AccountsInv'
<1>1. UserOK(u)'
  <2>1. UserOK(u) /\ row[u] # None
    BY NoneFacts DEF AccountsInv, GoodRows
  <2> QED BY <2>1, RevokingFacts DEF UserOK
<1>2. scope' \in [Users -> Scopes \cup {None}] /\ patched' \subseteq Users
  BY DEF AccountsInv, Shape
<1> QED BY <1>1, <1>2, RevokingFacts, AccountGood DEF Exists

LEMMA SetActiveGood ==
    ASSUME AccountsInv, NEW r \in Requests, SetActive(r)
    PROVE  AccountsInv'
<1>1. pc[r] = "set_active" /\ "set_active" \in Ops \ {"refresh"}
  BY DEF SetActive, Ops
<1>2. PICK t \in Users : t = req[r].target /\ row[t] \in GoodRows /\ lock[t] = None
  BY <1>1, RequestFacts DEF SetActive, Free
<1>a. pc[r] \notin Holding
  BY <1>1, RequestFacts
<1>3. CASE Refused(r)
  BY <1>a, <1>3, RefusedGood
<1>4. CASE ~Refused(r)
  <2>1. Finish(r) /\ UNCHANGED <<perms, scope, links, menu, patched, token, lock>>
    BY <1>2, <1>4 DEF SetActive
  <2>2. /\ perms' \in [Users -> SUBSET Codes] /\ scope' \in [Users -> Scopes \cup {None}]
        /\ links' \in [Users -> SUBSET Stages] /\ token' \in [Sessions -> TokenPairs \cup {None}]
        /\ patched' \subseteq Users /\ revoked \in [Users -> Nat]
        /\ row \in [Users -> GoodRows \cup {None}]
    BY <2>1 DEF AccountsInv, Shape
  <2>3. CASE row' = [row EXCEPT ![t].active = TRUE] /\ UNCHANGED revoked
    <3>1. row' = [row EXCEPT ![t] = [row[t] EXCEPT !.active = TRUE]]
      BY <2>3
    <3>2. /\ [row[t] EXCEPT !.active = TRUE] \in GoodRows
          /\ [row[t] EXCEPT !.active = TRUE].role = row[t].role
          /\ [row[t] EXCEPT !.active = TRUE].version = row[t].version
      BY <1>2, RowFacts DEF GoodRows, Rows
    <3>3. /\ row' \in [Users -> GoodRows \cup {None}] /\ row'[t] \in GoodRows
          /\ row'[t].role = row[t].role /\ row'[t].version = row[t].version
          /\ \A v \in Users \ {t} : row'[v] = row[v]
      BY <1>2, <2>2, <3>1, <3>2
    <3>4. UserOK(t) /\ row[t] # None /\ row'[t] # None
      BY <1>2, <3>3, NoneFacts DEF AccountsInv, GoodRows
    <3>5. UserOK(t)'
      BY <2>1, <2>3, <3>3, <3>4 DEF UserOK
    <3>6. revoked' \in [Users -> Nat]
      BY <2>2, <2>3
        <3> QED BY <1>a, <1>2, <2>1, <2>2, <2>3, <3>3, <3>4, <3>5, <3>6, AccountGood DEF Exists
  <2>4. CASE Revoking(t, [row[t] EXCEPT !.active = FALSE])
    <3>1. /\ [row[t] EXCEPT !.active = FALSE] \in GoodRows
          /\ [row[t] EXCEPT !.active = FALSE].role = row[t].role
          /\ [row[t] EXCEPT !.active = FALSE].version = row[t].version
      BY <1>2, RowFacts DEF GoodRows, Rows
        <3> QED BY <1>a, <1>2, <2>1, <2>2, <2>4, <3>1, RevokedGood
  <2> QED BY <1>2, <1>4, <2>3, <2>4 DEF SetActive
<1> QED BY <1>3, <1>4

LEMMA ResetPasswordGood ==
    ASSUME AccountsInv, NEW r \in Requests, ResetPassword(r)
    PROVE  AccountsInv'
<1>1. pc[r] = "reset" /\ "reset" \in Ops \ {"refresh"}
  BY DEF ResetPassword, Ops
<1>2. PICK t \in Users : t = req[r].target /\ row[t] \in GoodRows /\ lock[t] = None
  BY <1>1, RequestFacts DEF ResetPassword, Free
<1>a. pc[r] \notin Holding
  BY <1>1, RequestFacts
<1>3. CASE Refused(r)
  BY <1>a, <1>3, RefusedGood
<1>4. CASE ~Refused(r)
  <2>1. /\ Finish(r) /\ UNCHANGED <<perms, scope, links, menu, patched, token, lock>>
        /\ Revoking(t, WithTemporary(row[t]))
    BY <1>2, <1>4 DEF ResetPassword
  <2>2. /\ perms' \in [Users -> SUBSET Codes] /\ links' \in [Users -> SUBSET Stages]
        /\ token' \in [Sessions -> TokenPairs \cup {None}]
    BY <2>1 DEF AccountsInv, Shape
  <2>3. /\ WithTemporary(row[t]) \in GoodRows
        /\ WithTemporary(row[t]).role = row[t].role
        /\ WithTemporary(row[t]).version = row[t].version
    BY <1>2 DEF GoodRows, Rows, WithTemporary
    <2> QED BY <1>a, <1>2, <2>1, <2>2, <2>3, RevokedGood
<1> QED BY <1>3, <1>4

LEMMA DeleteGuardianGood ==
    ASSUME AccountsInv, NEW r \in Requests, DeleteGuardian(r)
    PROVE  AccountsInv'
<1>1. pc[r] = "delete" /\ "delete" \in Ops \ {"refresh"}
  BY DEF DeleteGuardian, Ops
<1>2. PICK u \in Users : u = req[r].actor /\ row[u] \in GoodRows /\ lock[u] = None
  BY <1>1, RequestFacts DEF DeleteGuardian, Free
<1>a. pc[r] \notin Holding
  BY <1>1, RequestFacts
<1>3. CASE Refused(r)
  BY <1>a, <1>3, RefusedGood
<1>4. CASE ~Refused(r)
  <2> DEFINE new == [row[u] EXCEPT !.active = FALSE, !.password = "unusable",
                                   !.mustChange = FALSE, !.expires = "never"]
  <2>1. /\ Finish(r) /\ UNCHANGED <<scope, menu, patched, lock>>
        /\ Revoking(u, new)
        /\ perms' = [perms EXCEPT ![u] = {}] /\ links' = [links EXCEPT ![u] = {}]
        /\ token' = [s \in Sessions |->
              IF token[s] # None /\ token[s].user = u
              THEN [token[s] EXCEPT !.refresh = FALSE] ELSE token[s]]
    BY <1>2, <1>4 DEF DeleteGuardian
  <2>2. /\ perms' \in [Users -> SUBSET Codes] /\ links' \in [Users -> SUBSET Stages]
        /\ \A v \in Users \ {u} : perms'[v] = perms[v]
    BY <1>2, <2>1 DEF AccountsInv, Shape
  <2>3. /\ new \in GoodRows /\ new.role = row[u].role /\ new.version = row[u].version
    BY <1>2 DEF GoodRows, Rows
  <2>4. \A s \in Sessions : token[s] # None =>
           /\ [token[s] EXCEPT !.refresh = FALSE] \in TokenPairs
           /\ [token[s] EXCEPT !.refresh = FALSE].user = token[s].user
           /\ [token[s] EXCEPT !.refresh = FALSE].version = token[s].version
           /\ [token[s] EXCEPT !.refresh = FALSE].era = token[s].era
    BY DEF AccountsInv, Shape, TokenPairs
  <2>5. token' \in [Sessions -> TokenPairs \cup {None}]
    BY <2>1, <2>4 DEF AccountsInv, Shape
  <2>6. \A s \in Sessions : token'[s] = token[s] \/ SessionOK(s)'
    <3> SUFFICES ASSUME NEW s \in Sessions, token[s] # None, token[s].user = u PROVE SessionOK(s)'
      BY <2>1
    <3>1. PairOK(token[s]) /\ Exists(u)'
      <4> HIDE DEF new
      <4> QED BY <1>2, <2>1, <2>3, RevokingFacts DEF AccountsInv, SessionOK, Exists
    <3>2. token'[s] = [token[s] EXCEPT !.refresh = FALSE]
      BY <2>1
    <3>3. patched' = patched
      BY <2>1
    <3> QED BY <2>4, <3>1, <3>2, <3>3 DEF SessionOK, PairOK, Exists
  <2> HIDE DEF new
  <2> QED BY <1>a, <1>2, <2>1, <2>2, <2>3, <2>5, <2>6, RevokedGood
<1> QED BY <1>3, <1>4

LEMMA ChangePasswordGood ==
    ASSUME AccountsInv, NEW r \in Requests, ChangePassword(r)
    PROVE  AccountsInv'
<1>1. pc[r] = "change_password" /\ "change_password" \in Ops \ {"refresh"}
  BY DEF ChangePassword, Ops
<1>2. PICK u \in Users : u = req[r].actor /\ row[u] \in GoodRows /\ lock[u] = None
  BY <1>1, RequestFacts DEF ChangePassword, Free
<1>3. PICK s \in Sessions : s = req[r].session
  BY <1>1, RequestFacts
<1> DEFINE new == [row[u] EXCEPT !.password = "chosen", !.mustChange = FALSE, !.expires = "never"]
           pair == [user |-> u, client |-> "web", version |-> row[u].version + 1,
                    access |-> TRUE, refresh |-> TRUE, era |-> revoked[u] + 1]
<1>4. pc[r] \notin Holding
  BY <1>1, RequestFacts
<1>5. /\ Finish(r) /\ UNCHANGED <<perms, scope, links, menu, patched, lock>>
      /\ Revoking(u, new)
      /\ token' = token \/ token' = [token EXCEPT ![s] = pair]
  BY <1>2, <1>3 DEF ChangePassword
<1>6. /\ new \in GoodRows /\ new.role = row[u].role /\ new.version = row[u].version
  BY <1>2 DEF GoodRows, Rows
<1>7. /\ pair \in TokenPairs /\ pair.user = u /\ pair.version = row[u].version + 1
      /\ pair.era = revoked[u] + 1
  BY <1>2 DEF TokenPairs, AccountsInv, Shape, GoodRows, Rows
<1> HIDE DEF new, pair
<1>8. Exists(u)' /\ UserOK(u) /\ row[u] # None
  BY <1>2, <1>5, <1>6, RevokingFacts, NoneFacts DEF Exists, AccountsInv, GoodRows
<1>9. SessionOK(s)' \/ token'[s] = token[s]
  <2>1. u \in patched' \/ pair.version = pair.era + 1
    BY <1>5, <1>7, <1>8 DEF UserOK
  <2>2. token'[s] = pair \/ token'[s] = token[s]
    BY <1>5 DEF AccountsInv, Shape
  <2> QED BY <1>7, <1>8, <2>1, <2>2 DEF SessionOK, PairOK, Exists
<1>10. token' \in [Sessions -> TokenPairs \cup {None}] /\ \A x \in Sessions : x # s => token'[x] = token[x]
  BY <1>5, <1>7 DEF AccountsInv, Shape
<1>11. perms' \in [Users -> SUBSET Codes] /\ links' \in [Users -> SUBSET Stages]
  BY <1>5 DEF AccountsInv, Shape
<1> QED BY <1>2, <1>4, <1>5, <1>6, <1>9, <1>10, <1>11, RevokedGood

LEMMA UpdateMeGood ==
    ASSUME AccountsInv, NEW r \in Requests, UpdateMe(r)
    PROVE  AccountsInv'
<1>1. pc[r] = "update_me" /\ "update_me" \in Ops \ {"refresh"}
  BY DEF UpdateMe, Ops
<1>2. PICK u \in Users : u = req[r].actor /\ row[u] \in GoodRows /\ lock[u] = None
  BY <1>1, RequestFacts DEF UpdateMe, Free
<1>3. PICK me \in GoodRows : me = req[r].me
  BY <1>1, RequestFacts
<1>4. pc[r] \notin Holding
  BY <1>1, RequestFacts
<1>5. /\ Finish(r) /\ UNCHANGED <<perms, scope, links, menu, revoked, token, lock>>
      /\ row' = [row EXCEPT ![u] = me]
      /\ patched' = IF row[u] = me THEN patched ELSE patched \cup {u}
  BY <1>2, <1>3 DEF UpdateMe
<1>6. /\ perms' \in [Users -> SUBSET Codes] /\ scope' \in [Users -> Scopes \cup {None}]
      /\ links' \in [Users -> SUBSET Stages] /\ token' \in [Sessions -> TokenPairs \cup {None}]
      /\ patched \subseteq patched' /\ patched' \subseteq Users /\ revoked' \in [Users -> Nat]
      /\ row' \in [Users -> GoodRows \cup {None}] /\ row'[u] = me
      /\ \A v \in Users \ {u} : row'[v] = row[v]
  BY <1>5 DEF AccountsInv, Shape
<1>7. UserOK(u) /\ me # None
  BY NoneFacts DEF AccountsInv, GoodRows
<1>8. UserOK(u)'
  BY <1>5, <1>6, <1>7 DEF UserOK
<1> QED BY <1>2, <1>4, <1>5, <1>6, <1>7, <1>8, AccountGood DEF Exists

LEMMA CreateAccountGood ==
    ASSUME AccountsInv, NEW r \in Requests, CreateAccount(r)
    PROVE  AccountsInv'
<1>1. pc[r] = "create" /\ "create" \in Ops \ {"refresh"}
  BY DEF CreateAccount, Ops
<1>2. pc[r] \notin Holding
  BY <1>1, RequestFacts
<1>3. CASE Refused(r)
  BY <1>2, <1>3, RefusedGood
<1>4. CASE ~Refused(r)
  <2>1. PICK t \in Users, q \in Bodies :
           /\ t = req[r].target /\ q = req[r].arg
           /\ q.role \in Roles /\ (q.role = "supervisor" <=> q.scope # None)
    BY <1>1, RequestFacts DEF FieldsOK
  <2>2. PICK new : new = [role |-> q.role, active |-> TRUE, version |-> 1,
                        password |-> "temporary", mustChange |-> TRUE, expires |-> "later"]
    OBVIOUS
  <2>3. /\ ~Exists(t) /\ row' = [row EXCEPT ![t] = new]
        /\ perms' = [perms EXCEPT ![t] = Template(q.role)]
        /\ scope' = [scope EXCEPT ![t] = q.scope]
        /\ Finish(r)
        /\ UNCHANGED <<links, menu, revoked, patched, token, lock>>
    BY <1>4, <2>1, <2>2 DEF CreateAccount, GrantDefaults, SetScope
  <2>4. new \in GoodRows /\ new # None /\ new.version = 1 /\ new.role = q.role
    <3>1. new \in Rows
      BY <2>1, <2>2 DEF Rows
    <3> QED
      BY <2>2, <3>1, NoneFacts DEF GoodRows
  <2>5. Template(q.role) \subseteq Codes /\ q.scope \in Scopes \cup {None}
    BY DEF Template, Codes, Bodies
  <2>6. /\ perms' \in [Users -> SUBSET Codes] /\ scope' \in [Users -> Scopes \cup {None}]
        /\ links' \in [Users -> SUBSET Stages] /\ token' \in [Sessions -> TokenPairs \cup {None}]
        /\ patched' = patched /\ patched' \subseteq Users /\ revoked' \in [Users -> Nat]
        /\ row' \in [Users -> GoodRows \cup {None}] /\ row'[t] = new /\ scope'[t] = q.scope
        /\ \A v \in Users \ {t} : /\ row'[v] = row[v] /\ perms'[v] = perms[v]
                                  /\ scope'[v] = scope[v] /\ revoked'[v] = revoked[v]
    BY <2>3, <2>4, <2>5 DEF AccountsInv, Shape
  <2>7. lock[t] = None
    BY <2>3 DEF AccountsInv, LocksOK
  <2>8. UserOK(t)'
    <3>1. revoked'[t] = 0
      BY <2>3 DEF AccountsInv, UserOK, Exists
    <3> QED BY <2>1, <2>4, <2>6, <3>1 DEF UserOK
  <2> QED BY <1>2, <2>3, <2>6, <2>7, <2>8, AccountGood DEF Exists
<1> QED BY <1>3, <1>4

LEMMA UpdateAccountGood ==
    ASSUME AccountsInv, NEW r \in Requests, UpdateAccount(r)
    PROVE  AccountsInv'
<1>1. pc[r] = "update" /\ "update" \in Ops \ {"refresh"}
  BY DEF UpdateAccount, Ops
<1>2. pc[r] \notin Holding
  BY <1>1, RequestFacts
<1>3. CASE Refused(r)
  BY <1>2, <1>3, RefusedGood
<1>4. CASE ~Refused(r)
  <2>1. PICK t \in Users, q \in Bodies :
           /\ t = req[r].target /\ q = req[r].arg
           /\ row[t] \in GoodRows /\ lock[t] = None
    BY <1>1, RequestFacts DEF UpdateAccount, Free
  <2>2. PICK role \in Roles :
           /\ role = IF q.role = None THEN req[r].was.role ELSE q.role
           /\ q.scope # None => role = "supervisor"
    <3>1. req[r].was \in GoodRows /\ (q.scope # None => RoleAskedFor(req[r]) = "supervisor")
      BY <1>1, <2>1, RequestFacts DEF FieldsOK
    <3>2. req[r].was.role \in Roles /\ q.role \in Roles \cup {None}
      BY <3>1 DEF GoodRows, Rows, Bodies
    <3> QED BY <2>1, <3>1, <3>2 DEF RoleAskedFor
  <2>3. /\ role # row[t].role /\ role = "supervisor" => q.scope # None
        /\ Finish(r) /\ UNCHANGED <<links, menu, patched, token, lock>>
        /\ IF role # row[t].role
           THEN ChangeRole(r, t, role, q.scope)
           ELSE /\ SetScope(t, IF q.scope = None THEN scope[t] ELSE q.scope)
                /\ UNCHANGED <<row, perms, revoked>>
    BY <1>4, <2>1, <2>2 DEF UpdateAccount
  <2>4. q.scope \in Scopes \cup {None} /\ Template(role) \subseteq Codes
    BY DEF Template, Codes, Bodies
  <2>5. UserOK(t) /\ row[t] # None
    BY <2>1, NoneFacts DEF AccountsInv, GoodRows
  <2>6. /\ links' \in [Users -> SUBSET Stages] /\ token' \in [Sessions -> TokenPairs \cup {None}]
        /\ patched' = patched /\ patched' \subseteq Users
    BY <2>3 DEF AccountsInv, Shape
  <2>7. CASE role # row[t].role
    <3>1. /\ Revoking(t, [row[t] EXCEPT !.role = role])
          /\ perms' = [perms EXCEPT ![t] = Template(role)]
          /\ scope' = [scope EXCEPT ![t] = IF role = "supervisor" THEN q.scope ELSE None]
      BY <2>3, <2>7 DEF ChangeRole, GrantDefaults, SetScope, ScopeAfter
    <3>2. PICK new \in GoodRows : /\ Revoking(t, new)
                                  /\ new.role = role /\ new.version = row[t].version
      BY <2>1, <3>1, RowFacts DEF GoodRows, Rows
    <3>3. /\ perms' \in [Users -> SUBSET Codes] /\ scope' \in [Users -> Scopes \cup {None}]
          /\ scope'[t] = IF role = "supervisor" THEN q.scope ELSE None
          /\ \A v \in Users \ {t} : perms'[v] = perms[v] /\ scope'[v] = scope[v]
      BY <2>4, <3>1 DEF AccountsInv, Shape
    <3>4. UserOK(t)'
      BY <2>3, <2>5, <2>6, <2>7, <3>2, <3>3, RevokingFacts DEF UserOK
    <3> QED BY <1>2, <2>1, <2>3, <2>6, <3>2, <3>3, <3>4, RevokingFacts, AccountGood DEF Exists
  <2>8. CASE role = row[t].role
    <3>1. /\ scope' = [scope EXCEPT ![t] = IF q.scope = None THEN scope[t] ELSE q.scope]
          /\ UNCHANGED <<row, perms, revoked>>
      BY <2>3, <2>8 DEF SetScope
    <3>2. /\ row' \in [Users -> GoodRows \cup {None}] /\ perms' \in [Users -> SUBSET Codes]
          /\ scope' \in [Users -> Scopes \cup {None}] /\ revoked' \in [Users -> Nat]
          /\ scope'[t] = IF q.scope = None THEN scope[t] ELSE q.scope
          /\ \A v \in Users \ {t} : scope'[v] = scope[v]
      BY <2>4, <3>1 DEF AccountsInv, Shape
    <3>3. UserOK(t)'
      BY <2>2, <2>5, <2>6, <2>8, <3>1, <3>2 DEF UserOK
    <3> QED BY <1>2, <2>1, <2>3, <2>5, <2>6, <3>1, <3>2, <3>3, AccountGood DEF Exists
  <2> QED BY <2>7, <2>8
<1> QED BY <1>3, <1>4

-----------------------------------------------------------------------------
(* Requests that are accepted                                                *)

\* A step that touches no table and no lock, and of the requests only r.
LEMMA QuietGood ==
    ASSUME AccountsInv, NEW r \in Requests, UNCHANGED <<tables, lock>>,
           pc' \in [Requests -> Labels], req' \in [Requests -> {None} \cup Refreshing \cup Accepted],
           token' \in [Sessions -> TokenPairs \cup {None}],
           \A x \in Requests : x # r => pc'[x] = pc[x] /\ req'[x] = req[x],
           \A s \in Sessions : SessionOK(s)',
           pc[r] \notin Holding, RequestOK(r)'
    PROVE  AccountsInv'
<1>1. UNCHANGED <<row, perms, scope, links, menu, revoked, patched, lock>>
  BY DEF tables
<1>2. \A u \in Users : UserOK(u)'
  BY <1>1 DEF UserOK, AccountsInv
<1>3. Courteous(r)
  BY <1>1 DEF Courteous, SameAdmin, ActiveAdmins, Exists
<1>4. Shape'
  BY <1>1 DEF Shape, AccountsInv
<1>5. GoodStep(r)
  BY <1>1, <1>2, <1>3, <1>4, NothingHeld DEF GoodStep
<1> QED BY <1>5, GoodStepKeepsInv

LEMMA SessionFacts ==
    ASSUME AccountsInv, NEW s \in Sessions, token[s] # None
    PROVE  /\ token[s] \in TokenPairs /\ token[s].user \in Users /\ token[s].client \in {"web", "mobile"}
           /\ PairOK(token[s]) /\ row[token[s].user] \in GoodRows
<1>1. token[s] \in TokenPairs /\ PairOK(token[s])
  BY DEF AccountsInv, Shape, SessionOK
<1> QED BY <1>1 DEF AccountsInv, Shape, TokenPairs, PairOK, Exists

LEMMA AcceptGood ==
    ASSUME AccountsInv, NEW r \in Requests, NEW s \in Sessions, NEW o \in Ops \ {"refresh"},
           NEW t \in Users, NEW arg \in Bodies, Authenticated(r, s, o), Accept(r, s, o, t, arg),
           o # "create" => Exists(t),
           o = "create" => arg.role \in Roles /\ (arg.role = "supervisor" <=> arg.scope # None),
           o = "update" /\ arg.scope # None =>
              (IF arg.role = None THEN row[t].role ELSE arg.role) = "supervisor"
    PROVE  AccountsInv'
<1>1. PICK q : q = [actor |-> token[s].user, me |-> row[token[s].user], session |-> s,
                    client |-> token[s].client, target |-> t, was |-> row[t], arg |-> arg,
                    admins |-> {}]
  OBVIOUS
<1>2. /\ pc[r] = "idle" /\ token[s] # None
      /\ pc' = [pc EXCEPT ![r] = o] /\ req' = [req EXCEPT ![r] = q]
      /\ UNCHANGED <<tables, token, lock>>
  BY <1>1 DEF Authenticated, Authentic, Accept
<1>3. row[t] \in GoodRows \cup {None} /\ (o # "create" => row[t] \in GoodRows)
  BY DEF AccountsInv, Shape, Exists
<1>4. q \in Accepted /\ q.actor = token[s].user /\ q.target = t /\ q.was = row[t] /\ q.arg = arg
  BY <1>1, <1>2, <1>3, SessionFacts DEF Accepted
<1>5. FieldsOK(o, q)
  BY <1>2, <1>3, <1>4, SessionFacts DEF FieldsOK, PairOK, RoleAskedFor
<1>6. o \in Labels /\ o \notin {"idle", "refresh"} /\ o \notin Holding /\ "idle" \notin Holding
  BY DEF Ops, Labels, Holding
<1>7. /\ pc' \in [Requests -> Labels] /\ req' \in [Requests -> {None} \cup Refreshing \cup Accepted]
      /\ token' \in [Sessions -> TokenPairs \cup {None}]
      /\ \A x \in Requests : x # r => pc'[x] = pc[x] /\ req'[x] = req[x]
      /\ pc'[r] = o /\ req'[r] = q
  BY <1>2, <1>4, <1>6 DEF AccountsInv, Shape
<1>8. \A x \in Sessions : SessionOK(x)'
  BY <1>2 DEF AccountsInv, SessionOK, PairOK, Exists, tables
<1>9. FieldsOK(o, q)'
  BY <1>2, <1>5 DEF FieldsOK, Exists, RoleAskedFor, tables
<1>10. RequestOK(r)'
  BY <1>6, <1>7, <1>9 DEF RequestOK, Holding
<1> QED BY <1>2, <1>6, <1>7, <1>8, <1>10, QuietGood

LEMMA BodyFacts ==
    /\ Body \in Bodies /\ Body.role = None /\ Body.scope = None
    /\ \A b \in BOOLEAN : [Body EXCEPT !.active = b] \in Bodies
    /\ \A c \in Grants : [Body EXCEPT !.codes = c] \in Bodies
    /\ \A o \in NewRoles \cup {None}, c \in NewScopes \cup {None} :
         LET new == [Body EXCEPT !.role = o, !.scope = c]
         IN  new \in Bodies /\ new.role = o /\ new.scope = c
BY AccountsAssumption DEF Body, Bodies

LEMMA StartGood ==
    ASSUME AccountsInv, NEW r \in Requests, NEW s \in Sessions,
           \/ StartChangePassword(r, s) \/ StartDelete(r, s) \/ StartUpdateMe(r, s)
    PROVE  AccountsInv'
<1>1. PICK o \in {"change_password", "delete", "update_me"} :
         Authenticated(r, s, o) /\ Accept(r, s, o, token[s].user, Body)
  BY DEF StartChangePassword, StartDelete, StartUpdateMe
<1>2. o \in Ops \ {"refresh"} /\ token[s] # None
  BY <1>1 DEF Ops, Authenticated, Authentic
<1>3. token[s].user \in Users /\ Exists(token[s].user)
  BY <1>2, SessionFacts DEF PairOK
<1>4. o \notin {"create", "update"}
  BY <1>1
<1> QED BY <1>1, <1>2, <1>3, <1>4, BodyFacts, AcceptGood

LEMMA StartSetActiveGood ==
    ASSUME AccountsInv, NEW r \in Requests, NEW s \in Sessions, NEW t \in Users,
           NEW active \in BOOLEAN, StartSetActive(r, s, t, active)
    PROVE  AccountsInv'
<1>1. PICK arg \in Bodies : /\ Authenticated(r, s, "set_active") /\ Exists(t)
                            /\ Accept(r, s, "set_active", t, arg)
  BY BodyFacts DEF StartSetActive
<1>2. "set_active" \in Ops \ {"refresh"}
  BY DEF Ops
<1> QED BY <1>1, <1>2, AcceptGood

LEMMA StartResetGood ==
    ASSUME AccountsInv, NEW r \in Requests, NEW s \in Sessions, NEW t \in Users, StartReset(r, s, t)
    PROVE  AccountsInv'
<1>1. Authenticated(r, s, "reset") /\ Exists(t) /\ Accept(r, s, "reset", t, Body)
  BY DEF StartReset
<1>2. "reset" \in Ops \ {"refresh"}
  BY DEF Ops
<1> QED BY <1>1, <1>2, BodyFacts, AcceptGood

LEMMA StartReplaceGood ==
    ASSUME AccountsInv, NEW r \in Requests, NEW s \in Sessions, NEW t \in Users,
           NEW codes \in Grants, StartReplace(r, s, t, codes)
    PROVE  AccountsInv'
<1>1. PICK arg \in Bodies : /\ Authenticated(r, s, "replace") /\ Exists(t)
                            /\ Accept(r, s, "replace", t, arg)
  BY BodyFacts DEF StartReplace
<1>2. "replace" \in Ops \ {"refresh"}
  BY DEF Ops
<1> QED BY <1>1, <1>2, AcceptGood

LEMMA StartCreateGood ==
    ASSUME AccountsInv, NEW r \in Requests, NEW s \in Sessions, NEW t \in Users,
           NEW role \in NewRoles, NEW sc \in NewScopes \cup {None}, StartCreate(r, s, t, role, sc)
    PROVE  AccountsInv'
<1>1. PICK arg \in Bodies : /\ arg.role = role /\ arg.scope = sc
                            /\ Authenticated(r, s, "create") /\ Accept(r, s, "create", t, arg)
  BY BodyFacts DEF StartCreate
<1>2. "create" \in Ops \ {"refresh"} /\ role \in Roles
  BY AccountsAssumption DEF Ops
<1>3. role = "supervisor" <=> sc # None
  BY DEF StartCreate
<1> QED BY <1>1, <1>2, <1>3, AcceptGood

LEMMA StartUpdateGood ==
    ASSUME AccountsInv, NEW r \in Requests, NEW s \in Sessions, NEW t \in Users,
           NEW role \in NewRoles \cup {None}, NEW sc \in NewScopes \cup {None},
           StartUpdate(r, s, t, role, sc)
    PROVE  AccountsInv'
<1>1. PICK arg \in Bodies : /\ arg.role = role /\ arg.scope = sc /\ Exists(t)
                            /\ Authenticated(r, s, "update") /\ Accept(r, s, "update", t, arg)
  BY BodyFacts DEF StartUpdate
<1>2. "update" \in Ops \ {"refresh"}
  BY DEF Ops
<1>3. sc # None => (IF role = None THEN row[t].role ELSE role) = "supervisor"
  BY DEF StartUpdate
<1> QED BY <1>1, <1>2, <1>3, AcceptGood

-----------------------------------------------------------------------------
(* Sessions                                                                  *)

LEMMA StartRefreshGood ==
    ASSUME AccountsInv, NEW r \in Requests, NEW s \in Sessions, StartRefresh(r, s)
    PROVE  AccountsInv'
<1>1. PICK q : q = [session |-> s, pair |-> token[s]]
  OBVIOUS
<1>2. /\ pc[r] = "idle" /\ token[s] # None
      /\ pc' = [pc EXCEPT ![r] = "refresh"] /\ req' = [req EXCEPT ![r] = q]
      /\ UNCHANGED <<tables, token, lock>>
  BY <1>1 DEF StartRefresh
<1>3. q \in Refreshing /\ PairOK(q.pair)
  BY <1>1, <1>2, SessionFacts DEF Refreshing
<1>4. /\ pc' \in [Requests -> Labels] /\ req' \in [Requests -> {None} \cup Refreshing \cup Accepted]
      /\ token' \in [Sessions -> TokenPairs \cup {None}] /\ pc'[r] = "refresh" /\ req'[r] = q
      /\ \A x \in Requests : x # r => pc'[x] = pc[x] /\ req'[x] = req[x]
  BY <1>2, <1>3 DEF AccountsInv, Shape, Labels, Ops
<1>5. \A x \in Sessions : SessionOK(x)'
  BY <1>2 DEF AccountsInv, SessionOK, PairOK, Exists, tables
<1>6. PairOK(q.pair)'
  BY <1>2, <1>3 DEF PairOK, Exists, tables
<1>7. RequestOK(r)' /\ pc[r] \notin Holding
  BY <1>2, <1>3, <1>4, <1>6 DEF RequestOK, Holding
<1> QED BY <1>2, <1>4, <1>5, <1>7, QuietGood

\* A step that changes nothing but the sessions.
LEMMA TokensGood ==
    ASSUME AccountsInv, UNCHANGED <<tables, lock, pc, req>>,
           token' \in [Sessions -> TokenPairs \cup {None}],
           \A s \in Sessions : token'[s] # None => PairOK(token'[s])
    PROVE  AccountsInv'
<1>1. UNCHANGED <<row, perms, scope, links, menu, revoked, patched, lock, pc, req>>
  BY DEF tables
<1>2. \A s \in Sessions : SessionOK(s)'
  BY <1>1 DEF SessionOK, PairOK, Exists
<1>3. \A u \in Users : UserOK(u)'
  BY <1>1 DEF UserOK, AccountsInv
<1>4. Shape'
  BY <1>1 DEF Shape, AccountsInv
<1>5. Courteous(None)
  BY <1>1 DEF Courteous, SameAdmin, ActiveAdmins, Exists
<1> QED BY <1>2, <1>3, <1>4, <1>5, NoneFacts, GoodStepKeepsInv DEF GoodStep

LEMMA PairFacts ==
    ASSUME NEW x \in TokenPairs
    PROVE  /\ [x EXCEPT !.refresh = FALSE] \in TokenPairs
           /\ [x EXCEPT !.access = FALSE] \in TokenPairs
           /\ Rotated(x) \in TokenPairs
           /\ PairOK(x) => /\ PairOK([x EXCEPT !.refresh = FALSE])
                           /\ PairOK([x EXCEPT !.access = FALSE])
                           /\ PairOK(Rotated(x))
BY DEF TokenPairs, PairOK, Rotated

LEMMA IssueTokensGood ==
    ASSUME AccountsInv, NEW r \in Requests, IssueTokens(r)
    PROVE  AccountsInv'
<1>1. pc[r] = "refresh" /\ Finish(r) /\ UNCHANGED <<tables, lock>> /\ pc[r] \notin Holding
  BY DEF IssueTokens, Holding
<1>2. PICK old, pair : /\ old = req[r].session /\ pair = req[r].pair
                       /\ old \in Sessions /\ pair \in TokenPairs /\ PairOK(pair)
  BY <1>1 DEF AccountsInv, RequestOK, Refreshing
<1>3. \/ token' = token
      \/ /\ token[old] # None
         /\ \E s \in Sessions :
              /\ Unused(s)
              /\ token' = [token EXCEPT ![old].refresh = FALSE, ![s] = Rotated(pair)]
  BY <1>2 DEF IssueTokens, IssuePair
<1>4. token' \in [Sessions -> TokenPairs \cup {None}] /\ \A x \in Sessions : token'[x] # None => PairOK(token'[x])
  <2>1. token \in [Sessions -> TokenPairs \cup {None}] /\ \A x \in Sessions : token[x] # None => PairOK(token[x])
    BY DEF AccountsInv, Shape, SessionOK
  <2>2. CASE token' = token
    BY <2>1, <2>2
  <2>3. CASE token' # token
    <3>1. PICK s \in Sessions :
            token[old] # None /\ token' = [token EXCEPT ![old].refresh = FALSE, ![s] = Rotated(pair)]
      BY <1>3, <2>3
    <3>2. PICK spent : spent = [token[old] EXCEPT !.refresh = FALSE]
      OBVIOUS
    <3>3. PICK fresh : fresh = Rotated(pair)
      OBVIOUS
    <3>4. spent \in TokenPairs /\ PairOK(spent)
      BY <1>2, <2>1, <3>1, <3>2, PairFacts
    <3>5. fresh \in TokenPairs /\ PairOK(fresh)
      BY <1>2, <3>3, PairFacts
    <3>6. token' = [[token EXCEPT ![old] = spent] EXCEPT ![s] = fresh]
      BY <1>2, <2>1, <3>1, <3>2, <3>3
    <3> QED BY <1>2, <2>1, <3>4, <3>5, <3>6
  <2> QED BY <2>2, <2>3
<1>5. \A x \in Sessions : SessionOK(x)'
  BY <1>1, <1>4 DEF SessionOK, PairOK, Exists, tables
<1> QED BY <1>1, <1>4, <1>5, FinishShape, IdleOK, QuietGood

LEMMA SignInGood ==
    ASSUME AccountsInv, NEW u \in Users, NEW s \in Sessions, WebLogin(u, s) \/ MobileLogin(u, s)
    PROVE  AccountsInv'
<1>1. PICK client \in {"web", "mobile"} : Exists(u) /\ SignIn(u, s, client)
  BY DEF WebLogin, MobileLogin
<1>2. PICK new : new = NewSession(u, client)
  OBVIOUS
<1>3. token' = [token EXCEPT ![s] = new] /\ UNCHANGED <<tables, lock, pc, req>>
  BY <1>1, <1>2 DEF SignIn
<1>4. row[u] \in GoodRows /\ revoked[u] \in Nat /\ UserOK(u) /\ row[u] # None
  BY <1>1 DEF AccountsInv, Shape, Exists
<1>5. row[u].version \in Nat \ {0}
  BY <1>4 DEF GoodRows, Rows
<1>6. new \in TokenPairs /\ PairOK(new)
  BY <1>1, <1>2, <1>4, <1>5 DEF NewSession, TokenPairs, PairOK, UserOK
<1>7. token \in [Sessions -> TokenPairs \cup {None}] /\ \A x \in Sessions : token[x] # None => PairOK(token[x])
  BY DEF AccountsInv, Shape, SessionOK
<1> QED BY <1>3, <1>6, <1>7, TokensGood

LEMMA SessionEndsGood ==
    ASSUME AccountsInv, NEW s \in Sessions,
           WebLogout(s) \/ MobileLogout(s) \/ AccessExpires(s) \/ Forgotten(s)
    PROVE  AccountsInv'
<1>1. token[s] # None
  BY DEF WebLogout, MobileLogout, AccessExpires, Forgotten
<1>2. PICK new : /\ token' = [token EXCEPT ![s] = new]
                 /\ new = None \/ (new \in TokenPairs /\ PairOK(new))
  BY <1>1, SessionFacts, PairFacts DEF WebLogout, MobileLogout, AccessExpires, Forgotten, Blacklist
<1>3. UNCHANGED <<tables, lock, pc, req>>
  BY DEF WebLogout, MobileLogout, AccessExpires, Forgotten, Blacklist
<1>4. token \in [Sessions -> TokenPairs \cup {None}] /\ \A x \in Sessions : token[x] # None => PairOK(token[x])
  BY DEF AccountsInv, Shape, SessionOK
<1> QED BY <1>2, <1>3, <1>4, TokensGood

LEMMA TemporaryLapsesGood ==
    ASSUME AccountsInv, NEW u \in Users, TemporaryLapses(u)
    PROVE  AccountsInv'
<1>1. PICK new : new = [row[u] EXCEPT !.expires = "past"]
  OBVIOUS
<1>2. row[u] \in GoodRows
  BY DEF TemporaryLapses, AccountsInv, Shape, Exists
<1>3. /\ new \in GoodRows /\ new.role = row[u].role /\ new.active = row[u].active
      /\ new.version = row[u].version
  BY <1>1, <1>2 DEF GoodRows, Rows
<1>4. row' = [row EXCEPT ![u] = new]
  BY <1>1 DEF TemporaryLapses
<1>5. UNCHANGED <<perms, scope, links, menu, revoked, patched, token, lock, pc, req>>
  BY DEF TemporaryLapses
<1>6. None \notin GoodRows
  BY NoneFacts DEF GoodRows
<1>7. row \in [Users -> GoodRows \cup {None}] /\ row' \in [Users -> GoodRows \cup {None}]
  BY <1>3, <1>4 DEF AccountsInv, Shape
<1>8. row'[u] = new /\ \A v \in Users \ {u} : row'[v] = row[v]
  BY <1>4, <1>7
<1>9. \A v \in Users : UserOK(v)'
  <2> SUFFICES ASSUME NEW v \in Users PROVE UserOK(v)'
    OBVIOUS
  <2>1. UserOK(v)
    BY DEF AccountsInv
  <2>2. CASE v = u
    BY <1>2, <1>3, <1>5, <1>6, <1>8, <2>1, <2>2 DEF UserOK
  <2>3. CASE v # u
    BY <1>5, <1>8, <2>1, <2>3 DEF UserOK
  <2> QED BY <2>2, <2>3
<1>10. \A v \in Users : Exists(v) <=> Exists(v)'
  BY <1>2, <1>3, <1>6, <1>8 DEF Exists
<1>11. \A v \in Users : SameAdmin(v)
  BY <1>2, <1>3, <1>5, <1>6, <1>8 DEF SameAdmin, ActiveAdmins, Exists
<1>12. Courteous(None)
  BY <1>5, <1>10, <1>11 DEF Courteous
<1>13. \A s \in Sessions : SessionOK(s)'
  <2> SUFFICES ASSUME NEW s \in Sessions, token'[s] = token[s], token[s] # None PROVE PairOK(token[s])'
    BY <1>5 DEF SessionOK
  <2>1. token[s].user \in Users /\ PairOK(token[s])
    BY SessionFacts
  <2> QED BY <1>12, <2>1, PairStays
<1>14. Shape'
  BY <1>5, <1>7 DEF AccountsInv, Shape
<1> QED BY <1>9, <1>12, <1>13, <1>14, NoneFacts, GoodStepKeepsInv DEF GoodStep

-----------------------------------------------------------------------------
(* Replacing permissions                                                     *)

\* What the invariant says of a request that replaces permissions.
LEMMA ReplacingFacts ==
    ASSUME AccountsInv, NEW r \in Requests, pc[r] \in {"replace", "lock_admins", "lock_target", "commit"}
    PROVE  /\ FieldsOK(pc[r], req[r]) /\ req[r] \in Accepted
           /\ req[r].target \in Users /\ Exists(req[r].target) /\ req[r].arg.codes \subseteq Codes
           /\ req[r].admins \subseteq Users /\ Exists(req[r].actor)
<1>1. FieldsOK(pc[r], req[r])
  BY DEF AccountsInv, RequestOK
<1> QED BY <1>1 DEF FieldsOK, Accepted, Bodies

\* The same request with other administrators, in another of these phases.
LEMMA PhaseFacts ==
    ASSUME NEW q \in Accepted, NEW a \in SUBSET Users, Exists(q.actor), Exists(q.target),
           NEW o \in {"lock_admins", "lock_target", "commit"}
    PROVE  LET new == [q EXCEPT !.admins = a]
           IN  /\ new \in Accepted /\ FieldsOK(o, new) /\ new.admins = a
               /\ new.target = q.target /\ new.arg = q.arg
BY DEF Accepted, FieldsOK

LEMMA FindAdminsGood ==
    ASSUME AccountsInv, NEW r \in Requests, FindAdmins(r)
    PROVE  AccountsInv'
<1>1. pc[r] = "replace" /\ pc[r] \notin Holding /\ UNCHANGED <<tables, token, lock>>
  BY DEF FindAdmins, Holding
<1>2. PICK new : /\ new = [req[r] EXCEPT !.admins = ActiveAdmins]
                 /\ req' = [req EXCEPT ![r] = new] /\ pc' = [pc EXCEPT ![r] = "lock_admins"]
  BY DEF FindAdmins
<1>3. ActiveAdmins \in SUBSET Users
  BY DEF ActiveAdmins
<1>4. new \in Accepted /\ FieldsOK("lock_admins", new)
  BY <1>1, <1>2, <1>3, ReplacingFacts, PhaseFacts
<1>5. /\ pc' \in [Requests -> Labels] /\ req' \in [Requests -> {None} \cup Refreshing \cup Accepted]
      /\ token' \in [Sessions -> TokenPairs \cup {None}] /\ pc'[r] = "lock_admins" /\ req'[r] = new
      /\ \A x \in Requests : x # r => pc'[x] = pc[x] /\ req'[x] = req[x]
  BY <1>1, <1>2, <1>4 DEF AccountsInv, Shape, Labels
<1>6. \A x \in Sessions : SessionOK(x)'
  BY <1>1 DEF AccountsInv, SessionOK, PairOK, Exists, tables
<1>7. FieldsOK("lock_admins", new)'
  BY <1>1, <1>4 DEF FieldsOK, Exists, RoleAskedFor, tables
<1>8. RequestOK(r)'
  BY <1>5, <1>7 DEF RequestOK, Holding
<1> QED BY <1>1, <1>5, <1>6, <1>8, QuietGood

\* A step of a request that replaces permissions: it takes or gives back its
\* own locks, and changes nothing of the accounts that others have locked.
LEMMA LockingGood ==
    ASSUME AccountsInv, NEW r \in Requests, UNCHANGED <<row, scope, links, menu, revoked, patched, token>>,
           perms' \in [Users -> SUBSET Codes],
           \A u \in Users : lock[u] \notin {None, r} => perms'[u] = perms[u],
           lock' \in [Users -> Requests \cup {None}],
           \A u \in Users : lock'[u] = lock[u] \/ (lock[u] \in {None, r} /\ lock'[u] \in {None, r}),
           \A u \in Users : lock'[u] = r => pc'[r] \in Holding /\ Exists(u),
           pc' \in [Requests -> Labels], req' \in [Requests -> {None} \cup Refreshing \cup Accepted],
           \A x \in Requests : x # r => pc'[x] = pc[x] /\ req'[x] = req[x],
           RequestOK(r)'
    PROVE  AccountsInv'
<1>1. \A u \in Users : UserOK(u)'
  BY DEF UserOK, AccountsInv
<1>2. \A s \in Sessions : SessionOK(s)'
  BY DEF SessionOK, PairOK, Exists, AccountsInv
<1>3. Courteous(r)
  BY DEF Courteous, SameAdmin, ActiveAdmins, Exists
<1>4. Shape'
  BY DEF Shape, AccountsInv
<1>5. \A u \in Users : lock'[u] = r => pc'[r] \in Holding /\ Exists(u)'
  BY DEF Exists
<1> QED BY <1>1, <1>2, <1>3, <1>4, <1>5, GoodStepKeepsInv DEF GoodStep

LEMMA LockAdminsGood ==
    ASSUME AccountsInv, NEW r \in Requests, LockAdmins(r)
    PROVE  AccountsInv'
<1>1. /\ pc[r] = "lock_admins" /\ UNCHANGED <<row, perms, scope, links, menu, revoked, patched, token>>
      /\ pc[r] \notin Holding
  BY DEF LockAdmins, Holding, tables
<1>2. PICK a \in SUBSET Users : a = req[r].admins \cap ActiveAdmins
  BY <1>1, ReplacingFacts
<1>3. /\ \A u \in a : lock[u] = None /\ u \in ActiveAdmins
      /\ lock' = [u \in Users |-> IF u \in a THEN r ELSE lock[u]]
      /\ pc' = [pc EXCEPT ![r] = "lock_target"]
  BY <1>2 DEF LockAdmins, Free
<1>4. PICK new : new = [req[r] EXCEPT !.admins = a] /\ req' = [req EXCEPT ![r] = new]
  BY <1>2 DEF LockAdmins
<1>5. new \in Accepted /\ FieldsOK("lock_target", new) /\ new.admins = a
  BY <1>1, <1>4, ReplacingFacts, PhaseFacts
<1>6. /\ pc' \in [Requests -> Labels] /\ req' \in [Requests -> {None} \cup Refreshing \cup Accepted]
      /\ pc'[r] = "lock_target" /\ req'[r] = new
      /\ \A x \in Requests : x # r => pc'[x] = pc[x] /\ req'[x] = req[x]
  BY <1>3, <1>4, <1>5 DEF AccountsInv, Shape, Labels, Holding
<1>7. /\ lock' \in [Users -> Requests \cup {None}]
      /\ \A u \in Users : lock'[u] = IF u \in a THEN r ELSE lock[u]
  BY <1>3 DEF AccountsInv, Shape
<1>8. \A u \in Users : lock'[u] = r => u \in a
  BY <1>1, <1>7, NothingHeld
<1>9. \A u \in a : Exists(u)
  BY <1>3 DEF ActiveAdmins
<1>10. \A u \in a : u \in ActiveAdmins'
  BY <1>1, <1>3 DEF ActiveAdmins, Exists
<1>11. HeldByAdmins(r)'
  BY <1>5, <1>6, <1>7, <1>10 DEF HeldByAdmins
<1>12. FieldsOK("lock_target", new)'
  BY <1>1, <1>5 DEF FieldsOK, Exists, RoleAskedFor
<1>13. RequestOK(r)'
  BY <1>6, <1>11, <1>12 DEF RequestOK, Holding
<1>14. \A u \in Users : lock'[u] = r => pc'[r] \in Holding /\ Exists(u)
  BY <1>6, <1>8, <1>9 DEF Holding
<1>15. \A u \in Users : lock'[u] = lock[u] \/ (lock[u] \in {None, r} /\ lock'[u] \in {None, r})
  BY <1>3, <1>7
<1>16. perms' \in [Users -> SUBSET Codes]
  BY <1>1 DEF AccountsInv, Shape
<1> QED BY <1>1, <1>6, <1>7, <1>13, <1>14, <1>15, <1>16, LockingGood

\* The end of a request that replaces permissions, with or without success.
LEMMA LetGoGood ==
    ASSUME AccountsInv, NEW r \in Requests, Finish(r), Unlock(r),
           UNCHANGED <<row, scope, links, menu, revoked, patched, token>>,
           perms' \in [Users -> SUBSET Codes],
           \A u \in Users : lock[u] \notin {None, r} => perms'[u] = perms[u]
    PROVE  AccountsInv'
<1>1. /\ lock' \in [Users -> Requests \cup {None}]
      /\ \A u \in Users : lock'[u] = IF lock[u] = r THEN None ELSE lock[u]
  BY DEF Unlock, AccountsInv, Shape
<1>2. \A u \in Users : lock'[u] # r
  BY <1>1, NoneFacts
<1> QED BY <1>1, <1>2, FinishShape, IdleOK, LockingGood

LEMMA LockTargetGood ==
    ASSUME AccountsInv, NEW r \in Requests, LockTarget(r)
    PROVE  AccountsInv'
<1>1. /\ pc[r] = "lock_target" /\ UNCHANGED <<row, perms, scope, links, menu, revoked, patched, token>>
      /\ lock[req[r].target] \in {None, r} /\ perms' \in [Users -> SUBSET Codes]
  BY DEF LockTarget, tables, AccountsInv, Shape
<1>2. CASE Finish(r) /\ Unlock(r)
  BY <1>1, <1>2, LetGoGood
<1>3. CASE ~(Finish(r) /\ Unlock(r))
  <2>1. PICK t \in Users : t = req[r].target
    BY <1>1, ReplacingFacts
  <2>2. /\ ~RemovesLastManager(r) /\ UNCHANGED req
        /\ lock' = [lock EXCEPT ![t] = r] /\ pc' = [pc EXCEPT ![r] = "commit"]
    BY <1>3, <2>1 DEF LockTarget
  <2>3. /\ pc' \in [Requests -> Labels] /\ req' \in [Requests -> {None} \cup Refreshing \cup Accepted]
        /\ pc'[r] = "commit" /\ req'[r] = req[r]
        /\ \A x \in Requests : x # r => pc'[x] = pc[x] /\ req'[x] = req[x]
    BY <2>2 DEF AccountsInv, Shape, Labels, Holding
  <2>4. /\ lock' \in [Users -> Requests \cup {None}] /\ lock'[t] = r
        /\ \A u \in Users \ {t} : lock'[u] = lock[u]
    BY <2>2 DEF AccountsInv, Shape
  <2>5. /\ req[r] \in Accepted /\ Exists(t) /\ Exists(req[r].actor) /\ req[r].admins \subseteq Users
    BY <1>1, <2>1, ReplacingFacts
  <2>6. \A u \in Users : lock'[u] = r => Exists(u)
    BY <2>4, <2>5, NoneFacts DEF AccountsInv, LocksOK
  <2>7. FieldsOK("commit", req[r])'
    BY <1>1, <2>1, <2>3, <2>5 DEF FieldsOK, Exists
  <2>8. HeldByAdmins(r)
    BY <1>1 DEF AccountsInv, RequestOK, Holding
  <2>9. HeldByAdmins(r)'
    BY <1>1, <2>3, <2>4, <2>5, <2>8 DEF HeldByAdmins, ActiveAdmins, Exists
  <2>10. ~RemovesLastManager(r)'
    BY <1>1, <2>2 DEF RemovesLastManager, IsManager, ActiveAdmins, Exists
  <2>11. RequestOK(r)'
    BY <2>1, <2>3, <2>4, <2>7, <2>9, <2>10 DEF RequestOK, Holding
  <2>12. \A u \in Users : lock'[u] = lock[u] \/ (lock[u] \in {None, r} /\ lock'[u] \in {None, r})
    BY <1>1, <2>1, <2>4
  <2> QED BY <1>1, <2>3, <2>4, <2>6, <2>11, <2>12, LockingGood DEF Holding
<1> QED BY <1>2, <1>3

LEMMA CommitFacts ==
    ASSUME AccountsInv, NEW r \in Requests, CommitPermissions(r)
    PROVE  /\ pc[r] = "commit" /\ Finish(r) /\ Unlock(r)
           /\ UNCHANGED <<row, scope, links, menu, revoked, patched, token>>
           /\ req[r].target \in Users /\ lock[req[r].target] = r /\ ~RemovesLastManager(r)
           /\ perms' \in [Users -> SUBSET Codes]
           /\ perms'[req[r].target] = req[r].arg.codes
           /\ \A u \in Users : u # req[r].target => perms'[u] = perms[u]
<1>1. /\ pc[r] = "commit" /\ Finish(r) /\ Unlock(r)
      /\ UNCHANGED <<row, scope, links, menu, revoked, patched, token>>
      /\ perms' = [perms EXCEPT ![req[r].target] = req[r].arg.codes]
  BY DEF CommitPermissions
<1>2. lock[req[r].target] = r /\ ~RemovesLastManager(r)
  BY <1>1 DEF AccountsInv, RequestOK
<1>3. req[r].target \in Users /\ req[r].arg.codes \subseteq Codes
  BY <1>1, ReplacingFacts
<1>4. perms \in [Users -> SUBSET Codes]
  BY DEF AccountsInv, Shape
<1> QED BY <1>1, <1>2, <1>3, <1>4

LEMMA CommitPermissionsGood ==
    ASSUME AccountsInv, NEW r \in Requests, CommitPermissions(r)
    PROVE  AccountsInv'
BY CommitFacts, LetGoGood

-----------------------------------------------------------------------------
(* The invariant and the theorems                                            *)

LEMMA InitGood == Init => AccountsInv
<1> SUFFICES ASSUME Init PROVE AccountsInv
  OBVIOUS
<1>1. PICK c \in Scenarios : StartOf(c)
  BY DEF Init
<1>2. /\ lock = [u \in Users |-> None] /\ pc = [r \in Requests |-> "idle"]
      /\ req = [r \in Requests |-> None] /\ revoked = [u \in Users |-> 0] /\ patched = {}
  BY DEF Init
<1>3. /\ c.staff \in [Users -> Roles \cup {None}] /\ c.signedIn \in [Sessions -> Users \cup {None}]
      /\ \A s \in Sessions : c.signedIn[s] # None => c.staff[c.signedIn[s]] # None
      /\ c.menu \subseteq Ops \cup {"browse"} /\ Children \in [Users -> SUBSET Stages]
  BY AccountsAssumption
<1>4. \A o \in Roles : /\ Template(o) \subseteq Codes
                       /\ [role |-> o, active |-> TRUE, version |-> 1, password |-> "chosen",
                           mustChange |-> FALSE, expires |-> "never"] \in GoodRows
  BY DEF Template, Codes, GoodRows, Rows
<1>5. /\ row \in [Users -> GoodRows \cup {None}]
      /\ \A u \in Users : /\ row[u] = None <=> c.staff[u] = None
                          /\ row[u] # None => row[u].version = 1 /\ row[u].role = c.staff[u]
  <2>1. row = [u \in Users |->
         IF c.staff[u] = None THEN None
         ELSE [role |-> c.staff[u], active |-> TRUE, version |-> 1, password |-> "chosen",
               mustChange |-> FALSE, expires |-> "never"]]
    BY <1>1 DEF StartOf
  <2>2. None \notin GoodRows
    BY NoneFacts DEF GoodRows
  <2> QED BY <1>3, <1>4, <2>1, <2>2
<1>6. perms \in [Users -> SUBSET Codes] /\ links \in [Users -> SUBSET Stages]
  BY <1>1, <1>3, <1>4 DEF StartOf
<1>7. /\ scope \in [Users -> Scopes \cup {None}]
      /\ \A u \in Users : scope[u] # None <=> c.staff[u] = "supervisor"
  <2>1. scope = [u \in Users |-> IF c.staff[u] = "supervisor"
                                 THEN [type |-> "all", stages |-> {}] ELSE None]
    BY <1>1 DEF StartOf
  <2>2. PICK all \in Scopes : all = [type |-> "all", stages |-> {}]
    BY DEF Scopes
  <2> QED BY <2>1, <2>2, NoneFacts
<1>8. /\ token \in [Sessions -> TokenPairs \cup {None}]
      /\ \A s \in Sessions : token[s] # None =>
            /\ c.signedIn[s] # None /\ token[s].user = c.signedIn[s] /\ token[s].user \in Users
            /\ token[s].version = 1 /\ token[s].era = 0
  <2>1. token = [s \in Sessions |->
         IF c.signedIn[s] = None THEN None
         ELSE [user |-> c.signedIn[s], client |-> "web", version |-> 1,
               access |-> TRUE, refresh |-> TRUE, era |-> 0]]
    BY <1>1 DEF StartOf
  <2> QED BY <1>3, <2>1 DEF TokenPairs
<1>9. Shape
  BY <1>1, <1>2, <1>3, <1>5, <1>6, <1>7, <1>8 DEF Shape, Labels, StartOf
<1>10. \A u \in Users : UserOK(u)
  BY <1>2, <1>5, <1>7, NoneFacts DEF UserOK
<1>11. \A s \in Sessions : SessionOK(s)
  BY <1>3, <1>5, <1>8 DEF SessionOK, PairOK, Exists
<1>12. LocksOK
  BY <1>2 DEF LocksOK
<1>13. \A r \in Requests : RequestOK(r)
  BY <1>2 DEF RequestOK, Holding
<1> QED BY <1>9, <1>10, <1>11, <1>12, <1>13 DEF AccountsInv

LEMMA StepGood == AccountsInv /\ [Next]_vars => AccountsInv'
<1> SUFFICES ASSUME AccountsInv, [Next]_vars PROVE AccountsInv'
  OBVIOUS
<1>1. ASSUME NEW r \in Requests, Start(r) PROVE AccountsInv'
  BY <1>1, StartRefreshGood, StartGood, StartSetActiveGood, StartResetGood, StartCreateGood,
     StartUpdateGood, StartReplaceGood DEF Start
<1>2. ASSUME NEW r \in Requests, Proceed(r) PROVE AccountsInv'
  BY <1>2, IssueTokensGood, CreateAccountGood, SetActiveGood, ResetPasswordGood, ChangePasswordGood,
     UpdateMeGood, DeleteGuardianGood, UpdateAccountGood, FindAdminsGood, LockAdminsGood,
     LockTargetGood, CommitPermissionsGood DEF Proceed
<1>3. ASSUME NEW s \in Sessions, Browser(s) PROVE AccountsInv'
  BY <1>3, SignInGood, SessionEndsGood DEF Browser
<1>4. ASSUME NEW u \in Users, TemporaryLapses(u) PROVE AccountsInv'
  BY <1>4, TemporaryLapsesGood
<1>5. CASE UNCHANGED vars
  <2>1. UNCHANGED <<tables, lock, pc, req>> /\ UNCHANGED token
    BY <1>5 DEF vars, tables
  <2>2. token' \in [Sessions -> TokenPairs \cup {None}] /\ \A s \in Sessions : token'[s] # None => PairOK(token'[s])
    BY <2>1 DEF AccountsInv, Shape, SessionOK
  <2> QED BY <2>1, <2>2, TokensGood
<1> QED BY <1>1, <1>2, <1>3, <1>4, <1>5 DEF Next

LEMMA Invariance == Spec => []AccountsInv
BY InitGood, StepGood, PTL DEF Spec

\* Types, locks and temporary passwords: a lock is held only by a request that
\* replaces permissions (permissions_services.py), and a temporary password
\* always comes with the obligation to change it (accounts/services.py).
THEOREM TypeCorrect == Spec => []TypeOK
<1>1. AccountsInv => TypeOK
  <2> SUFFICES ASSUME AccountsInv PROVE TypeOK
    OBVIOUS
  <2>1. \A s \in Sessions : token[s] # None => TokenOK(token[s])
    BY SessionFacts DEF TokenOK, TokenPairs, PairOK
  <2>2. \A u \in Users : row[u] \in Rows \cup {None}
    BY DEF AccountsInv, Shape, GoodRows
  <2>3. row \in [Users -> Rows \cup {None}]
    BY <2>2 DEF AccountsInv, Shape
  <2>4. \A u \in Users : Exists(u) => (row[u].mustChange <=> row[u].password = "temporary")
    BY DEF AccountsInv, Shape, GoodRows, Exists
  <2>5. pc \in [Requests -> Ops \cup {"idle", "lock_admins", "lock_target", "commit"}]
    BY DEF AccountsInv, Shape, Labels, Holding
  <2>6. \A u \in Users : lock[u] # None => pc[lock[u]] \in {"lock_target", "commit"}
    BY DEF AccountsInv, LocksOK, Holding
  <2> QED BY <2>1, <2>3, <2>4, <2>5, <2>6 DEF TypeOK, AccountsInv, Shape
<1> QED BY <1>1, Invariance, PTL

\* Ended sessions stay ended: the version that a token carries is the one of
\* its time, revocations only raise the version of an account, and a refresh
\* under way issues the version it checked (tokens.py, authentication.py).
THEOREM EndedSessionsStayEnded == Spec => []RevokedStaysOut
<1>1. AccountsInv => RevokedStaysOut
  <2> SUFFICES ASSUME AccountsInv, NEW s \in Sessions, Authentic(token[s]),
                      token[s].user \notin patched
               PROVE  token[s].era = revoked[token[s].user]
    BY DEF RevokedStaysOut
  <2>1. PICK t \in TokenPairs : t = token[s] /\ t.version = t.era + 1 /\ Exists(t.user)
    BY SessionFacts DEF Authentic, PairOK
  <2>2. t.user \in Users /\ t.era \in Nat /\ UserOK(t.user) /\ revoked[t.user] \in Nat
    BY <2>1 DEF TokenPairs, AccountsInv, Shape
  <2>3. t.version = revoked[t.user] + 1
    BY <2>1, <2>2 DEF UserOK, Exists, Authentic
  <2> QED BY <2>1, <2>2, <2>3
<1> QED BY <1>1, Invariance, PTL

\* Role and supervisor scope agree although they are two tables: whoever
\* changes a role rewrites or drops the scope in the same transaction, and an
\* update that sends a scope alone is decided by the role of the copy that it
\* validated (UserUpdateSerializer, change_user_role).
THEOREM ScopesFollowRoles == Spec => []ScopeMatchesRole
<1>1. AccountsInv => ScopeMatchesRole
  BY DEF AccountsInv, UserOK, ScopeMatchesRole, Exists
<1> QED BY <1>1, Invariance, PTL

\* Whatever managers do to each other's permissions at the same time, one of
\* them remains: the administrators that the decision counted on are locked
\* until its commit (replace_user_business_permissions).
THEOREM ManagersStay == Spec => ManagersRemain
<1>1. AccountsInv /\ [Next]_vars =>
        [\A r \in Requests : pc[r] = "commit" /\ pc'[r] = "idle" => Managers = {} \/ Managers' # {}]_vars
  <2> SUFFICES ASSUME AccountsInv, Next, NEW r \in Requests, pc[r] = "commit", pc'[r] = "idle",
                      NEW m \in Managers
               PROVE  Managers' # {}
    OBVIOUS
  <2>1. CommitPermissions(r)
    <3>1. \A x \in Requests : pc[x] \in Labels /\ pc' \in [Requests -> Labels]
      BY StepGood DEF AccountsInv, Shape
    <3>2. ASSUME NEW x \in Requests, Start(x) PROVE FALSE
      <4> DEFINE Asked(s) == \E o \in Ops : \E t, arg : Authenticated(x, s, o) /\ Accept(x, s, o, t, arg)
      <4>a. \A s : StartChangePassword(x, s) \/ StartDelete(x, s) \/ StartUpdateMe(x, s) => Asked(s)
        BY DEF StartChangePassword, StartDelete, StartUpdateMe, Ops
      <4>b. \A s, t, active : StartSetActive(x, s, t, active) => Asked(s)
        BY DEF StartSetActive, Ops
      <4>c. \A s, t : StartReset(x, s, t) => Asked(s)
        BY DEF StartReset, Ops
      <4>d. \A s, t, role, sc : StartCreate(x, s, t, role, sc) => Asked(s)
        BY DEF StartCreate, Ops
      <4>e. \A s, t, role, sc : StartUpdate(x, s, t, role, sc) => Asked(s)
        BY DEF StartUpdate, Ops
      <4>f. \A s, t, codes : StartReplace(x, s, t, codes) => Asked(s)
        BY DEF StartReplace, Ops
      <4> HIDE DEF Asked
      <4>1. PICK s \in Sessions : StartRefresh(x, s) \/ Asked(s)
        BY <3>2, <4>a, <4>b, <4>c, <4>d, <4>e, <4>f DEF Start
      <4>2. pc[x] = "idle" /\ \E o \in Ops : pc' = [pc EXCEPT ![x] = o]
        <5>1. CASE StartRefresh(x, s)
          BY <5>1 DEF StartRefresh, Ops
        <5>2. CASE Asked(s)
          BY <5>2 DEF Asked, Authenticated, Accept
        <5> QED BY <4>1, <5>1, <5>2
      <4>3. "idle" \notin Ops
        BY DEF Ops
      <4> QED BY <4>2, <4>3 DEF AccountsInv, Shape
    <3>3. ASSUME NEW x \in Requests, Proceed(x), ~CommitPermissions(x) PROVE FALSE
      <4>1. CASE FindAdmins(x) \/ LockAdmins(x) \/ LockTarget(x)
        <5>1. \/ pc[x] = "replace" /\ pc' = [pc EXCEPT ![x] = "lock_admins"]
              \/ pc[x] = "lock_admins" /\ pc' = [pc EXCEPT ![x] = "lock_target"]
              \/ pc[x] = "lock_target" /\ (Finish(x) \/ pc' = [pc EXCEPT ![x] = "commit"])
          BY <4>1 DEF FindAdmins, LockAdmins, LockTarget
        <5> QED BY <5>1 DEF Finish, AccountsInv, Shape
      <4>2. CASE \/ IssueTokens(x) \/ CreateAccount(x) \/ SetActive(x) \/ ResetPassword(x)
                 \/ ChangePassword(x) \/ UpdateMe(x) \/ DeleteGuardian(x) \/ UpdateAccount(x)
        <5>1. pc[x] # "commit"
          BY <4>2 DEF IssueTokens, CreateAccount, SetActive, ResetPassword, ChangePassword, UpdateMe,
             DeleteGuardian, UpdateAccount
        <5>2. Finish(x)
          BY <4>2 DEF IssueTokens, CreateAccount, SetActive, ResetPassword, ChangePassword, UpdateMe,
             DeleteGuardian, UpdateAccount, Refused
        <5> QED BY <5>1, <5>2 DEF Finish, AccountsInv, Shape
      <4> QED BY <3>3, <4>1, <4>2 DEF Proceed
    <3>4. ASSUME NEW x \in Requests, CommitPermissions(x), x # r PROVE FALSE
      BY <3>4 DEF CommitPermissions, Finish, AccountsInv, Shape
    <3>5. UNCHANGED pc => FALSE
      OBVIOUS
    <3>6. ASSUME NEW s \in Sessions, Browser(s) PROVE UNCHANGED pc
      BY <3>6 DEF Browser, WebLogin, MobileLogin, SignIn, WebLogout, MobileLogout, AccessExpires,
         Forgotten, Blacklist
    <3>7. ASSUME NEW u \in Users, TemporaryLapses(u) PROVE UNCHANGED pc
      BY <3>7 DEF TemporaryLapses
    <3> QED BY <3>2, <3>3, <3>4, <3>5, <3>6, <3>7 DEF Next
  <2>2. PICK t \in Users : /\ t = req[r].target /\ ~RemovesLastManager(r)
                           /\ perms'[t] = req[r].arg.codes
                           /\ \A u \in Users : u # t => perms'[u] = perms[u]
                           /\ UNCHANGED row
    BY <2>1, CommitFacts
  <2>3. ActiveAdmins' = ActiveAdmins
    BY <2>2 DEF ActiveAdmins, Exists
  <2>4. m \in ActiveAdmins /\ "manage_user_permissions" \in perms[m] /\ m \in Users
    BY DEF Managers, IsManager
  <2>5. HeldByAdmins(r) /\ req[r].admins \subseteq Users
    BY <2>1, CommitFacts, ReplacingFacts DEF AccountsInv, RequestOK, Holding
  <2>6. \E u \in Users : u \in ActiveAdmins /\ "manage_user_permissions" \in perms'[u]
    <3>1. CASE m # t
      BY <2>2, <2>4, <3>1
    <3>2. CASE m = t
      BY <2>2, <2>4, <2>5, <3>2 DEF RemovesLastManager, IsManager, HeldByAdmins
    <3> QED BY <3>1, <3>2
  <2> QED BY <2>3, <2>6 DEF Managers, IsManager
<1> QED BY <1>1, Invariance, PTL DEF Spec, ManagersRemain

-----------------------------------------------------------------------------
(* The behaviours of MCAccounts: those of GuardianData keep its invariants,   *)
(* and Accounts leaves its tables alone.                                      *)

GP == INSTANCE GuardianDataProofs WITH pc <- gpc

LEMMA SameInit == G!Init <=> GP!Init
  BY DEF G!Init, GP!Init, G!Topics, GP!Topics

LEMMA SameNext == G!Next <=> GP!Next
  BY DEF G!Cardinality, GP!Cardinality,
     G!Next, G!Start, G!Proceed, G!Abort, G!Idle, G!Finish, G!Goto, G!stored,
     G!StartRegister, G!LockGuardian, G!TakeDevice, G!YieldToken, G!SaveDevice, G!StoreDevice,
     G!FreeFor, G!LockRows, G!OthersWithToken, G!Existing, G!Registered, G!Excess, G!TokenIsFree,
     G!Unregister, G!FindDead, G!DisableDead,
     G!StartFanOut, G!Validate, G!BulkInsert, G!OneByOne, G!Insert, G!Missing, G!Has,
     G!MarkRead, G!MarkAllRead,
     G!StartClosing, G!LockAccount, G!EraseData, G!CommitClosing, G!DevicesOf,
     GP!Next, GP!Start, GP!Proceed, GP!Abort, GP!Idle, GP!Finish, GP!Goto, GP!stored,
     GP!StartRegister, GP!LockGuardian, GP!TakeDevice, GP!YieldToken, GP!SaveDevice, GP!StoreDevice,
     GP!FreeFor, GP!LockRows, GP!OthersWithToken, GP!Existing, GP!Registered, GP!Excess, GP!TokenIsFree,
     GP!Unregister, GP!FindDead, GP!DisableDead,
     GP!StartFanOut, GP!Validate, GP!BulkInsert, GP!OneByOne, GP!Insert, GP!Missing, GP!Has,
     GP!MarkRead, GP!MarkAllRead,
     GP!StartClosing, GP!LockAccount, GP!EraseData, GP!CommitClosing, GP!DevicesOf

LEMMA SensibleInstance == GP!Sensible
  BY GuardianDataAssumption
     DEF G!Sensible, GP!Sensible, G!IsFiniteSet, GP!IsFiniteSet, G!Devices, GP!Devices

LEMMA BehavesLikeGuardianData == MCSpec => GP!Spec
<1>1. MCInit => GP!Init
  BY SameInit DEF MCInit
<1>2. [MCNext]_<<vars, gvars>> => [GP!Next]_(GP!vars)
  BY SameNext DEF MCNext, gvars, GP!vars
<1> QED
  BY <1>1, <1>2, PTL DEF MCSpec, GP!Spec

\* Whatever signs in and registers at the same time, a token belongs to one
\* active device and a guardian has no more of them than the limit allows
\* (register_push_device).
THEOREM DevicesStayInOrder == MCSpec => []DevicesInOrder
<1>1. GP!Spec => []GP!DevicesInOrder
  BY SensibleInstance, GP!DevicesStayInOrder
<1>2. GP!DevicesInOrder => DevicesInOrder
  BY DEF DevicesInOrder, G!DevicesInOrder, GP!DevicesInOrder, G!Cardinality, GP!Cardinality,
         G!ActiveOf, G!DevicesOf, G!Existing, GP!ActiveOf, GP!DevicesOf, GP!Existing
<1> QED
  BY <1>1, <1>2, BehavesLikeGuardianData, PTL

\* A fan-out that ended well has told everybody concerned whose account is
\* open (create_notifications and its fallback).
THEOREM EverybodyIsTold == MCSpec => []NobodyIsMissed
<1>1. GP!Spec => []GP!NobodyIsMissed
  BY SensibleInstance, GP!EverybodyIsTold
<1>2. GP!NobodyIsMissed => NobodyIsMissed
  BY DEF NobodyIsMissed, G!NobodyIsMissed, GP!NobodyIsMissed, G!Has, GP!Has
<1> QED
  BY <1>1, <1>2, BehavesLikeGuardianData, PTL

================================================================================
