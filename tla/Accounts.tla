------------------------------ MODULE Accounts ------------------------------
(* Accounts of the school: sign-in and sessions of the dashboard and of the  *)
(* guardians' application, passwords, roles, supervisor scopes and business  *)
(* permissions (accounts/, academics/supervisor_scope_services.py).          *)
(*                                                                           *)
(* A request reads the account of its sender once, when it is authenticated, *)
(* and keeps that copy (`me`).  A transaction whose only wait is the lock of *)
(* the target account is one step guarded by that lock; replacing            *)
(* permissions locks several accounts and has a step for each wait.          *)
EXTENDS Naturals, FiniteSets

CONSTANTS
    Users,       \* accounts that exist or may be created
    Superusers,  \* created by `createsuperuser`, outside the roles
    Requests,    \* requests that are executed at the same time
    Sessions,    \* token pairs that can be out at a time
    Stages,      \* school stages
    Children,    \* the stages that a guardian's children of this year ever were in
    NewRoles,    \* the roles that requests ask for
    Grants,      \* the permission lists that managers send
    NewScopes,   \* the supervisor scopes that requests ask for
    Scenarios,   \* the roles, the sessions and the operations of a behaviour
    MaxVersion,  \* bound on revocations of an account
    None

Codes == {"add_user", "change_user", "manage_user_permissions",
          "reset_user_password", "set_user_active"}

Roles == {"school_admin", "secretariat", "supervisor", "teacher",
          "accountant", "guardian", "tech_support"}

Ops == {"create", "update", "set_active", "reset", "change_password",
        "update_me", "replace", "delete", "refresh"}

Scopes == {[type |-> "all", stages |-> {}]}
    \cup [type : {"selected"}, stages : SUBSET Stages \ {{}}]

Rows == [role : Roles, active : BOOLEAN, version : Nat \ {0},
         password : {"chosen", "temporary", "unusable"},
         mustChange : BOOLEAN, expires : {"never", "later", "past"}]

ASSUME AccountsAssumption ==
    /\ Superusers \subseteq Users
    /\ Children \in [Users -> SUBSET Stages]
    /\ NewRoles \subseteq Roles
    /\ Grants \subseteq SUBSET Codes
    /\ NewScopes \subseteq Scopes
    /\ \A c \in Scenarios :
         /\ c.staff \in [Users -> Roles \cup {None}]
         /\ c.signedIn \in [Sessions -> Users \cup {None}]
         /\ \A s \in Sessions :
              c.signedIn[s] # None => c.staff[c.signedIn[s]] \notin {None, "guardian"}
         /\ c.menu \subseteq Ops \cup {"browse"}
    /\ MaxVersion \in Nat \ {0}
    /\ None \notin Users \cup Requests \cup Sessions \cup Roles \cup Rows \cup Scopes

VARIABLES
    row,     \* the columns of the user table that decide something
    perms,   \* direct business permissions
    scope,   \* supervisor scopes
    links,   \* stages of the children a guardian is linked to
    token,   \* the sessions handed out
    lock,    \* row locks held between two steps
    pc, req, \* the requests being executed
    menu,    \* the operations asked for in this behaviour (a bound)
    revoked, \* ghost: how often all sessions of an account were ended
    patched  \* ghost: accounts a profile patch wrote an older copy of

vars == <<row, perms, scope, links, token, lock, pc, req, menu, revoked, patched>>
tables == <<row, perms, scope, links, menu, revoked, patched>>

-----------------------------------------------------------------------------
(* Policies *)

\* The part of a role template that concerns accounts.
Template(role) ==
    CASE role = "school_admin" -> Codes
      [] role \in {"secretariat", "supervisor"} -> Codes \ {"manage_user_permissions"}
      [] OTHER -> {}

Exists(u) == row[u] # None

IsSuperuser(u) == u \in Superusers

CanCreateRole(a, me, role) ==
    \/ IsSuperuser(a)
    \/ me.role = "school_admin"
    \/ me.role = "secretariat" /\ role \in {"teacher", "accountant"}
    \/ me.role = "supervisor" /\ role \in {"teacher", "guardian"}

CanAccessDashboard(a, me) == me.active /\ (IsSuperuser(a) \/ me.role # "guardian")

HasDirect(a, me, code) == me.active /\ (IsSuperuser(a) \/ code \in perms[a])

\* A supervisor sees the guardians of pupils in the stages of the scope.
GuardianInScope(a, g) ==
    /\ scope[a] # None
    /\ links[g] # {}
    /\ scope[a].type = "all" \/ links[g] \cap scope[a].stages # {}

VisibleTo(a, me, t) ==
    \/ IsSuperuser(a)
    \/ /\ ~IsSuperuser(t)
       /\ \/ me.role = "school_admin"
          \/ me.role = "secretariat" /\ row[t].role \in {"teacher", "accountant"}
          \/ me.role = "supervisor" /\ row[t].role = "teacher"
          \/ me.role = "supervisor" /\ row[t].role = "guardian" /\ GuardianInScope(a, t)

CanManage(a, me, t, target) ==
    /\ me.active
    /\ ~IsSuperuser(t)
    /\ \/ IsSuperuser(a)
       \/ me.role = "school_admin"
       \/ me.role = "secretariat" /\ CanCreateRole(a, me, target.role)
       \/ me.role = "supervisor" /\ target.role = "guardian" /\ GuardianInScope(a, t)
       \/ me.role = "supervisor" /\ target.role = "teacher"

CanChangeRole(a, me, t) ==
    me.active /\ ~IsSuperuser(t) /\ (IsSuperuser(a) \/ me.role = "school_admin")

CanSetActive(a, me, t, target) ==
    /\ a # t
    /\ (me.role = "supervisor" /\ target.role = "teacher") \/ CanManage(a, me, t, target)

CanReset(a, me, t, target) ==
    (me.role = "supervisor" /\ target.role = "teacher") \/ CanManage(a, me, t, target)

CanManagePermissions(a, me) ==
    /\ me.active
    /\ IsSuperuser(a) \/ (me.role = "school_admin" /\ HasDirect(a, me, "manage_user_permissions"))

\* ActionBusinessPermission: the permission each operation on accounts needs.
Required(op) ==
    CASE op = "create" -> "add_user"
      [] op = "update" -> "change_user"
      [] op = "set_active" -> "set_user_active"
      [] op = "reset" -> "reset_user_password"

\* PasswordChangeGate: all that is left to somebody with a temporary password.
OpenToTemporary == {"change_password", "update_me", "delete", "refresh"}

GatePassed(me, op) == me.mustChange => op \in OpenToTemporary

ActionPermitted(a, me, op) ==
    op \in {"create", "update", "set_active", "reset"} => HasDirect(a, me, Required(op))

WebUserMay(a, me, op) ==
    /\ op # "delete"
    /\ CanAccessDashboard(a, me)
    /\ GatePassed(me, op)
    /\ op = "replace" => CanManagePermissions(a, me)
    /\ ActionPermitted(a, me, op)

MobileGuardianMay(me, op) ==
    /\ op \in {"change_password", "delete"}
    /\ me.active /\ me.role = "guardian"
    /\ GatePassed(me, op)

MayUse(a, me, op, client) ==
    IF client = "web" THEN WebUserMay(a, me, op) ELSE MobileGuardianMay(me, op)

-----------------------------------------------------------------------------
(* Sessions *)

TemporaryExpired(u) == row[u].mustChange /\ row[u].expires = "past"

NewSession(u, client) ==
    [user |-> u, client |-> client, version |-> row[u].version,
     access |-> TRUE, refresh |-> TRUE, era |-> revoked[u]]

Unused(s) == token[s] = None

\* Tokens are valid by their signature and their time alone; whether the
\* session still exists is decided by the version the account has now.
Authentic(t) ==
    /\ t # None
    /\ row[t.user].active
    /\ t.version = row[t.user].version

WebCredentials(u) ==
    /\ row[u].active /\ row[u].password # "unusable"
    /\ CanAccessDashboard(u, row[u])
    /\ ~TemporaryExpired(u)

MobileCredentials(u) ==
    /\ row[u].active /\ row[u].password # "unusable"
    /\ row[u].role = "guardian"
    /\ ~TemporaryExpired(u)

SignIn(u, s, client) ==
    /\ Unused(s)
    /\ token' = [token EXCEPT ![s] = NewSession(u, client)]
    /\ UNCHANGED <<tables, lock, pc, req>>

WebLogin(u, s) == Exists(u) /\ WebCredentials(u) /\ SignIn(u, s, "web")

MobileLogin(u, s) == Exists(u) /\ MobileCredentials(u) /\ SignIn(u, s, "mobile")

\* A refresh is checked (StartRefresh) and the rotated pair issued later
\* (IssueTokens); the version in the new pair is the one that was checked.
WebMayRefresh(t) ==
    /\ t.client = "web"
    /\ Exists(t.user)
    /\ t.version = row[t.user].version
    /\ ~TemporaryExpired(t.user)

MobileMayRefresh(t) ==
    /\ t.client = "mobile"
    /\ Exists(t.user) /\ row[t.user].active /\ row[t.user].role = "guardian"
    /\ t.version = row[t.user].version
    /\ ~TemporaryExpired(t.user)

StartRefresh(r, s) ==
    /\ pc[r] = "idle"
    /\ "refresh" \in menu
    /\ token[s] # None /\ token[s].refresh
    /\ WebMayRefresh(token[s]) \/ MobileMayRefresh(token[s])
    /\ pc' = [pc EXCEPT ![r] = "refresh"]
    /\ req' = [req EXCEPT ![r] = [session |-> s, pair |-> token[s]]]
    /\ UNCHANGED <<tables, token, lock>>

Finish(r) ==
    /\ pc' = [pc EXCEPT ![r] = "idle"]
    /\ req' = [req EXCEPT ![r] = None]

Rotated(pair) == [pair EXCEPT !.access = TRUE, !.refresh = TRUE]

\* Mutant: the new pair takes the version the account has by now.
RotatedNow(pair) ==
    [pair EXCEPT !.access = TRUE, !.refresh = TRUE, !.version = row[pair.user].version]

IssuePair(pair) == Rotated(pair)

\* SimpleJWT looks at is_active and the blacklist once more, blacklists the old
\* token and hands out the new pair; the old access token lives its minutes.
IssueTokens(r) ==
    LET old == req[r].session IN
    /\ pc[r] = "refresh"
    /\ IF token[old] # None /\ token[old].refresh /\ row[req[r].pair.user].active
       THEN \E s \in Sessions :
              /\ Unused(s)
              /\ token' = [token EXCEPT ![old].refresh = FALSE, ![s] = IssuePair(req[r].pair)]
       ELSE UNCHANGED token
    /\ Finish(r)
    /\ UNCHANGED <<tables, lock>>

\* Signing out ends the refresh token only; it needs no valid access token and
\* may be repeated.
Blacklist(s) ==
    /\ token' = [token EXCEPT ![s].refresh = FALSE]
    /\ UNCHANGED <<tables, lock, pc, req>>

WebLogout(s) == token[s] # None /\ token[s].client = "web" /\ Blacklist(s)

MobileLogout(s) == token[s] # None /\ token[s].client = "mobile" /\ Blacklist(s)

\* Lifetimes: 15 minutes for an access token, 7 days for a refresh token.
AccessExpires(s) ==
    /\ token[s] # None /\ token[s].access
    /\ token' = [token EXCEPT ![s].access = FALSE]
    /\ UNCHANGED <<tables, lock, pc, req>>

\* The old session of a request that is under way is not used again before its end.
Forgotten(s) ==
    /\ token[s] # None /\ ~token[s].access
    /\ \A r \in Requests : pc[r] # "idle" => req[r].session # s
    /\ token' = [token EXCEPT ![s] = None]
    /\ UNCHANGED <<tables, lock, pc, req>>

TemporaryLapses(u) ==
    /\ Exists(u) /\ row[u].expires = "later"
    /\ row' = [row EXCEPT ![u].expires = "past"]
    /\ UNCHANGED <<perms, scope, links, menu, revoked, patched, token, lock, pc, req>>

-----------------------------------------------------------------------------
(* Requests of signed-in users *)

Authenticated(r, s, op) ==
    /\ pc[r] = "idle"
    /\ op \in menu
    /\ Authentic(token[s])
    /\ token[s].access
    /\ MayUse(token[s].user, row[token[s].user], op, token[s].client)

\* The bound: every request under way may still revoke the account.
Room(t) == revoked[t] + Cardinality({x \in Requests : pc[x] # "idle"}) + 2 <= MaxVersion

\* The body of a request: the fields that it may have.
Body == [role |-> None, scope |-> None, codes |-> {}, active |-> TRUE]

Accept(r, s, op, t, arg) ==
    /\ Room(t)
    /\ pc' = [pc EXCEPT ![r] = op]
    /\ req' = [req EXCEPT ![r] =
         [actor |-> token[s].user, me |-> row[token[s].user], session |-> s,
          client |-> token[s].client, target |-> t, was |-> row[t], arg |-> arg,
          admins |-> {}]]
    /\ UNCHANGED <<tables, token, lock>>

\* Both ask for the present password, compared with the copy in `me`.
StartChangePassword(r, s) ==
    /\ Authenticated(r, s, "change_password")
    /\ row[token[s].user].password # "unusable"
    /\ Accept(r, s, "change_password", token[s].user, Body)

StartDelete(r, s) ==
    /\ Authenticated(r, s, "delete")
    /\ row[token[s].user].password # "unusable"
    /\ Accept(r, s, "delete", token[s].user, Body)

StartUpdateMe(r, s) ==
    /\ Authenticated(r, s, "update_me")
    /\ Accept(r, s, "update_me", token[s].user, Body)

StartSetActive(r, s, t, active) ==
    /\ Authenticated(r, s, "set_active")
    /\ Exists(t) /\ VisibleTo(token[s].user, row[token[s].user], t)
    /\ CanSetActive(token[s].user, row[token[s].user], t, row[t])
    /\ Accept(r, s, "set_active", t, [Body EXCEPT !.active = active])

StartReset(r, s, t) ==
    /\ Authenticated(r, s, "reset")
    /\ Exists(t) /\ VisibleTo(token[s].user, row[token[s].user], t)
    /\ CanReset(token[s].user, row[token[s].user], t, row[t])
    /\ Accept(r, s, "reset", t, Body)

\* UserCreateSerializer.validate
StartCreate(r, s, t, role, sc) ==
    /\ Authenticated(r, s, "create")
    /\ ~Exists(t) /\ t \notin Superusers
    /\ CanCreateRole(token[s].user, row[token[s].user], role)
    /\ role = "supervisor" <=> sc # None
    /\ role = "supervisor" => CanChangeRole(token[s].user, row[token[s].user], t)
    /\ Accept(r, s, "create", t, [Body EXCEPT !.role = role, !.scope = sc])

\* UserUpdateSerializer.validate; a role of None is a patch without that field.
StartUpdate(r, s, t, role, sc) ==
    LET a == token[s].user
        new == IF role = None THEN row[t].role ELSE role
    IN  /\ Authenticated(r, s, "update")
        /\ Exists(t) /\ VisibleTo(a, row[a], t)
        /\ CanManage(a, row[a], t, row[t])
        /\ role # None \/ sc # None => CanChangeRole(a, row[a], t)
        /\ new # row[t].role /\ new = "supervisor" => sc # None
        /\ sc # None => new = "supervisor"
        /\ Accept(r, s, "update", t, [Body EXCEPT !.role = role, !.scope = sc])

StartReplace(r, s, t, codes) ==
    /\ Authenticated(r, s, "replace")
    /\ Exists(t)
    /\ Accept(r, s, "replace", t, [Body EXCEPT !.codes = codes])

-----------------------------------------------------------------------------
(* Their transactions *)

Free(u) == lock[u] = None

\* increment_token_version, together with what makes it necessary.
Revoking(u, new) ==
    /\ row' = [row EXCEPT ![u] = [new EXCEPT !.version = @ + 1]]
    /\ revoked' = [revoked EXCEPT ![u] = @ + 1]

Refused(r) ==
    /\ Finish(r)
    /\ UNCHANGED <<tables, token, lock>>

\* The whole list of a role replaces whatever the account had.
GrantDefaults(u, role) == perms' = [perms EXCEPT ![u] = Template(role)]

\* set_supervisor_scope replaces type and stages together.
SetScope(u, sc) == scope' = [scope EXCEPT ![u] = sc]

CreateAccount(r) ==
    LET t == req[r].target IN
    /\ pc[r] = "create"
    /\ IF Exists(t)
       THEN Refused(r)
       ELSE /\ row' = [row EXCEPT ![t] =
                 [role |-> req[r].arg.role, active |-> TRUE, version |-> 1,
                  password |-> "temporary", mustChange |-> TRUE, expires |-> "later"]]
            /\ GrantDefaults(t, req[r].arg.role)
            /\ SetScope(t, req[r].arg.scope)
            /\ Finish(r)
            /\ UNCHANGED <<links, menu, revoked, patched, token, lock>>

\* Mutant: reactivated accounts find their old sessions alive.
SetActiveQuietly(r) ==
    LET t == req[r].target IN
    /\ pc[r] = "set_active"
    /\ Free(t)
    /\ row' = [row EXCEPT ![t].active = req[r].arg.active]
    /\ revoked' = IF req[r].arg.active THEN revoked ELSE [revoked EXCEPT ![t] = @ + 1]
    /\ Finish(r)
    /\ UNCHANGED <<perms, scope, links, menu, patched, token, lock>>

SetActive(r) ==
    LET t == req[r].target IN
    /\ pc[r] = "set_active"
    /\ Free(t)
    /\ IF \/ ~CanSetActive(req[r].actor, req[r].me, t, row[t])
          \/ row[t].active = req[r].arg.active
       THEN Refused(r)
       ELSE /\ IF req[r].arg.active
               THEN row' = [row EXCEPT ![t].active = TRUE] /\ UNCHANGED revoked
               ELSE Revoking(t, [row[t] EXCEPT !.active = FALSE])
            /\ Finish(r)
            /\ UNCHANGED <<perms, scope, links, menu, patched, token, lock>>

\* Mutant: the temporary password is written without its obligation.
WithTemporaryOnly(old) == [old EXCEPT !.password = "temporary", !.expires = "later"]

\* assign_temporary_password
WithTemporary(old) ==
    [old EXCEPT !.password = "temporary", !.mustChange = TRUE, !.expires = "later"]

ResetPassword(r) ==
    LET t == req[r].target IN
    /\ pc[r] = "reset"
    /\ Free(t)
    /\ IF ~CanReset(req[r].actor, req[r].me, t, row[t])
       THEN Refused(r)
       ELSE /\ Revoking(t, WithTemporary(row[t]))
            /\ Finish(r)
            /\ UNCHANGED <<perms, scope, links, menu, patched, token, lock>>

\* The three columns are written whatever the row contains by now.  The web
\* view blacklists the refresh token of the request and opens a new session.
ChangePassword(r) ==
    LET u == req[r].actor
        s == req[r].session
        new == [row[u] EXCEPT !.password = "chosen", !.mustChange = FALSE, !.expires = "never"]
    IN  /\ pc[r] = "change_password"
        /\ Free(u)
        /\ Revoking(u, new)
        /\ token' = IF req[r].client = "mobile" THEN token ELSE [token EXCEPT ![s] = [user |-> u, client |-> "web",
                            version |-> row[u].version + 1, access |-> TRUE,
                            refresh |-> TRUE, era |-> revoked[u] + 1]]
        /\ Finish(r)
        /\ UNCHANGED <<perms, scope, links, menu, patched, lock>>

\* ModelSerializer.update saves every column of the copy made at authentication.
UpdateMe(r) ==
    LET u == req[r].actor IN
    /\ pc[r] = "update_me"
    /\ Free(u)
    /\ row' = [row EXCEPT ![u] = req[r].me]
    /\ patched' = IF row[u] = req[r].me THEN patched ELSE patched \cup {u}
    /\ Finish(r)
    /\ UNCHANGED <<perms, scope, links, menu, revoked, token, lock>>

\* Closing a guardian's account; what it leaves behind is module GuardianData.
DeleteGuardian(r) ==
    LET u == req[r].actor IN
    /\ pc[r] = "delete"
    /\ Free(u)
    /\ IF row[u].role # "guardian"
       THEN Refused(r)
       ELSE /\ Revoking(u, [row[u] EXCEPT !.active = FALSE, !.password = "unusable",
                                          !.mustChange = FALSE, !.expires = "never"])
            /\ perms' = [perms EXCEPT ![u] = {}]
            /\ links' = [links EXCEPT ![u] = {}]
            /\ token' = [s \in Sessions |->
                 IF token[s] # None /\ token[s].user = u
                 THEN [token[s] EXCEPT !.refresh = FALSE] ELSE token[s]]
            /\ Finish(r)
            /\ UNCHANGED <<scope, menu, patched, lock>>

\* Mutant: the scope of a former supervisor stays.
ScopeKept(t, role, sc) == IF role = "supervisor" THEN sc ELSE scope[t]

\* change_user_role drops the scope of a former supervisor and sets a new one's.
ScopeAfter(t, role, sc) == IF role = "supervisor" THEN sc ELSE None

\* change_user_role, on the locked row.
ChangeRole(r, t, role, sc) ==
    /\ Revoking(t, [row[t] EXCEPT !.role = role])
    /\ GrantDefaults(t, role)
    /\ SetScope(t, ScopeAfter(t, role, sc))

\* UserUpdateSerializer._update: a patch without a role asks for the role of the
\* copy it validated, and that may have changed since.
UpdateAccount(r) ==
    LET a == req[r].actor
        t == req[r].target
        role == IF req[r].arg.role = None THEN req[r].was.role ELSE req[r].arg.role
        sc == req[r].arg.scope
    IN  /\ pc[r] = "update"
        /\ Free(t)
        /\ IF \/ ~CanManage(a, req[r].me, t, row[t])
              \/ role # row[t].role /\ ~CanChangeRole(a, req[r].me, t)
              \/ role # row[t].role /\ role = "supervisor" /\ sc = None
           THEN Refused(r)
           ELSE /\ IF role # row[t].role
                   THEN ChangeRole(r, t, role, sc)
                   ELSE /\ SetScope(t, IF sc = None THEN scope[t] ELSE sc)
                        /\ UNCHANGED <<row, perms, revoked>>
                /\ Finish(r)
                /\ UNCHANGED <<links, menu, patched, token, lock>>

-----------------------------------------------------------------------------
(* replace_user_business_permissions *)

ActiveAdmins == {u \in Users \ Superusers :
                    Exists(u) /\ row[u].role = "school_admin" /\ row[u].active}

\* The query finds the administrators, then waits for their locks.
FindAdmins(r) ==
    /\ pc[r] = "replace"
    /\ pc' = [pc EXCEPT ![r] = "lock_admins"]
    /\ req' = [req EXCEPT ![r].admins = ActiveAdmins]
    /\ UNCHANGED <<tables, token, lock>>

\* Mutant: the administrators are read without FOR UPDATE.
ReadAdmins(r) ==
    /\ pc[r] = "lock_admins"
    /\ req' = [req EXCEPT ![r].admins = @ \cap ActiveAdmins]
    /\ pc' = [pc EXCEPT ![r] = "lock_target"]
    /\ UNCHANGED <<tables, token, lock>>

\* A row that changed during the wait is looked at again.
LockAdmins(r) ==
    /\ pc[r] = "lock_admins"
    /\ \A u \in req[r].admins : Free(u)
    /\ req' = [req EXCEPT ![r].admins = @ \cap ActiveAdmins]
    /\ lock' = [u \in Users |-> IF u \in req[r].admins \cap ActiveAdmins THEN r ELSE lock[u]]
    /\ pc' = [pc EXCEPT ![r] = "lock_target"]
    /\ UNCHANGED <<tables, token>>

Unlock(r) == lock' = [u \in Users |-> IF lock[u] = r THEN None ELSE lock[u]]

IsManager(u) == u \in ActiveAdmins /\ "manage_user_permissions" \in perms[u]

RemovesLastManager(r) ==
    LET t == req[r].target IN
    /\ IsManager(t)
    /\ "manage_user_permissions" \notin req[r].arg.codes
    /\ \A u \in req[r].admins \ {t} : "manage_user_permissions" \notin perms[u]

\* The target is locked and the decision taken; the new permissions become
\* visible with the commit, in CommitPermissions.
LockTarget(r) ==
    LET t == req[r].target IN
    /\ pc[r] = "lock_target"
    /\ lock[t] \in {None, r}
    /\ IF t = req[r].actor \/ IsSuperuser(t) \/ RemovesLastManager(r) \/ perms[t] = req[r].arg.codes
       THEN /\ Finish(r)
            /\ Unlock(r)
       ELSE /\ lock' = [lock EXCEPT ![t] = r]
            /\ pc' = [pc EXCEPT ![r] = "commit"]
            /\ UNCHANGED req
    /\ UNCHANGED <<tables, token>>

CommitPermissions(r) ==
    /\ pc[r] = "commit"
    /\ perms' = [perms EXCEPT ![req[r].target] = req[r].arg.codes]
    /\ Unlock(r)
    /\ Finish(r)
    /\ UNCHANGED <<row, scope, links, menu, revoked, patched, token>>

-----------------------------------------------------------------------------
StartOf(c) ==
    /\ row = [u \in Users |->
         IF c.staff[u] = None THEN None
         ELSE [role |-> c.staff[u], active |-> TRUE, version |-> 1, password |-> "chosen",
               mustChange |-> FALSE, expires |-> "never"]]
    /\ perms = [u \in Users |-> IF c.staff[u] = None THEN {} ELSE Template(c.staff[u])]
    /\ scope = [u \in Users |-> IF c.staff[u] = "supervisor"
                                THEN [type |-> "all", stages |-> {}] ELSE None]
    /\ links = [u \in Users |-> IF c.staff[u] = "guardian" THEN Children[u] ELSE {}]
    /\ token = [s \in Sessions |->
         IF c.signedIn[s] = None THEN None
         ELSE [user |-> c.signedIn[s], client |-> "web", version |-> 1,
               access |-> TRUE, refresh |-> TRUE, era |-> 0]]
    /\ menu = c.menu

Init ==
    /\ \E c \in Scenarios : StartOf(c)
    /\ lock = [u \in Users |-> None]
    /\ pc = [r \in Requests |-> "idle"]
    /\ req = [r \in Requests |-> None]
    /\ revoked = [u \in Users |-> 0]
    /\ patched = {}

Start(r) ==
    \E s \in Sessions :
        \/ StartRefresh(r, s)
        \/ StartChangePassword(r, s)
        \/ StartDelete(r, s)
        \/ StartUpdateMe(r, s)
        \/ \E t \in Users :
             \/ \E active \in BOOLEAN : StartSetActive(r, s, t, active)
             \/ StartReset(r, s, t)
             \/ \E role \in NewRoles, sc \in NewScopes \cup {None} : StartCreate(r, s, t, role, sc)
             \/ \E role \in NewRoles \cup {None}, sc \in NewScopes \cup {None} :
                  StartUpdate(r, s, t, role, sc)
             \/ \E codes \in Grants : StartReplace(r, s, t, codes)

Proceed(r) ==
    \/ IssueTokens(r)
    \/ CreateAccount(r)
    \/ SetActive(r)
    \/ ResetPassword(r)
    \/ ChangePassword(r)
    \/ UpdateMe(r)
    \/ DeleteGuardian(r)
    \/ UpdateAccount(r)
    \/ FindAdmins(r)
    \/ LockAdmins(r)
    \/ LockTarget(r)
    \/ CommitPermissions(r)

Browser(s) ==
    \/ \E u \in Users : WebLogin(u, s) \/ MobileLogin(u, s)
    \/ WebLogout(s)
    \/ MobileLogout(s)
    \/ AccessExpires(s)
    \/ Forgotten(s)

Next ==
    \/ \E r \in Requests : Start(r) \/ Proceed(r)
    \/ "browse" \in menu /\ \E s \in Sessions : Browser(s)
    \/ "browse" \in menu /\ \E u \in Users : TemporaryLapses(u)

Spec == Init /\ [][Next]_vars

-----------------------------------------------------------------------------
(* Properties *)

TokenOK(t) ==
    /\ t.user \in Users /\ Exists(t.user)
    /\ t.client \in {"web", "mobile"}
    /\ t.version \in Nat \ {0}
    /\ t.era \in Nat
    /\ t.access \in BOOLEAN /\ t.refresh \in BOOLEAN

\* Types; a lock is held only by a request that replaces permissions, and
\* whoever signs in with a temporary password has to choose another.
TypeOK ==
    /\ row \in [Users -> Rows \cup {None}]
    /\ perms \in [Users -> SUBSET Codes]
    /\ scope \in [Users -> Scopes \cup {None}]
    /\ links \in [Users -> SUBSET Stages]
    /\ \A s \in Sessions : token[s] = None \/ TokenOK(token[s])
    /\ lock \in [Users -> Requests \cup {None}]
    /\ pc \in [Requests -> Ops \cup {"idle", "lock_admins", "lock_target", "commit"}]
    /\ \A u \in Users : lock[u] # None => pc[lock[u]] \in {"lock_target", "commit"}
    /\ \A u \in Users : Exists(u) => (row[u].mustChange <=> row[u].password = "temporary")

\* A session ended by a deactivation, a password change or reset, a change of
\* role or the closing of the account is never accepted again: not after a
\* refresh that was under way, and not when the account is active again.  The
\* only thing that can bring it back is a profile patch, which writes an older
\* copy of the account (WebMeUpdateSerializer).
RevokedStaysOut ==
    \A s \in Sessions :
        Authentic(token[s]) => \/ token[s].era = revoked[token[s].user]
                              \/ token[s].user \in patched

Managers == {u \in Users : IsManager(u)}

\* Replacing permissions never leaves the school without an active
\* administrator who can manage permissions, whatever two managers do to each
\* other at the same time (a change of role or a deactivation may).
ManagersRemain ==
    [][\A r \in Requests :
         pc[r] = "commit" /\ pc'[r] = "idle" => Managers = {} \/ Managers' # {}]_vars

\* Exactly the supervisors have a scope, though role and scope live in two
\* tables that several requests change.
ScopeMatchesRole ==
    \A u \in Users \ patched :
        Exists(u) => (row[u].role = "supervisor" <=> scope[u] # None)

=============================================================================
