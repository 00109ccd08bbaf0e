-------------------------------- MODULE Access --------------------------------
(***************************************************************************)
(* Users and what they may do: logins, changes of a user, the user that a  *)
(* job makes for a new member, roles and their permissions, and the cache  *)
(* of rights that every request consults.                                  *)
(*                                                                         *)
(* Abstractions: a token is its user, and does not expire; the rights of a *)
(* user are a set of permissions; the catalogue of permissions is complete *)
(* (nobody holds a role before a first bootstrap filled it).               *)
(***************************************************************************)
EXTENDS Naturals, SequencesExt

CONSTANTS
  User,        \* users there may be
  Email,       \* addresses, as they are typed
  Lower,       \* [Email -> Email]: an address in lower case
  Password,    \* passwords
  Temporal,    \* the passwords that randomString and the bootstrap give
  Policy,      \* versions of the policies
  Church,      \* churches
  Permission,  \* permissions
  Role,        \* ids of roles
  BaseRoles,   \* the roles of rbacRoles.json, in its order
  Base,        \* [Role -> SUBSET Permission]: their permissions
  Name,        \* names of roles made by hand
  Needed,      \* [operation -> permission or Missing]: what Can asks for
  Order,       \* the requests that may be sent
  Staff,       \* [User -> document or Missing]: the users at the start
  Held,        \* [User -> set of roles or Missing]: their roles
  Request,     \* slots for running requests
  Missing,     \* undefined or null
  MaxRequests, \* bound: requests
  MaxTroubles  \* bound: errors, crashes and lost dispatches

Maybe(S) == S \union {Missing}

(* The workers, each with its queue; Congregation has jobs for the last.   *)
Joiner    == "CreateUserForMemberJob"
Booter    == "BootstrapPermissionsJob"
Onboarder == "OnboardingCustomerJob"
Worker == {Joiner, Booter, Onboarder}
Actor  == Request \union Worker

UserDoc == [email : Email, password : Password, active : BOOLEAN,
            policy : Maybe(Policy), church : Church, member : BOOLEAN]

(* The requests on users and rights; Congregation has those on people.     *)
AccountOps ==
  {"look", "assign", "permit", "addRole", "bootstrap", "login", "change",
   "recover", "accept", "edit", "create"}
AccountRequest ==
  [op : {"look"}, caller : User]
  \union [op : {"assign", "bootstrap"}, caller : User, user : User,
          roles : SUBSET Role]
  \union [op : {"permit"}, caller : User, role : Role,
          permissions : SUBSET Permission]
  \union [op : {"addRole"}, caller : User, name : Name]
  \union [op : {"login"}, email : Email, password : Maybe(Password)]
  \union [op : {"change"}, email : Email, password : Password, new : Password]
  \union [op : {"recover"}, email : Email]
  \union [op : {"accept"}, caller : User, policy : Policy]
  \union [op : {"edit"}, caller : User, user : User, email : Email,
          active : BOOLEAN]
  \union [op : {"create"}, caller : User, email : Email, password : Password,
          church : Church]

ASSUME StartAssumption ==
  /\ Lower \in [Email -> Email] /\ \A e \in Email : Lower[Lower[e]] = Lower[e]
  /\ Base \in [Role -> SUBSET Permission]
  /\ BaseRoles \in Seq(Role) /\ IsInjective(BaseRoles)
  /\ {"ADMIN", "MEMBER"} \subseteq Range(BaseRoles)
  /\ Temporal \in Password
(* The staff: addresses of their own, and a member has been given a role.  *)
ASSUME StaffAssumption ==
  /\ Staff \in [User -> Maybe(UserDoc)]
  /\ Held \in [User -> Maybe(SUBSET Range(BaseRoles))]
  /\ \A u \in User : Held[u] # Missing => Staff[u] # Missing
  /\ \A u \in User : Staff[u] # Missing =>
       /\ Staff[u].member => Held[u] # Missing
       /\ \A v \in User \ {u} : Staff[v] = Missing \/ Staff[v].email # Staff[u].email
ASSUME OrderAssumption ==
  \A o \in Order : o.op \in AccountOps => o \in AccountRequest
ASSUME MissingAssumption ==
  /\ Missing \notin User /\ Missing \notin UserDoc
  /\ \A R \in SUBSET Role : R # Missing
  /\ \A P \in SUBSET Permission : P # Missing
  /\ Missing \notin Role \union Name
  /\ \A c \in Church, r \in Role : <<c, r>> # Missing
ASSUME BoundAssumption == {MaxRequests, MaxTroubles} \subseteq Nat
ASSUME SlotAssumption == Request \intersect Worker = {}

VARIABLES
  users,     \* the collection bk_users
  roles,     \* the collection roles: the name of each role of each church
  grants,    \* the collection role_permissions
  assigned,  \* the collection user_assignments
  cache,     \* the rights cached for each user
  act,       \* what each request and each worker is doing
  jobs,      \* the jobs of each queue; the head is the one being run
  told,      \* history: what was last asked for, of users and of grants
  incidents, \* history: what the code does not set right
  used       \* how much of each bound is spent

vars == <<users, roles, grants, assigned, cache, act, jobs, told, incidents,
          used>>

Idle == [step |-> "idle"]
Running(order, step) ==
  [step |-> step, order |-> order, roles |-> {}, rights |-> {}, of |-> Missing,
   copy |-> Missing, left |-> {}, at |-> 1]

SetUp == {Staff[u].church : u \in {v \in User : Staff[v] # Missing}}

Init ==
  /\ users = Staff
  /\ roles = [c \in Church |-> [r \in Role |->
                IF c \in SetUp /\ r \in Range(BaseRoles) THEN r ELSE Missing]]
  /\ grants = [c \in Church |-> [r \in Role |->
                 IF c \in SetUp /\ r \in Range(BaseRoles) THEN Base[r] ELSE {}]]
  /\ assigned = Held
  /\ cache = [u \in User |-> Missing]
  /\ act = [a \in Actor |-> Idle]
  /\ jobs = [w \in Worker |-> <<>>]
  /\ told = [users |-> users, grants |-> grants]
  /\ incidents = [overlooked |-> {}, torn |-> {}, stale |-> {}, careless |-> {},
                  orphans |-> {}]
  /\ used = [requests |-> 0, troubles |-> 0]
-----------------------------------------------------------------------------
At(a, step, ops) == act[a].step = step /\ act[a].order.op \in ops

Go(a, new) == act' = [act EXCEPT ![a] = new]
Step(a, step) == Go(a, [act[a] EXCEPT !.step = step])

(* The end of a request, or of a job, which leaves its queue.              *)
End(a) == Go(a, Idle)
EndJobs(a) == IF a \in Worker THEN [jobs EXCEPT ![a] = Tail(@)] ELSE jobs

Known == {u \in User : users[u] # Missing}
WithEmail(e) == {u \in Known : users[u].email = e}
Free == User \ Known
Home(u) == users[u].church

RolesOf(u) == IF assigned[u] = Missing THEN {} ELSE assigned[u]
Holders(c, r) == {u \in Known : Home(u) = c /\ r \in RolesOf(u)}
Granting(c, R) == UNION {grants[c][r] : r \in R}
Rights(u) == Granting(Home(u), RolesOf(u))

(* The church and the role an actor is about to insert permissions for.    *)
Replacing(a) ==
  IF act[a].step # "insert" THEN Missing
  ELSE LET o == act[a].order
       IN IF o.op = "permit" THEN <<Home(o.caller), o.role>>
          ELSE <<o.church, BaseRoles[act[a].at]>>

(* The users whose entry a request is still going to invalidate.           *)
Announced(a) ==
  IF act[a].step = "invalidate" THEN act[a].left
  ELSE IF act[a].step \in {"insert", "holders"} /\ act[a].order.op = "permit"
       THEN Holders(Home(act[a].order.caller), act[a].order.role)
  ELSE IF act[a].step \in {"insert", "role", "assign"}
            /\ act[a].order.op = "bootstrap"
       THEN {act[a].order.user}
  ELSE {}
-----------------------------------------------------------------------------
(* A request arrives; all but the logins and the recovery carry a token.   *)
Begin(q, o) ==
  /\ act[q] = Idle /\ used.requests < MaxRequests
  /\ "caller" \in DOMAIN o => o.caller \in Known
  /\ "user" \in DOMAIN o => o.user \in Known /\ Home(o.user) = Home(o.caller)
  /\ Go(q, Running(IF o.op = "bootstrap"
                   THEN [op |-> o.op, caller |-> o.caller, user |-> o.user,
                         roles |-> o.roles, church |-> Home(o.caller)]
                   ELSE o,
                   IF "caller" \in DOMAIN o THEN "resolve" ELSE "do"))
  /\ used' = [used EXCEPT !.requests = @ + 1]
  /\ UNCHANGED <<users, roles, grants, assigned, cache, jobs, told, incidents>>

(* Can: the request goes on if the rights found hold what it needs.        *)
Decided(a, rights) ==
  IF Needed[act[a].order.op] \in rights \union {Missing}
  THEN [act[a] EXCEPT !.step = "do", !.rights = {}, !.roles = {}] ELSE Idle

(* resolveAuthorization, up to the read of the assignment.                 *)
Resolve(q) ==
  LET u == act[q].order.caller
      found == RolesOf(u)
  IN /\ act[q].step = "resolve"
     /\ Go(q, IF cache[u] # Missing THEN Decided(q, cache[u])
              ELSE [act[q] EXCEPT !.roles = found,
                                  !.step = IF found = {} THEN "fill" ELSE "grants"])
     /\ UNCHANGED <<users, roles, grants, assigned, cache, jobs, told,
                    incidents, used>>

ReadGrants(q) ==
  /\ act[q].step = "grants"
  /\ Go(q, [act[q] EXCEPT !.step = "fill",
              !.rights = Granting(Home(act[q].order.caller), act[q].roles)])
  /\ UNCHANGED <<users, roles, grants, assigned, cache, jobs, told, incidents,
                 used>>

(* The cache is filled with what was read, current or not.                 *)
Fill(q) ==
  LET u == act[q].order.caller
      found == act[q].rights
  IN /\ act[q].step = "fill"
     /\ cache' = [cache EXCEPT ![u] = found]
     /\ Go(q, Decided(q, found))
     /\ incidents' = [incidents EXCEPT !.overlooked =
                        IF found = Rights(u) THEN @ \ {u} ELSE @ \union {u}]
     /\ UNCHANGED <<users, roles, grants, assigned, jobs, told, used>>

(* An entry outlives 300 seconds.                                          *)
Expire(u) ==
  /\ cache[u] # Missing
  /\ cache' = [cache EXCEPT ![u] = Missing]
  /\ incidents' = [incidents EXCEPT !.overlooked = @ \ {u}]
  /\ UNCHANGED <<users, roles, grants, assigned, act, jobs, told, used>>

(* Any other request: reading the roles, or another module's endpoint.     *)
Look(q) ==
  /\ At(q, "do", {"look"})
  /\ End(q)
  /\ UNCHANGED <<users, roles, grants, assigned, cache, jobs, told, incidents,
                 used>>
-----------------------------------------------------------------------------
(* AssignRolesToUser: roles of the church replace those the user had.      *)
AssignRoles(q) ==
  LET o == act[q].order
      known == {r \in Role : roles[Home(o.caller)][r] # Missing}
  IN /\ At(q, "do", {"assign"})
     /\ IF o.roles \subseteq known
        THEN /\ assigned' = [assigned EXCEPT ![o.user] = o.roles]
             /\ Go(q, [act[q] EXCEPT !.step = "invalidate", !.left = {o.user}])
        ELSE End(q) /\ UNCHANGED assigned
     /\ UNCHANGED <<users, roles, grants, cache, jobs, told, incidents, used>>

(* invalidateUserCache, for the users found, in any order.                 *)
Invalidate(q) ==
  /\ act[q].step = "invalidate"
  /\ IF act[q].left = {}
     THEN End(q) /\ UNCHANGED <<cache, incidents>>
     ELSE \E u \in act[q].left :
            /\ cache' = [cache EXCEPT ![u] = Missing]
            /\ incidents' = [incidents EXCEPT !.overlooked = @ \ {u}]
            /\ Go(q, IF act[q].left = {u} THEN Idle
                     ELSE [act[q] EXCEPT !.left = @ \ {u}])
  /\ UNCHANGED <<users, roles, grants, assigned, jobs, told, used>>

(* CreateRole looks for the name, then stores a role with a fresh id.      *)
FindRole(q) ==
  LET o == act[q].order
      c == Home(o.caller)
  IN /\ At(q, "do", {"addRole"})
     /\ IF \E r \in Role : roles[c][r] = o.name THEN End(q) ELSE Step(q, "name")
     /\ UNCHANGED <<users, roles, grants, assigned, cache, jobs, told,
                    incidents, used>>

StoreRole(q) ==
  LET o == act[q].order
      c == Home(o.caller)
  IN /\ act[q].step = "name"
     /\ End(q)
     /\ \E r \in Role \ Range(BaseRoles) :
          /\ roles[c][r] = Missing
          /\ roles' = [roles EXCEPT ![c][r] = o.name]
     /\ UNCHANGED <<users, grants, assigned, cache, jobs, told, incidents, used>>
-----------------------------------------------------------------------------
(* replacePermissions empties the role, then inserts what it was given; it *)
(* is torn while another replacement of the same role is under way.        *)
Emptied(c, r) == [grants EXCEPT ![c][r] = {}]
Filled(c, r, P) == [grants EXCEPT ![c][r] = @ \union P]
Tell(c, r, P) == [told EXCEPT !.grants[c][r] = P]
Others(a, c, r) == {b \in Actor \ {a} : Replacing(b) = <<c, r>>}

Untorn(a, c, r) ==
  [incidents EXCEPT !.torn = IF Others(a, c, r) = {} THEN @ \ {<<c, r>>} ELSE @]
Torn(a, c, r) ==
  [incidents EXCEPT !.torn = IF Others(a, c, r) = {} THEN @ ELSE @ \union {<<c, r>>}]

(* Variant with a bug: what the role had is not removed.                   *)
EmptyRoleKeeping(q) ==
  LET o == act[q].order
      c == Home(o.caller)
  IN /\ At(q, "do", {"permit"})
     /\ IF roles[c][o.role] = Missing THEN End(q) ELSE Step(q, "insert")
     /\ UNCHANGED <<users, roles, grants, assigned, cache, jobs, told,
                    incidents, used>>

(* AssignPermissionsToRole, to the removal of the permissions of the role. *)
EmptyRole(q) ==
  LET o == act[q].order
      c == Home(o.caller)
  IN /\ At(q, "do", {"permit"})
     /\ IF roles[c][o.role] = Missing
        THEN End(q) /\ UNCHANGED <<grants, told, incidents>>
        ELSE /\ grants' = Emptied(c, o.role)
             /\ incidents' = Untorn(q, c, o.role)
             /\ IF o.permissions = {}
                THEN Step(q, "holders") /\ told' = Tell(c, o.role, {})
                ELSE Step(q, "insert") /\ UNCHANGED told
     /\ UNCHANGED <<users, roles, assigned, cache, jobs, used>>

FillRole(q) ==
  LET o == act[q].order
      c == Home(o.caller)
  IN /\ At(q, "insert", {"permit"})
     /\ Step(q, "holders")
     /\ grants' = Filled(c, o.role, o.permissions)
     /\ told' = Tell(c, o.role, o.permissions)
     /\ incidents' = Torn(q, c, o.role)
     /\ UNCHANGED <<users, roles, assigned, cache, jobs, used>>

(* Variant with a bug: findOne where find was meant.                       *)
FindHolder(q) ==
  LET found == Holders(Home(act[q].order.caller), act[q].order.role)
  IN /\ act[q].step = "holders"
     /\ \E H \in {{u} : u \in found} \union (IF found = {} THEN {{}} ELSE {}) :
          Go(q, [act[q] EXCEPT !.step = "invalidate", !.left = H])
     /\ UNCHANGED <<users, roles, grants, assigned, cache, jobs, told,
                    incidents, used>>

(* invalidateCacheForRole, the users read after the write.                 *)
FindHolders(q) ==
  LET o == act[q].order
  IN /\ act[q].step = "holders"
     /\ Go(q, [act[q] EXCEPT !.step = "invalidate",
                             !.left = Holders(Home(o.caller), o.role)])
     /\ UNCHANGED <<users, roles, grants, assigned, cache, jobs, told,
                    incidents, used>>
-----------------------------------------------------------------------------
(* BootstrapPermissionsJob, run by its worker or within a request: each    *)
(* base role is stored if need be and its permissions are set again. Only  *)
(* the request invalidates an entry, that of its user.                     *)
Bootstraps == {"boot", "bootstrap"}

Overlooked(a, c, r) ==
  Holders(c, r) \ (IF act[a].order.op = "bootstrap" THEN {act[a].order.user} ELSE {})

StoreBaseRole(a) ==
  LET c == act[a].order.church
      r == BaseRoles[act[a].at]
  IN /\ At(a, "do", Bootstraps) \/ At(a, "role", Bootstraps)
     /\ roles' = [roles EXCEPT ![c][r] = r]
     /\ grants' = Emptied(c, r)
     /\ incidents' = [Untorn(a, c, r) EXCEPT !.overlooked =
                        @ \union Overlooked(a, c, r)]
     /\ Step(a, "insert")
     /\ UNCHANGED <<users, assigned, cache, jobs, told, used>>

FillBaseRole(a) ==
  LET o == act[a].order
      r == BaseRoles[act[a].at]
      last == act[a].at = Len(BaseRoles)
  IN /\ At(a, "insert", Bootstraps)
     /\ grants' = Filled(o.church, r, Base[r])
     /\ told' = Tell(o.church, r, Base[r])
     /\ incidents' = [Torn(a, o.church, r) EXCEPT !.overlooked =
                        @ \union Overlooked(a, o.church, r)]
     /\ Go(a, [act[a] EXCEPT !.at = IF last THEN @ ELSE @ + 1, !.of = o.user,
                 !.step = IF ~last THEN "role"
                          ELSE IF o.user = Missing THEN "user" ELSE "assign"])
     /\ UNCHANGED <<users, roles, assigned, cache, jobs, used>>

(* CreateOrUpdateUser without an id: nothing looks for the address.        *)
NewUser(o, e, member) ==
  [email |-> Lower[e], password |-> o.password, active |-> TRUE,
   policy |-> Missing, church |-> o.church, member |-> member]

(* A user is made whenever the job brings one along, on a rerun too.       *)
CreateFounder(a) ==
  LET o == act[a].order
  IN /\ At(a, "user", {"boot"})
     /\ \E u \in Free :
          /\ users' = [users EXCEPT ![u] = NewUser(o, o.email, FALSE)]
          /\ told' = [told EXCEPT !.users[u] = NewUser(o, o.email, FALSE)]
          /\ Go(a, [act[a] EXCEPT !.step = "assign", !.of = u])
     /\ incidents' = [incidents EXCEPT !.careless = @ \union {Lower[o.email]}]
     /\ UNCHANGED <<roles, grants, assigned, cache, jobs, used>>

(* assignRoleToCreator, of any user: what the user had is replaced.        *)
AssignCreator(a) ==
  LET o == act[a].order
      u == act[a].of
  IN /\ At(a, "assign", Bootstraps)
     /\ assigned' = [assigned EXCEPT ![u] = o.roles]
     /\ IF o.op = "bootstrap"
        THEN /\ Go(a, [act[a] EXCEPT !.step = "invalidate", !.left = {u}])
             /\ UNCHANGED <<jobs, incidents>>
        ELSE /\ End(a) /\ jobs' = EndJobs(a)
             /\ incidents' = [incidents EXCEPT !.overlooked = @ \union {u}]
     /\ UNCHANGED <<users, roles, grants, cache, told, used>>
-----------------------------------------------------------------------------
(* The user a request is about: by address, whichever is found first, or   *)
(* by id.                                                                  *)
Sought(o) == CASE o.op \in {"login", "change", "recover"} -> WithEmail(o.email)
               [] o.op = "accept" -> {o.caller}
               [] o.op = "edit"   -> {o.user} \intersect Known

(* MakeLogin goes on for an active user with the right password; a social  *)
(* login has none to check.                                                *)
Passes(o, u) ==
  o.op \in {"login", "change"} =>
    users[u].active /\ o.password \in {Missing, users[u].password}

(* What the request makes of the copy it read. A login sets its date only. *)
Rewritten(o, copy) ==
  CASE o.op = "accept" -> [copy EXCEPT !.policy = o.policy]
    [] o.op = "edit"   -> [copy EXCEPT !.active = o.active, !.email = o.email]
    [] OTHER           -> copy

FindUser(q) ==
  LET o == act[q].order
  IN /\ At(q, "do", {"login", "change", "accept", "edit"})
     /\ IF Sought(o) = {} THEN End(q)
        ELSE \E u \in Sought(o) :
               Go(q, IF Passes(o, u)
                     THEN [act[q] EXCEPT !.step = "upsert", !.of = u,
                                         !.copy = users[u]]
                     ELSE Idle)
     /\ UNCHANGED <<users, roles, grants, assigned, cache, jobs, told,
                    incidents, used>>

(* The whole document is written back, with what was read of the rest. A   *)
(* change of password goes on to ChangePassword.                           *)
Upsert(q) ==
  LET o == act[q].order
      u == act[q].of
      copy == act[q].copy
  IN /\ act[q].step = "upsert"
     /\ users' = [users EXCEPT ![u] = Rewritten(o, copy)]
     /\ told' = [told EXCEPT !.users[u] = Rewritten(o, @)]
     /\ incidents' = [incidents EXCEPT
                        !.stale = IF copy # users[u] THEN @ \union {u} ELSE @,
                        !.careless = IF o.op = "edit" THEN @ \union {o.email} ELSE @]
     /\ IF o.op = "change" THEN Step(q, "find") ELSE End(q)
     /\ UNCHANGED <<roles, grants, assigned, cache, jobs, used>>

(* ChangePassword looks for the user again, and sets the password alone.   *)
FindAgain(q) ==
  /\ At(q, "do", {"recover"}) \/ At(q, "find", {"change"})
  /\ IF Sought(act[q].order) = {} THEN End(q)
     ELSE \E u \in Sought(act[q].order) :
            Go(q, [act[q] EXCEPT !.step = "password", !.of = u, !.copy = users[u]])
  /\ UNCHANGED <<users, roles, grants, assigned, cache, jobs, told, incidents,
                 used>>

NewPassword(o) == IF o.op = "recover" THEN Temporal ELSE o.new

(* Variant with a bug: the user is written back with the password.         *)
SetPasswordUpserting(q) ==
  LET u == act[q].of
      new == NewPassword(act[q].order)
  IN /\ act[q].step = "password"
     /\ users' = [users EXCEPT ![u] = [act[q].copy EXCEPT !.password = new]]
     /\ told' = [told EXCEPT !.users[u].password = new]
     /\ End(q)
     /\ UNCHANGED <<roles, grants, assigned, cache, jobs, incidents, used>>

SetPassword(q) ==
  LET u == act[q].of
      new == NewPassword(act[q].order)
  IN /\ act[q].step = "password"
     /\ users' = [users EXCEPT ![u].password = new]
     /\ told' = [told EXCEPT !.users[u].password = new]
     /\ End(q)
     /\ UNCHANGED <<roles, grants, assigned, cache, jobs, incidents, used>>

(* POST /create: a user of the church the payload names, without roles.    *)
CreateUser(q) ==
  LET o == act[q].order
  IN /\ At(q, "do", {"create"})
     /\ End(q)
     /\ \E u \in Free :
          /\ users' = [users EXCEPT ![u] = NewUser(o, o.email, FALSE)]
          /\ told' = [told EXCEPT !.users[u] = NewUser(o, o.email, FALSE)]
     /\ incidents' = [incidents EXCEPT !.careless = @ \union {Lower[o.email]}]
     /\ UNCHANGED <<roles, grants, assigned, cache, jobs, used>>
-----------------------------------------------------------------------------
(* A worker takes the head of its queue, and leaves it there until done.   *)
Take(w) ==
  /\ act[w] = Idle /\ jobs[w] # <<>>
  /\ Go(w, Running(Head(jobs[w]), "do"))
  /\ UNCHANGED <<users, roles, grants, assigned, cache, jobs, told, incidents,
                 used>>

(* Variant with a bug: the address is not looked for.                      *)
JoinCheckNone(w) ==
  /\ At(w, "do", {"join"})
  /\ Step(w, "create") /\ UNCHANGED jobs
  /\ UNCHANGED <<users, roles, grants, assigned, cache, told, incidents, used>>

(* CreateUserForMemberJob: nothing to do if a user has the address.        *)
JoinCheck(w) ==
  /\ At(w, "do", {"join"})
  /\ IF WithEmail(act[w].order.email) # {}
     THEN End(w) /\ jobs' = EndJobs(w)
     ELSE Step(w, "create") /\ UNCHANGED jobs
  /\ UNCHANGED <<users, roles, grants, assigned, cache, told, incidents, used>>

JoinCreate(w) ==
  LET o == act[w].order
  IN /\ At(w, "create", {"join"})
     /\ \E u \in Free :
          /\ users' = [users EXCEPT ![u] = NewUser(o, o.email, TRUE)]
          /\ told' = [told EXCEPT !.users[u] = NewUser(o, o.email, TRUE)]
          /\ Go(w, [act[w] EXCEPT !.step = "dispatch", !.of = u])
     /\ UNCHANGED <<roles, grants, assigned, cache, jobs, incidents, used>>

(* Variant with a bug: the job names the user found by the address.        *)
MemberJobByEmail(o, u) ==
  [op |-> "boot", church |-> o.church, email |-> Missing, password |-> Missing,
   roles |-> {"MEMBER"}, user |-> CHOOSE v \in WithEmail(o.email) : TRUE]

(* The job that is to give the new user its role.                          *)
MemberJob(o, u) ==
  [op |-> "boot", church |-> o.church, user |-> u, email |-> Missing,
   password |-> Missing, roles |-> {"MEMBER"}]

Orphan(u) == [incidents EXCEPT !.orphans = @ \union {u}]
Spend == used' = [used EXCEPT !.troubles = @ + 1]

(* The dispatch is not awaited, and its failure is only logged.            *)
JoinDispatch(w) ==
  LET o == act[w].order
      u == act[w].of
  IN /\ At(w, "dispatch", {"join"})
     /\ End(w)
     /\ \/ /\ jobs' = [EndJobs(w) EXCEPT ![Booter] = Append(@, MemberJob(o, u))]
           /\ UNCHANGED <<incidents, used>>
        \/ /\ used.troubles < MaxTroubles
           /\ Spend /\ jobs' = EndJobs(w) /\ incidents' = Orphan(u)
     /\ UNCHANGED <<users, roles, grants, assigned, cache, told>>
-----------------------------------------------------------------------------
(* What is left undone when an actor stops where it is.                    *)
Undone(S) ==
  [incidents EXCEPT
     !.overlooked = @ \union UNION {Announced(a) : a \in S},
     !.torn = @ \union {Replacing(a) : a \in {b \in S : Replacing(b) # Missing}},
     !.orphans = @ \union {act[a].of : a \in {b \in S : act[b].step = "dispatch"}}]

(* The user a failed job was to give its roles.                            *)
Lost(a) ==
  IF a = Booter /\ act[a].order.user # Missing THEN {act[a].order.user} ELSE {}

(* The database fails: the request is answered with an error, the job has  *)
(* no other attempt.                                                       *)
Fail(a) ==
  /\ used.troubles < MaxTroubles /\ act[a] # Idle
  /\ act[a].step # "dispatch"
  /\ incidents' = [Undone({a}) EXCEPT !.orphans = @ \union Lost(a)]
  /\ End(a) /\ jobs' = EndJobs(a)
  /\ Spend
  /\ UNCHANGED <<users, roles, grants, assigned, cache, told>>

(* The process stops: requests end where they are, jobs are run again from *)
(* their start. The cache is lost, or kept when it is Redis.               *)
Crash ==
  /\ used.troubles < MaxTroubles
  /\ \E a \in Actor : act[a] # Idle
  /\ incidents' = Undone(Actor)
  /\ act' = [a \in Actor |-> Idle]
  /\ cache' \in {cache, [u \in User |-> Missing]}
  /\ Spend
  /\ UNCHANGED <<users, roles, grants, assigned, jobs, told>>

RequestStep(q) ==
  \/ \E o \in Order : Begin(q, o)
  \/ Resolve(q) \/ ReadGrants(q) \/ Fill(q) \/ Look(q)
  \/ AssignRoles(q) \/ Invalidate(q) \/ FindRole(q) \/ StoreRole(q)
  \/ EmptyRole(q) \/ FillRole(q) \/ FindHolders(q)

BootstrapStep(a) == StoreBaseRole(a) \/ FillBaseRole(a) \/ AssignCreator(a)

(* Roles and permissions alone. The module Congregation adds the steps of  *)
(* users and of the workers.                                               *)
Next ==
  \/ \E q \in Request : RequestStep(q) \/ BootstrapStep(q)
  \/ \E u \in User : Expire(u)
  \/ \E a \in Actor : Fail(a)
  \/ Crash

Spec == Init /\ [][Next]_vars
-----------------------------------------------------------------------------
(* A cached entry holds the rights its user has, unless a request is still *)
(* to invalidate it, it was filled from reads older than a change, a       *)
(* bootstrap made the change, or an invalidation was cut short. A resolver *)
(* and the two requests that change rights interleave at every read.       *)
CacheFollows ==
  \A u \in User :
    cache[u] \notin {Missing, Rights(u)} =>
      \/ u \in incidents.overlooked
      \/ \E a \in Actor : u \in Announced(a)

(* A role has the permissions last given to it, unless replacements of it  *)
(* overlapped, one is between its removal and its insertion, or stopped    *)
(* there.                                                                  *)
GrantsFollow ==
  \A c \in Church : \A r \in Role :
    grants[c][r] # told.grants[c][r] =>
      \/ <<c, r>> \in incidents.torn
      \/ \E a \in Actor : Replacing(a) = <<c, r>>

(* A user has the password, the address, the state and the accepted policy *)
(* that were asked for last, unless a whole document was written back over *)
(* a change it had not read.                                               *)
LastWordKept ==
  \A u \in Known : users[u] = told.users[u] \/ u \in incidents.stale

(* Two users share an address only if it was given to one of them without  *)
(* looking, by an edit, by POST /create or by a bootstrap, or came back to *)
(* one of them with a whole document written over a change.  And the user  *)
(* made for a member has roles, or will: its job is queued, or about to    *)
(* be.  Otherwise the job was lost or failed, or a crash came between the  *)
(* user and the dispatch, after which the rerun finds a user.              *)
MembersGetOneUser ==
  /\ \A u, v \in Known :
       u # v /\ users[u].email = users[v].email =>
         users[u].email \in incidents.careless \/ {u, v} \intersect incidents.stale # {}
  /\ \A u \in Known :
       users[u].member /\ assigned[u] = Missing =>
         \/ u \in incidents.orphans
         \/ \E i \in DOMAIN jobs[Booter] : jobs[Booter][i].user = u
         \/ act[Joiner].step = "dispatch" /\ act[Joiner].of = u

TypeOK ==
  /\ users \in [User -> Maybe(UserDoc)]
  /\ roles \in [Church -> [Role -> Maybe(Role \union Name)]]
  /\ grants \in [Church -> [Role -> SUBSET Permission]]
  /\ assigned \in [User -> Maybe(SUBSET Role)]
  /\ cache \in [User -> Maybe(SUBSET Permission)]
  /\ \A u \in User : assigned[u] # Missing => u \in Known
===============================================================================
