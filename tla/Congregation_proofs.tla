-------------------------- MODULE Congregation_proofs --------------------------
(***************************************************************************)
(* Machine-checked proofs about users, their rights and the people of the  *)
(* churches, for every number of users, requests and troubles.             *)
(*                                                                         *)
(* What is stored is typed, and an actor goes on with what it read when it *)
(* started (Fits): a user it knows stays known, in the same church. Each   *)
(* property adds what it needs of the actors that are half-way.            *)
(***************************************************************************)
EXTENDS Congregation, SequenceTheorems, TLAPS

(***************************************************************************)
(* The strengthening: what is stored, the requests, and who runs them.     *)
(***************************************************************************)

(* The document of a user once stored keeps its church and its kind.       *)
StoreOK ==
  /\ TypeOK
  /\ told = [users |-> told.users, grants |-> told.grants]
  /\ told.users \in [User -> Maybe(UserDoc)]
  /\ told.grants \in [Church -> [Role -> SUBSET Permission]]
  /\ incidents = [overlooked |-> incidents.overlooked, torn |-> incidents.torn,
                  stale |-> incidents.stale, careless |-> incidents.careless,
                  orphans |-> incidents.orphans]
  /\ \A u \in User : cache[u] # Missing => u \in Known
  /\ \A u \in Known : told.users[u] # Missing

(* Jobs, by queue; those that bring a user along bring one that is stored. *)
JoinJobs ==
  {j \in [op : {"join"}, email : Email, password : Password, church : Church] :
     Lower[j.email] = j.email}
BootDoc ==
  [op : {"boot"}, church : Church, email : Maybe(Email),
   password : Maybe(Password), roles : SUBSET Role, user : Maybe(User)]
BootJobs ==
  {j \in BootDoc :
     /\ j.user # Missing => j.user \in Known /\ Home(j.user) = j.church
     /\ j.user = Missing => j.email \in Email /\ j.password \in Password}
OnboardJobs == [op : {"onboard"}, customer : Customer]

JobsOK ==
  /\ jobs = [w \in Worker |-> jobs[w]]
  /\ jobs[Joiner] \in Seq(JoinJobs)
  /\ jobs[Booter] \in Seq(BootJobs)
  /\ jobs[Onboarder] \in Seq(OnboardJobs)

(* The operations whose request carries a token, and those that name a     *)
(* user of the caller's church.                                            *)
Carrying ==
  {"look", "assign", "permit", "addRole", "bootstrap", "accept", "edit", "create",
   "addMember", "editMember", "assignChurch", "removeMinister", "editChurch",
   "saveMinister"}
Naming == {"assign", "bootstrap", "edit"}

(* The data of a request, by operation.                                    *)
WellFormed(o) ==
  /\ o.op \in Carrying \union {"login", "change", "recover", "apply", "complete"}
  /\ o.op \in {"assign", "bootstrap"} => o.roles \in SUBSET Role
  /\ o.op = "permit" => o.role \in Role /\ o.permissions \in SUBSET Permission
  /\ o.op = "addRole" => o.name \in Name
  /\ o.op \in {"login", "change", "recover", "edit", "create", "addMember",
               "editMember", "apply"} => o.email \in Email
  /\ o.op \in {"change", "create"} => o.password \in Password
  /\ o.op = "change" => o.new \in Password
  /\ o.op = "accept" => o.policy \in Policy
  /\ o.op = "edit" => o.active \in BOOLEAN
  /\ o.op \in {"create", "addMember", "assignChurch", "removeMinister",
               "editChurch"} => o.church \in Church
  /\ o.op = "addMember" => o.dni \in Dni
  /\ o.op \in {"assignChurch", "saveMinister"} => o.minister \in Minister
  /\ o.op = "complete" => o.customer \in Customer

RequestFits(o) ==
  /\ WellFormed(o)
  /\ o.op \in Carrying => o.caller \in Known
  /\ o.op \in Naming => o.user \in Known /\ Home(o.user) = Home(o.caller)
  /\ o.op = "bootstrap" => o.church = Home(o.caller)

IsRun(s) ==
  s = [step |-> s.step, order |-> s.order, roles |-> s.roles,
       rights |-> s.rights, of |-> s.of, copy |-> s.copy, left |-> s.left,
       at |-> s.at]

(* What an actor that runs has in hand, by the step it is at.              *)
Fits(a, s) ==
  /\ IsRun(s)
  /\ a \in Worker => jobs[a] # <<>> /\ s.order = Head(jobs[a])
  /\ a \in Request => RequestFits(s.order)
  /\ s.order.op \in Bootstraps => s.at \in DOMAIN BaseRoles
  /\ s.step # "idle"
  /\ s.step \in {"resolve", "grants", "fill"} =>
       /\ a \in Request /\ s.order.op \in Carrying
       /\ s.roles \in SUBSET Role /\ s.rights \in SUBSET Permission
  /\ s.step = "name" => s.order.op = "addRole"
  /\ s.step = "insert" => s.order.op \in {"permit"} \union Bootstraps
  /\ s.step = "holders" => s.order.op = "permit"
  /\ s.step \in {"role", "user", "assign"} => s.order.op \in Bootstraps
  /\ s.step = "user" => s.order.op = "boot" /\ s.order.user = Missing
  /\ s.step = "assign" =>
       /\ s.of \in Known /\ Home(s.of) = s.order.church
       /\ s.order.user \in {Missing, s.of}
  /\ s.step = "invalidate" => a \in Request /\ s.left \in SUBSET User
  /\ s.step = "upsert" => s.order.op \in {"login", "change", "accept", "edit"}
  /\ s.step \in {"find", "password"} => s.order.op \in {"change", "recover"}
  /\ s.step \in {"upsert", "password"} => s.of \in Known
  /\ s.step = "upsert" =>
       /\ s.copy \in UserDoc /\ s.copy.church = Home(s.of)
       /\ s.copy.member = users[s.of].member
  /\ s.step = "create" => a = Joiner
  /\ s.step = "dispatch" /\ a = Joiner =>
       s.of \in Known /\ Home(s.of) = s.order.church

ActOK ==
  /\ act = [a \in Actor |-> act[a]]
  /\ \A a \in Actor : act[a] = Idle \/ Fits(a, act[a])

Inv == StoreOK /\ JobsOK /\ ActOK

(***************************************************************************)
(* What an actor has in hand, and what others leave of it.                 *)
(***************************************************************************)

(* The users that are stored stay, each in its church and of its kind.     *)
Grown ==
  \A u \in Known : /\ u \in Known'
                   /\ users'[u].church = users[u].church
                   /\ users'[u].member = users[u].member

(* No job is taken from the queue of another actor.                        *)
HeadKept(w) == jobs[w] # <<>> => jobs'[w] # <<>> /\ Head(jobs'[w]) = Head(jobs[w])

(* An actor that runs, written out.                                        *)
Run(step, order, R, P, of, copy, left, at) ==
  [step |-> step, order |-> order, roles |-> R, rights |-> P, of |-> of,
   copy |-> copy, left |-> left, at |-> at]

(* Changes of one that runs, written out.                                  *)
LEMMA SetStep ==
  ASSUME NEW s, IsRun(s), NEW x
  PROVE  [s EXCEPT !.step = x] =
           Run(x, s.order, s.roles, s.rights, s.of, s.copy, s.left, s.at)
BY DEF IsRun, Run

LEMMA SetStepRightsRoles ==
  ASSUME NEW s, IsRun(s), NEW x, NEW y, NEW z
  PROVE  [s EXCEPT !.step = x, !.rights = y, !.roles = z] =
           Run(x, s.order, z, y, s.of, s.copy, s.left, s.at)
<1>1. PICK t1 : t1 = [s EXCEPT !.step = x] OBVIOUS
<1>2. PICK t2 : t2 = [t1 EXCEPT !.rights = y] OBVIOUS
<1>3. t1 = Run(x, s.order, s.roles, s.rights, s.of, s.copy, s.left, s.at)
  BY <1>1 DEF IsRun, Run
<1>4. t2 = Run(x, s.order, s.roles, y, s.of, s.copy, s.left, s.at)
  BY <1>2, <1>3 DEF IsRun, Run
<1>5. [s EXCEPT !.step = x, !.rights = y, !.roles = z] = [t2 EXCEPT !.roles = z]
  BY <1>1, <1>2 DEF IsRun
<1>6. QED BY <1>4, <1>5 DEF Run

LEMMA SetRolesStep ==
  ASSUME NEW s, IsRun(s), NEW x, NEW y
  PROVE  [s EXCEPT !.roles = x, !.step = y] =
           Run(y, s.order, x, s.rights, s.of, s.copy, s.left, s.at)
<1>1. PICK t1 : t1 = [s EXCEPT !.roles = x] OBVIOUS
<1>2. t1 = Run(s.step, s.order, x, s.rights, s.of, s.copy, s.left, s.at)
  BY <1>1 DEF IsRun, Run
<1>3. [s EXCEPT !.roles = x, !.step = y] = [t1 EXCEPT !.step = y]
  BY <1>1 DEF IsRun
<1>4. QED BY <1>2, <1>3 DEF Run

LEMMA SetStepRights ==
  ASSUME NEW s, IsRun(s), NEW x, NEW y
  PROVE  [s EXCEPT !.step = x, !.rights = y] =
           Run(x, s.order, s.roles, y, s.of, s.copy, s.left, s.at)
<1>1. PICK t1 : t1 = [s EXCEPT !.step = x] OBVIOUS
<1>2. t1 = Run(x, s.order, s.roles, s.rights, s.of, s.copy, s.left, s.at)
  BY <1>1 DEF IsRun, Run
<1>3. [s EXCEPT !.step = x, !.rights = y] = [t1 EXCEPT !.rights = y]
  BY <1>1 DEF IsRun
<1>4. QED BY <1>2, <1>3 DEF Run

LEMMA SetStepLeft ==
  ASSUME NEW s, IsRun(s), NEW x, NEW y
  PROVE  [s EXCEPT !.step = x, !.left = y] =
           Run(x, s.order, s.roles, s.rights, s.of, s.copy, y, s.at)
<1>1. PICK t1 : t1 = [s EXCEPT !.step = x] OBVIOUS
<1>2. t1 = Run(x, s.order, s.roles, s.rights, s.of, s.copy, s.left, s.at)
  BY <1>1 DEF IsRun, Run
<1>3. [s EXCEPT !.step = x, !.left = y] = [t1 EXCEPT !.left = y]
  BY <1>1 DEF IsRun
<1>4. QED BY <1>2, <1>3 DEF Run

LEMMA SetLeft ==
  ASSUME NEW s, IsRun(s), NEW x
  PROVE  [s EXCEPT !.left = x] =
           Run(s.step, s.order, s.roles, s.rights, s.of, s.copy, x, s.at)
BY DEF IsRun, Run

LEMMA SetAtOfStep ==
  ASSUME NEW s, IsRun(s), NEW x, NEW y, NEW z
  PROVE  [s EXCEPT !.at = x, !.of = y, !.step = z] =
           Run(z, s.order, s.roles, s.rights, y, s.copy, s.left, x)
<1>1. PICK t1 : t1 = [s EXCEPT !.at = x] OBVIOUS
<1>2. PICK t2 : t2 = [t1 EXCEPT !.of = y] OBVIOUS
<1>3. t1 = Run(s.step, s.order, s.roles, s.rights, s.of, s.copy, s.left, x)
  BY <1>1 DEF IsRun, Run
<1>4. t2 = Run(s.step, s.order, s.roles, s.rights, y, s.copy, s.left, x)
  BY <1>2, <1>3 DEF IsRun, Run
<1>5. [s EXCEPT !.at = x, !.of = y, !.step = z] = [t2 EXCEPT !.step = z]
  BY <1>1, <1>2 DEF IsRun
<1>6. QED BY <1>4, <1>5 DEF Run

LEMMA SetStepOf ==
  ASSUME NEW s, IsRun(s), NEW x, NEW y
  PROVE  [s EXCEPT !.step = x, !.of = y] =
           Run(x, s.order, s.roles, s.rights, y, s.copy, s.left, s.at)
<1>1. PICK t1 : t1 = [s EXCEPT !.step = x] OBVIOUS
<1>2. t1 = Run(x, s.order, s.roles, s.rights, s.of, s.copy, s.left, s.at)
  BY <1>1 DEF IsRun, Run
<1>3. [s EXCEPT !.step = x, !.of = y] = [t1 EXCEPT !.of = y]
  BY <1>1 DEF IsRun
<1>4. QED BY <1>2, <1>3 DEF Run

LEMMA SetStepOfCopy ==
  ASSUME NEW s, IsRun(s), NEW x, NEW y, NEW z
  PROVE  [s EXCEPT !.step = x, !.of = y, !.copy = z] =
           Run(x, s.order, s.roles, s.rights, y, z, s.left, s.at)
<1>1. PICK t1 : t1 = [s EXCEPT !.step = x] OBVIOUS
<1>2. PICK t2 : t2 = [t1 EXCEPT !.of = y] OBVIOUS
<1>3. t1 = Run(x, s.order, s.roles, s.rights, s.of, s.copy, s.left, s.at)
  BY <1>1 DEF IsRun, Run
<1>4. t2 = Run(x, s.order, s.roles, s.rights, y, s.copy, s.left, s.at)
  BY <1>2, <1>3 DEF IsRun, Run
<1>5. [s EXCEPT !.step = x, !.of = y, !.copy = z] = [t2 EXCEPT !.copy = z]
  BY <1>1, <1>2 DEF IsRun
<1>6. QED BY <1>4, <1>5 DEF Run

LEMMA SetStepCopy ==
  ASSUME NEW s, IsRun(s), NEW x, NEW y
  PROVE  [s EXCEPT !.step = x, !.copy = y] =
           Run(x, s.order, s.roles, s.rights, s.of, y, s.left, s.at)
<1>1. PICK t1 : t1 = [s EXCEPT !.step = x] OBVIOUS
<1>2. t1 = Run(x, s.order, s.roles, s.rights, s.of, s.copy, s.left, s.at)
  BY <1>1 DEF IsRun, Run
<1>3. [s EXCEPT !.step = x, !.copy = y] = [t1 EXCEPT !.copy = y]
  BY <1>1 DEF IsRun
<1>4. QED BY <1>2, <1>3 DEF Run

(* What a request is about stays as it was when it arrived.                *)
LEMMA RequestKept ==
  ASSUME NEW o, RequestFits(o), Grown
  PROVE  RequestFits(o)'
BY DEF RequestFits, WellFormed, Carrying, Naming, Grown, Known, Home

(* What an actor has in hand outlives the steps of the others.             *)
LEMMA FitsKept ==
  ASSUME NEW a \in Actor, NEW s, Fits(a, s), Grown, a \in Worker => HeadKept(a)
  PROVE  Fits(a, s)'
<1>1. a \in Request => RequestFits(s.order)' BY RequestKept DEF Fits
<1>2. s.step = "assign" => s.of \in Known' /\ (Home(s.of) = s.order.church)'
  BY DEF Fits, Grown, Home
<1>3. s.step \in {"upsert", "password"} => s.of \in Known' BY DEF Fits, Grown
<1>4. s.step = "upsert" => (s.copy.church = Home(s.of))' /\ (s.copy.member = users[s.of].member)'
  BY DEF Fits, Grown, Home
<1>5. s.step = "dispatch" /\ a = Joiner => s.of \in Known' /\ (Home(s.of) = s.order.church)'
  BY DEF Fits, Grown, Home
<1>6. a \in Worker => jobs'[a] # <<>> /\ s.order = Head(jobs'[a])
  BY DEF Fits, HeadKept
<1>7. QED BY <1>1, <1>2, <1>3, <1>4, <1>5, <1>6 DEF Fits, IsRun

(* One actor goes on, and the others have what they had.                   *)
LEMMA ActStep ==
  ASSUME ActOK, NEW q \in Actor, NEW n, act' = [act EXCEPT ![q] = n],
         n = Idle \/ Fits(q, n)', Grown,
         \A b \in Worker \ {q} : HeadKept(b)
  PROVE  /\ ActOK'
         /\ act'[q] = n
         /\ \A b \in Actor \ {q} : act'[b] = act[b]
<1>1. act'[q] = n /\ \A b \in Actor \ {q} : act'[b] = act[b]
  BY DEF ActOK
<1>2. act' = [a \in Actor |-> act'[a]]
  BY DEF ActOK
<1>3. ASSUME NEW a \in Actor PROVE (act[a] = Idle \/ Fits(a, act[a]))'
  <2>1. CASE a = q BY <1>1, <2>1 DEF Fits
  <2>2. CASE a # q
    <3>1. PICK s0 : s0 = act[a] OBVIOUS
    <3>2. s0 = Idle \/ Fits(a, s0) BY <3>1 DEF ActOK
    <3>3. s0 = Idle \/ Fits(a, s0)' BY <3>2, <2>2, FitsKept
    <3>4. act'[a] = s0 BY <1>1, <2>2, <3>1
    <3>5. QED BY <3>3, <3>4 DEF Fits
  <2>3. QED BY <2>1, <2>2
<1>4. QED BY <1>1, <1>2, <1>3 DEF ActOK

(* The requests that may be sent have the data of their operation.         *)
LEMMA OrderShapes ==
  ASSUME NEW o \in Order
  PROVE  /\ WellFormed(o)
         /\ "caller" \in DOMAIN o <=> o.op \in Carrying
         /\ "user" \in DOMAIN o <=> o.op \in Naming
         /\ o.op \in Carrying => o.caller \in User
         /\ o.op \in Naming => o.user \in User
<1>1. CASE o.op \in AccountOps
  <2>1. o \in AccountRequest BY <1>1, OrderAssumption
  <2>2. WellFormed(o) BY <2>1 DEF AccountRequest, WellFormed, Carrying
  <2>3. "caller" \in DOMAIN o <=> o.op \in Carrying
    BY <2>1 DEF AccountRequest, Carrying
  <2>4. "user" \in DOMAIN o <=> o.op \in Naming
    BY <2>1 DEF AccountRequest, Naming
  <2>5. /\ o.op \in Carrying => o.caller \in User
        /\ o.op \in Naming => o.user \in User
    BY <2>1 DEF AccountRequest, Naming, Carrying
  <2>6. QED BY <2>2, <2>3, <2>4, <2>5
<1>2. CASE o.op \notin AccountOps
  <2>1. o \in PeopleRequest BY <1>2, PeopleAssumption
  <2>2. WellFormed(o) BY <2>1 DEF PeopleRequest, WellFormed, Carrying
  <2>3. "caller" \in DOMAIN o <=> o.op \in Carrying
    BY <2>1 DEF PeopleRequest, Carrying
  <2>4. "user" \in DOMAIN o <=> o.op \in Naming
    BY <2>1 DEF PeopleRequest, Naming
  <2>5. /\ o.op \in Carrying => o.caller \in User
        /\ o.op \in Naming => o.user \in User
    BY <2>1 DEF PeopleRequest, Naming, Carrying
  <2>6. QED BY <2>2, <2>3, <2>4, <2>5
<1>3. QED BY <1>1, <1>2

(* An actor at a step has what that step needs.                            *)
LEMMA Going ==
  ASSUME ActOK, NEW a \in Actor, act[a].step # "idle"
  PROVE  Fits(a, act[a]) /\ IsRun(act[a])
BY DEF ActOK, Idle, Fits

(* A worker runs the head of its queue, of its queue's kind.               *)
LEMMA WorkerOrder ==
  ASSUME Inv, NEW a \in Worker, act[a].step # "idle"
  PROVE  /\ a = Joiner => act[a].order \in JoinJobs
         /\ a = Booter => act[a].order \in BootJobs
         /\ a = Onboarder => act[a].order \in OnboardJobs
         /\ jobs[a] # <<>> /\ act[a].order = Head(jobs[a])
<1>1. a \in Actor BY DEF Actor
<1>2. jobs[a] # <<>> /\ act[a].order = Head(jobs[a])
  BY <1>1, Going DEF Fits, Inv
<1>3. a = Joiner => act[a].order \in JoinJobs
  BY <1>2, HeadTailProperties DEF Inv, JobsOK
<1>4. a = Booter => act[a].order \in BootJobs
  BY <1>2, HeadTailProperties DEF Inv, JobsOK
<1>5. a = Onboarder => act[a].order \in OnboardJobs
  BY <1>2, HeadTailProperties DEF Inv, JobsOK
<1>6. QED BY <1>2, <1>3, <1>4, <1>5

(* Which actors run which operations.                                      *)
LEMMA WhoRuns ==
  ASSUME Inv, NEW a \in Actor, act[a].step # "idle"
  PROVE  /\ a \in Request => RequestFits(act[a].order)
         /\ act[a].order.op = "boot" => a = Booter
         /\ act[a].order.op = "join" => a = Joiner
         /\ act[a].order.op = "onboard" => a = Onboarder
         /\ act[a].order.op \notin {"boot", "join", "onboard"} => a \in Request
<1>1. a \in Request => RequestFits(act[a].order)
  BY Going DEF Fits, Inv
<1>2. a \in Request => act[a].order.op \notin {"boot", "join", "onboard"}
  BY <1>1 DEF RequestFits, WellFormed, Carrying
<1>3. a \in Worker =>
        /\ a = Joiner => act[a].order.op = "join"
        /\ a = Booter => act[a].order.op = "boot"
        /\ a = Onboarder => act[a].order.op = "onboard"
  BY WorkerOrder DEF JoinJobs, BootJobs, BootDoc, OnboardJobs
<1>4. QED BY <1>1, <1>2, <1>3 DEF Actor, Worker

(* A bootstrap is of a church, and of a user of it or of none yet.         *)
LEMMA Bootstrapping ==
  ASSUME Inv, NEW a \in Actor, act[a].step # "idle",
         act[a].order.op \in Bootstraps
  PROVE  LET o == act[a].order IN
         /\ o.church \in Church /\ o.roles \in SUBSET Role
         /\ o.user # Missing => o.user \in Known /\ Home(o.user) = o.church
         /\ o.op = "bootstrap" => a \in Request /\ o.user # Missing
         /\ o.op = "boot" => a = Booter
         /\ o.op = "boot" /\ o.user = Missing =>
              o.email \in Email /\ o.password \in Password
         /\ act[a].at \in DOMAIN BaseRoles /\ BaseRoles[act[a].at] \in Role
<1> DEFINE o == act[a].order
<1>1. act[a].at \in DOMAIN BaseRoles /\ BaseRoles[act[a].at] \in Role
  <2>1. act[a].at \in DOMAIN BaseRoles BY Going DEF Fits, Inv
  <2>2. QED BY <2>1, StartAssumption
<1>2. CASE o.op = "boot"
  <2>1. a = Booter BY <1>2, WhoRuns
  <2>2. o \in BootJobs BY <2>1, WorkerOrder DEF Worker
  <2>3. QED BY <1>1, <1>2, <2>1, <2>2 DEF BootJobs, BootDoc
<1>3. CASE o.op = "bootstrap"
  <2>1. a \in Request /\ RequestFits(o) BY <1>3, WhoRuns
  <2>2. /\ o.roles \in SUBSET Role /\ o.user \in Known
        /\ Home(o.user) = o.church
    BY <1>3, <2>1 DEF RequestFits, WellFormed, Naming
  <2>3. o.church \in Church
    BY <2>2 DEF Inv, StoreOK, TypeOK, Home, Known, Maybe, UserDoc
  <2>4. o.user # Missing BY <2>2, MissingAssumption DEF Known
  <2>5. QED BY <1>1, <1>3, <2>1, <2>2, <2>3, <2>4
<1>4. QED BY <1>2, <1>3 DEF Bootstraps

(* A user that is stored has a document.                                   *)
LEMMA KnownDoc ==
  ASSUME Inv, NEW u \in Known
  PROVE  /\ u \in User /\ u # Missing /\ users[u] \in UserDoc
         /\ told.users[u] \in UserDoc /\ Home(u) \in Church
<1>1. u \in User /\ u # Missing BY MissingAssumption DEF Known
<1>2. users[u] \in UserDoc BY DEF Known, Inv, StoreOK, TypeOK, Maybe
<1>3. told.users[u] \in UserDoc BY DEF Known, Inv, StoreOK, Maybe
<1>4. QED BY <1>1, <1>2, <1>3 DEF Home, UserDoc

(***************************************************************************)
(* The strengthening is kept by each step of Access.                       *)
(***************************************************************************)

(* It holds at the start.                                                  *)
LEMMA InitInv ==
  ASSUME Init
  PROVE  Inv
<1>1. TypeOK
  <2>1. users \in [User -> Maybe(UserDoc)] BY StaffAssumption DEF Init
  <2>2. roles \in [Church -> [Role -> Maybe(Role \union Name)]]
    BY DEF Init, Maybe
  <2>3. grants \in [Church -> [Role -> SUBSET Permission]]
    BY StartAssumption DEF Init
  <2>4. assigned \in [User -> Maybe(SUBSET Role)]
    <3>1. Range(BaseRoles) \in SUBSET Role BY StartAssumption DEF Range
    <3>2. QED BY <3>1, StaffAssumption DEF Init, Maybe
  <2>5. cache \in [User -> Maybe(SUBSET Permission)] BY DEF Init, Maybe
  <2>6. \A u \in User : assigned[u] # Missing => u \in Known
    BY StaffAssumption DEF Init, Known
  <2>7. QED BY <2>1, <2>2, <2>3, <2>4, <2>5, <2>6 DEF TypeOK
<1>2. StoreOK
  BY <1>1 DEF StoreOK, Init, TypeOK, Known
<1>3. JobsOK BY EmptySeq DEF Init, JobsOK, Worker
<1>4. ActOK BY DEF Init, ActOK
<1>5. QED BY <1>2, <1>3, <1>4 DEF Inv

(* A step that reads, or writes what is not a user.                        *)
LEMMA Still ==
  ASSUME Inv, NEW q \in Actor, NEW n, act' = [act EXCEPT ![q] = n],
         UNCHANGED <<users, jobs>>, n = Idle \/ Fits(q, n), StoreOK'
  PROVE  Inv'
<1>1. Grown /\ \A b \in Worker : HeadKept(b)
  BY DEF Grown, HeadKept, Known
<1>2. n = Idle \/ Fits(q, n)' BY <1>1, FitsKept
<1>3. ActOK' BY <1>1, <1>2, ActStep DEF Inv
<1>4. JobsOK' BY DEF JobsOK, BootJobs, Known, Home, Inv
<1>5. QED BY <1>3, <1>4 DEF Inv

LEMMA StoreStays ==
  ASSUME StoreOK,
         UNCHANGED <<users, roles, grants, assigned, cache, told, incidents>>
  PROVE  StoreOK'
BY DEF StoreOK, TypeOK, Known

LEMMA BeginInv ==
  ASSUME Inv, NEW q \in Request, NEW o \in Order, Begin(q, o)
  PROVE  Inv'
<1>1. PICK p : p = IF o.op = "bootstrap"
                   THEN [op |-> o.op, caller |-> o.caller, user |-> o.user,
                         roles |-> o.roles, church |-> Home(o.caller)]
                   ELSE o
  OBVIOUS
<1>2. PICK st : st = IF "caller" \in DOMAIN o THEN "resolve" ELSE "do"
  OBVIOUS
<1>3. PICK n : n = Running(p, st) OBVIOUS
<1>4. act' = [act EXCEPT ![q] = n] BY <1>1, <1>2, <1>3 DEF Begin, Go
<1>5. RequestFits(p)
  <2>1. WellFormed(p) /\ p.op = o.op
    BY <1>1, OrderShapes DEF WellFormed
  <2>2. o.op \in Carrying => p.caller \in Known
    BY <1>1, OrderShapes DEF Begin
  <2>3. o.op \in Naming => p.user \in Known /\ Home(p.user) = Home(p.caller)
    BY <1>1, OrderShapes DEF Begin
  <2>4. o.op = "bootstrap" => p.church = Home(p.caller) BY <1>1
  <2>5. QED BY <2>1, <2>2, <2>3, <2>4 DEF RequestFits
<1>6. Fits(q, n)
  <2>1. n = Run(st, p, {}, {}, Missing, Missing, {}, 1)
    BY <1>3 DEF Running, Run
  <2>2. q \notin Worker BY SlotAssumption
  <2>3. 1 \in DOMAIN BaseRoles
    <3>1. BaseRoles \in Seq(Role) /\ BaseRoles # <<>>
      BY StartAssumption DEF Range
    <3>2. QED BY <3>1, LenProperties, EmptySeq
  <2>4. st = "resolve" => p.op \in Carrying
    BY <1>1, <1>2, OrderShapes
  <2>5. st \in {"resolve", "do"} BY <1>2
  <2>6. QED BY <2>1, <2>2, <2>3, <2>4, <2>5, <1>5 DEF Fits, IsRun, Run
<1>7. StoreOK' BY StoreStays DEF Begin, Inv
<1>8. UNCHANGED <<users, jobs>> BY DEF Begin
<1>9. q \in Actor BY DEF Actor
<1>10. QED BY <1>4, <1>6, <1>7, <1>8, <1>9, Still

(* What the request found lets it go on, or not.                           *)
LEMMA DecidedFits ==
  ASSUME Inv, NEW a \in Actor, act[a].step # "idle", NEW R
  PROVE  Decided(a, R) = Idle \/ Fits(a, Decided(a, R))
<1>1. Fits(a, act[a]) BY Going DEF Inv
<1>2. PICK s : s = act[a] OBVIOUS
<1>3. PICK n : n = [s EXCEPT !.step = "do", !.rights = {}, !.roles = {}]
  OBVIOUS
<1>4. n = Run("do", s.order, {}, {}, s.of, s.copy, s.left, s.at)
  <2>1. IsRun(s) BY <1>1, <1>2 DEF Fits
  <2>2. QED BY Zenon, <2>1, <1>3, SetStepRightsRoles
<1>5. Fits(a, n) BY <1>1, <1>2, <1>4 DEF Fits, IsRun, Run
<1>6. QED BY <1>2, <1>3, <1>5 DEF Decided

LEMMA ResolveInv ==
  ASSUME Inv, NEW q \in Request, Resolve(q)
  PROVE  Inv'
<1> DEFINE u == act[q].order.caller
<1>1. q \in Actor /\ act[q].step = "resolve" BY DEF Actor, Resolve
<1>2. Fits(q, act[q]) BY <1>1, Going DEF Inv
<1>3. u \in Known BY <1>1, <1>2 DEF Fits, RequestFits
<1>4. RolesOf(u) \in SUBSET Role
  BY <1>3, KnownDoc DEF RolesOf, Inv, StoreOK, TypeOK, Maybe
<1>5. PICK n : n = IF cache[u] # Missing THEN Decided(q, cache[u])
                   ELSE [act[q] EXCEPT !.roles = RolesOf(u),
                           !.step = IF RolesOf(u) = {} THEN "fill" ELSE "grants"]
  BY Zenon
<1>6. n = Idle \/ Fits(q, n)
  <2>1. CASE cache[u] # Missing BY <1>1, <1>5, <2>1, DecidedFits
  <2>2. CASE cache[u] = Missing
    <3>1. PICK s : s = act[q] OBVIOUS
    <3>2. PICK R : R = RolesOf(u) OBVIOUS
    <3>3. PICK st : st = IF RolesOf(u) = {} THEN "fill" ELSE "grants" OBVIOUS
    <3>4. n = [s EXCEPT !.roles = R, !.step = st]
      BY <1>5, <2>2, <3>1, <3>2, <3>3
    <3>5. n = Run(st, s.order, R, s.rights, s.of, s.copy, s.left, s.at)
      <4>1. IsRun(s) BY <1>2, <3>1 DEF Fits
      <4>2. QED BY Zenon, <4>1, <3>4, SetRolesStep
    <3>6. st \in {"fill", "grants"} BY <3>3
    <3>7. QED BY <1>1, <1>2, <1>4, <3>1, <3>2, <3>5, <3>6 DEF Fits, IsRun, Run
  <2>3. QED BY <2>1, <2>2
<1>7. act' = [act EXCEPT ![q] = n] BY <1>5 DEF Resolve, Go
<1>8. StoreOK' BY StoreStays DEF Resolve, Inv
<1>9. UNCHANGED <<users, jobs>> BY DEF Resolve
<1>10. QED BY <1>1, <1>6, <1>7, <1>8, <1>9, Still

LEMMA GrantingType ==
  ASSUME Inv, NEW c \in Church, NEW R \in SUBSET Role
  PROVE  Granting(c, R) \in SUBSET Permission
<1>1. \A r \in R : grants[c][r] \in SUBSET Permission
  BY DEF Inv, StoreOK, TypeOK
<1>2. QED BY <1>1 DEF Granting

LEMMA ReadGrantsInv ==
  ASSUME Inv, NEW q \in Request, ReadGrants(q)
  PROVE  Inv'
<1>1. q \in Actor /\ act[q].step = "grants" BY DEF Actor, ReadGrants
<1>2. PICK s : s = act[q] OBVIOUS
<1>3. Fits(q, s) /\ IsRun(s) BY <1>1, <1>2, Going DEF Inv
<1>4. s.order.caller \in Known /\ s.roles \in SUBSET Role
  BY <1>1, <1>2, <1>3 DEF Fits, RequestFits
<1>5. PICK R : R = Granting(Home(s.order.caller), s.roles) OBVIOUS
<1>6. R \in SUBSET Permission
  BY <1>4, <1>5, KnownDoc, GrantingType
<1>7. PICK n : n = [s EXCEPT !.step = "fill", !.rights = R] OBVIOUS
<1>8. n = Run("fill", s.order, s.roles, R, s.of, s.copy, s.left, s.at)
  BY Zenon, <1>3, <1>7, SetStepRights
<1>9. Fits(q, n) BY <1>1, <1>2, <1>3, <1>6, <1>8 DEF Fits, IsRun, Run
<1>10. act' = [act EXCEPT ![q] = n]
  BY <1>2, <1>5, <1>7 DEF ReadGrants, Go
<1>11. StoreOK' BY StoreStays DEF ReadGrants, Inv
<1>12. UNCHANGED <<users, jobs>> BY DEF ReadGrants
<1>13. QED BY <1>1, <1>9, <1>10, <1>11, <1>12, Still

LEMMA FillInv ==
  ASSUME Inv, NEW q \in Request, Fill(q)
  PROVE  Inv'
<1>1. q \in Actor /\ act[q].step = "fill" BY DEF Actor, Fill
<1>2. Fits(q, act[q]) /\ IsRun(act[q]) BY <1>1, Going DEF Inv
<1>3. act[q].order.caller \in Known /\ act[q].rights \in SUBSET Permission
  BY <1>1, <1>2 DEF Fits, RequestFits
<1>4. PICK n : n = Decided(q, act[q].rights) OBVIOUS
<1>5. n = Idle \/ Fits(q, n) BY <1>1, <1>4, DecidedFits
<1>6. act' = [act EXCEPT ![q] = n] BY <1>4 DEF Fill, Go
<1>7. StoreOK'
  <2>1. cache' \in [User -> Maybe(SUBSET Permission)]
    BY <1>3 DEF Fill, Inv, StoreOK, TypeOK, Maybe
  <2>2. \A u \in User : cache'[u] # Missing => u \in Known
    BY <1>3 DEF Fill, Inv, StoreOK, TypeOK, Known
  <2>3. PICK I : incidents' = [incidents EXCEPT !.overlooked = I] BY DEF Fill
  <2>4. incidents' = [overlooked |-> incidents'.overlooked,
                      torn |-> incidents'.torn, stale |-> incidents'.stale,
                      careless |-> incidents'.careless,
                      orphans |-> incidents'.orphans]
    BY <2>3 DEF Inv, StoreOK
  <2>5. UNCHANGED <<users, roles, grants, assigned, told>> BY DEF Fill
  <2>6. TypeOK' BY <2>1, <2>5 DEF Inv, StoreOK, TypeOK, Known
  <2>7. QED BY <2>2, <2>4, <2>5, <2>6 DEF Inv, StoreOK, Known
<1>8. UNCHANGED <<users, jobs>> BY DEF Fill
<1>9. QED BY <1>1, <1>5, <1>6, <1>7, <1>8, Still

(* A request that ends where it is.                                        *)
LEMMA EndStill ==
  ASSUME Inv, NEW q \in Actor, End(q), UNCHANGED <<users, jobs>>, StoreOK'
  PROVE  Inv'
<1>1. PICK n : n = Idle OBVIOUS
<1>2. act' = [act EXCEPT ![q] = n] BY <1>1 DEF End, Go
<1>3. QED BY <1>1, <1>2, Still

(* A request that goes on to a step at which nothing is needed of it but   *)
(* its operation.                                                          *)
LEMMA StepStill ==
  ASSUME Inv, NEW q \in Request, act[q].step # "idle", NEW st, Step(q, st),
         st # "idle", UNCHANGED <<users, jobs>>, StoreOK',
         st \notin {"resolve", "grants", "fill", "user", "assign", "invalidate",
                    "upsert", "password", "create", "dispatch"},
         st = "name" => act[q].order.op = "addRole",
         st = "insert" => act[q].order.op \in {"permit"} \union Bootstraps,
         st = "holders" => act[q].order.op = "permit",
         st = "role" => act[q].order.op \in Bootstraps,
         st = "find" => act[q].order.op = "change"
  PROVE  Inv'
<1>1. q \in Actor BY DEF Actor
<1>2. PICK s : s = act[q] OBVIOUS
<1>3. Fits(q, s) /\ IsRun(s) BY <1>1, <1>2, Going DEF Inv
<1>4. PICK n : n = [s EXCEPT !.step = st] OBVIOUS
<1>5. n = Run(st, s.order, s.roles, s.rights, s.of, s.copy, s.left, s.at)
  BY <1>3, <1>4, SetStep
<1>6. Fits(q, n)
  BY <1>2, <1>3, <1>5 DEF Fits, IsRun, Run
<1>7. act' = [act EXCEPT ![q] = n] BY <1>2, <1>4 DEF Step, Go
<1>8. QED BY <1>1, <1>6, <1>7, Still

LEMMA LookInv ==
  ASSUME Inv, NEW q \in Request, Look(q)
  PROVE  Inv'
<1>1. StoreOK' BY StoreStays DEF Look, Inv
<1>2. QED BY <1>1, EndStill DEF Look, Actor

LEMMA AssignRolesInv ==
  ASSUME Inv, NEW q \in Request, AssignRoles(q)
  PROVE  Inv'
<1>1. q \in Actor /\ act[q].step = "do" /\ act[q].order.op = "assign"
  BY DEF Actor, AssignRoles, At
<1>2. PICK s : s = act[q] OBVIOUS
<1>3. Fits(q, s) /\ IsRun(s) BY <1>1, <1>2, Going DEF Inv
<1>4. s.order.user \in Known /\ s.order.roles \in SUBSET Role
  BY <1>1, <1>2, <1>3 DEF Fits, RequestFits, WellFormed, Naming
<1>5. UNCHANGED <<users, roles, grants, cache, told, incidents, jobs>>
  BY DEF AssignRoles
<1>6. CASE End(q) /\ UNCHANGED assigned
  <2>1. StoreOK' BY <1>5, <1>6, StoreStays DEF Inv
  <2>2. QED BY <1>1, <1>5, <1>6, <2>1, EndStill
<1>7. CASE /\ assigned' = [assigned EXCEPT ![s.order.user] = s.order.roles]
           /\ Go(q, [s EXCEPT !.step = "invalidate", !.left = {s.order.user}])
  <2>1. StoreOK'
    <3>1. /\ assigned' \in [User -> Maybe(SUBSET Role)]
          /\ \A u \in User : assigned'[u] # Missing => u \in Known
      BY <1>4, <1>7 DEF Inv, StoreOK, TypeOK, Maybe, Known
    <3>2. QED BY <3>1, <1>5 DEF Inv, StoreOK, TypeOK, Known
  <2>2. PICK L : L = {s.order.user} OBVIOUS
  <2>3. PICK n : n = [s EXCEPT !.step = "invalidate", !.left = L] OBVIOUS
  <2>4. n = Run("invalidate", s.order, s.roles, s.rights, s.of, s.copy, L, s.at)
    BY Zenon, <1>3, <2>3, SetStepLeft
  <2>5. Fits(q, n)
    BY <1>3, <1>4, <2>2, <2>4, MissingAssumption DEF Fits, IsRun, Run, Known
  <2>6. act' = [act EXCEPT ![q] = n] BY <1>7, <2>2, <2>3 DEF Go
  <2>7. QED BY <1>1, <1>5, <2>1, <2>5, <2>6, Still
<1>8. QED BY <1>2, <1>6, <1>7 DEF AssignRoles

LEMMA InvalidateInv ==
  ASSUME Inv, NEW q \in Request, Invalidate(q)
  PROVE  Inv'
<1>1. q \in Actor /\ act[q].step = "invalidate" BY DEF Actor, Invalidate
<1>2. PICK s : s = act[q] OBVIOUS
<1>3. Fits(q, s) /\ IsRun(s) BY <1>1, <1>2, Going DEF Inv
<1>4. s.left \in SUBSET User BY <1>1, <1>2, <1>3 DEF Fits
<1>5. UNCHANGED <<users, roles, grants, assigned, told, jobs>>
  BY DEF Invalidate
<1>6. CASE End(q) /\ UNCHANGED <<cache, incidents>>
  <2>1. StoreOK' BY <1>5, <1>6, StoreStays DEF Inv
  <2>2. QED BY <1>1, <1>5, <1>6, <2>1, EndStill
<1>7. ASSUME NEW u \in s.left, cache' = [cache EXCEPT ![u] = Missing],
             incidents' = [incidents EXCEPT !.overlooked = @ \ {u}],
             Go(q, IF s.left = {u} THEN Idle ELSE [s EXCEPT !.left = @ \ {u}])
      PROVE  Inv'
  <2>1. StoreOK'
    <3>1. cache' \in [User -> Maybe(SUBSET Permission)]
      BY <1>4, <1>7 DEF Inv, StoreOK, TypeOK, Maybe
    <3>2. \A v \in User : cache'[v] # Missing => v \in Known
      BY <1>4, <1>7 DEF Inv, StoreOK, TypeOK, Known
    <3>3. incidents' = [overlooked |-> incidents'.overlooked,
                        torn |-> incidents'.torn, stale |-> incidents'.stale,
                        careless |-> incidents'.careless,
                        orphans |-> incidents'.orphans]
      BY <1>7 DEF Inv, StoreOK
    <3>4. QED BY <3>1, <3>2, <3>3, <1>5 DEF Inv, StoreOK, TypeOK, Known
  <2>2. PICK L : L = s.left \ {u} OBVIOUS
  <2>3. PICK n : n = IF s.left = {u} THEN Idle ELSE [s EXCEPT !.left = L]
    OBVIOUS
  <2>4. n = Idle \/ Fits(q, n)
    <3>1. CASE s.left = {u} BY <3>1, <2>3
    <3>2. CASE s.left # {u}
      <4>1. n = [s EXCEPT !.left = L] BY <3>2, <2>3
      <4>2. n = Run(s.step, s.order, s.roles, s.rights, s.of, s.copy, L, s.at)
        BY <1>3, <4>1, SetLeft
      <4>3. L \in SUBSET User BY <1>4, <2>2
      <4>4. QED BY <1>3, <4>2, <4>3 DEF Fits, IsRun, Run
    <3>3. QED BY <3>1, <3>2
  <2>5. [s EXCEPT !.left = @ \ {u}] = [s EXCEPT !.left = L]
    BY <1>3, <2>2 DEF IsRun
  <2>6. act' = [act EXCEPT ![q] = n] BY <1>7, <2>3, <2>5 DEF Go
  <2>7. QED BY <1>1, <1>5, <2>1, <2>4, <2>6, Still
<1>8. QED BY <1>2, <1>6, <1>7 DEF Invalidate

LEMMA RoleInv ==
  ASSUME Inv, NEW q \in Request, FindRole(q) \/ StoreRole(q)
  PROVE  Inv'
<1>1. q \in Actor BY DEF Actor
<1>2. UNCHANGED <<users, jobs>> BY DEF FindRole, StoreRole
<1>3. CASE FindRole(q)
  <2>1. StoreOK' BY <1>3, StoreStays DEF FindRole, Inv
  <2>2. act[q].step = "do" /\ act[q].order.op = "addRole"
    BY <1>3 DEF FindRole, At
  <2>3. End(q) \/ Step(q, "name") BY <1>3 DEF FindRole
  <2>4. QED BY <1>1, <1>2, <2>1, <2>2, <2>3, EndStill, StepStill
<1>4. CASE StoreRole(q)
  <2>1. act[q].step = "name" /\ End(q) BY <1>4 DEF StoreRole
  <2>2. RequestFits(act[q].order) /\ act[q].order.op = "addRole"
    BY <1>1, <2>1, Going, SlotAssumption DEF Inv, Fits
  <2>3. act[q].order.name \in Name /\ act[q].order.caller \in Known
    BY <2>2 DEF RequestFits, WellFormed, Carrying
  <2>4. PICK r \in Role : roles' = [roles EXCEPT
          ![Home(act[q].order.caller)][r] = act[q].order.name]
    BY <1>4 DEF StoreRole
  <2>5. roles' \in [Church -> [Role -> Maybe(Role \union Name)]]
    BY <2>3, <2>4, KnownDoc DEF Inv, StoreOK, TypeOK, Maybe
  <2>6. UNCHANGED <<users, grants, assigned, cache, told, incidents>>
    BY <1>4 DEF StoreRole
  <2>7. StoreOK' BY <2>5, <2>6 DEF Inv, StoreOK, TypeOK, Known
  <2>8. QED BY <1>1, <1>2, <2>1, <2>7, EndStill
<1>5. QED BY <1>3, <1>4

(* What becomes of the permissions of a role stays typed.                  *)
LEMMA GrantsStay ==
  ASSUME Inv, NEW c \in Church, NEW r \in Role, NEW P \in SUBSET Permission,
         grants' \in {grants, Emptied(c, r), Filled(c, r, P)},
         told' \in {told, Tell(c, r, P)},
         incidents' = [overlooked |-> incidents'.overlooked,
                       torn |-> incidents'.torn, stale |-> incidents'.stale,
                       careless |-> incidents'.careless,
                       orphans |-> incidents'.orphans],
         UNCHANGED <<users, assigned, cache>>,
         roles' \in [Church -> [Role -> Maybe(Role \union Name)]]
  PROVE  StoreOK'
<1>1. grants' \in [Church -> [Role -> SUBSET Permission]]
  <2>1. Emptied(c, r) \in [Church -> [Role -> SUBSET Permission]]
    BY DEF Inv, StoreOK, TypeOK, Emptied
  <2>2. Filled(c, r, P) \in [Church -> [Role -> SUBSET Permission]]
    <3>1. grants[c][r] \union P \in SUBSET Permission
      BY DEF Inv, StoreOK, TypeOK
    <3>2. PICK Q \in SUBSET Permission : Q = grants[c][r] \union P BY <3>1
    <3>3. Filled(c, r, P) = [grants EXCEPT ![c][r] = Q]
      BY <3>2 DEF Inv, StoreOK, TypeOK, Filled
    <3>4. QED BY <3>3 DEF Inv, StoreOK, TypeOK
  <2>3. QED BY <2>1, <2>2 DEF Inv, StoreOK, TypeOK
<1>2. /\ told' = [users |-> told'.users, grants |-> told'.grants]
      /\ told'.users = told.users
      /\ told'.grants \in [Church -> [Role -> SUBSET Permission]]
  <2>1. CASE told' = told BY <2>1 DEF Inv, StoreOK
  <2>2. CASE told' = Tell(c, r, P)
    <3>1. told' = [told EXCEPT !.grants = [told.grants EXCEPT ![c][r] = P]]
      BY <2>2 DEF Tell, Inv, StoreOK
    <3>2. [told.grants EXCEPT ![c][r] = P] \in [Church -> [Role -> SUBSET Permission]]
      BY DEF Inv, StoreOK
    <3>3. QED BY <3>1, <3>2 DEF Inv, StoreOK
  <2>3. QED BY <2>1, <2>2
<1>3. QED BY <1>1, <1>2 DEF Inv, StoreOK, TypeOK, Known

LEMMA PermitInv ==
  ASSUME Inv, NEW q \in Request, EmptyRole(q) \/ FillRole(q)
  PROVE  Inv'
<1> DEFINE o == act[q].order
           c == Home(o.caller)
<1>1. q \in Actor /\ act[q].step # "idle" /\ o.op = "permit"
  BY DEF Actor, EmptyRole, FillRole, At
<1>2. o.role \in Role /\ o.permissions \in SUBSET Permission /\ o.caller \in Known
  BY <1>1, WhoRuns DEF RequestFits, WellFormed, Carrying
<1>3. c \in Church BY <1>2, KnownDoc
<1>4. UNCHANGED <<users, roles, assigned, cache, jobs>>
  BY DEF EmptyRole, FillRole
<1>5. StoreOK'
  <2>1. /\ grants' \in {grants, Emptied(c, o.role), Filled(c, o.role, o.permissions)}
        /\ told' \in {told, Tell(c, o.role, o.permissions)}
    BY DEF EmptyRole, FillRole
  <2>2. PICK T : incidents' \in {incidents, [incidents EXCEPT !.torn = T]}
    BY DEF EmptyRole, FillRole, Torn, Untorn
  <2>3. incidents' = [overlooked |-> incidents'.overlooked,
                      torn |-> incidents'.torn, stale |-> incidents'.stale,
                      careless |-> incidents'.careless,
                      orphans |-> incidents'.orphans]
    BY <2>2 DEF Inv, StoreOK
  <2>4. roles' \in [Church -> [Role -> Maybe(Role \union Name)]]
    BY <1>4 DEF Inv, StoreOK, TypeOK
  <2>5. QED BY <1>2, <1>3, <1>4, <2>1, <2>3, <2>4, GrantsStay
<1>6. End(q) \/ Step(q, "holders") \/ Step(q, "insert")
  BY DEF EmptyRole, FillRole
<1>7. QED BY <1>1, <1>4, <1>5, <1>6, EndStill, StepStill

LEMMA FindHoldersInv ==
  ASSUME Inv, NEW q \in Request, FindHolders(q)
  PROVE  Inv'
<1>1. q \in Actor /\ act[q].step = "holders" BY DEF Actor, FindHolders
<1>2. PICK s : s = act[q] OBVIOUS
<1>3. Fits(q, s) /\ IsRun(s) BY <1>1, <1>2, Going DEF Inv
<1>4. PICK L : L = Holders(Home(s.order.caller), s.order.role) OBVIOUS
<1>5. PICK n : n = [s EXCEPT !.step = "invalidate", !.left = L] OBVIOUS
<1>6. n = Run("invalidate", s.order, s.roles, s.rights, s.of, s.copy, L, s.at)
  BY Zenon, <1>3, <1>5, SetStepLeft
<1>7. L \in SUBSET User BY <1>4 DEF Holders, Known
<1>8. Fits(q, n) BY <1>3, <1>6, <1>7 DEF Fits, IsRun, Run
<1>9. act' = [act EXCEPT ![q] = n]
  BY <1>2, <1>4, <1>5 DEF FindHolders, Go
<1>10. StoreOK' BY StoreStays DEF FindHolders, Inv
<1>11. UNCHANGED <<users, jobs>> BY DEF FindHolders
<1>12. QED BY <1>1, <1>8, <1>9, <1>10, <1>11, Still

LEMMA StoreBaseRoleInv ==
  ASSUME Inv, NEW a \in Actor, StoreBaseRole(a)
  PROVE  Inv'
<1> DEFINE c == act[a].order.church
           r == BaseRoles[act[a].at]
<1>1. /\ act[a].step \in {"do", "role"} /\ act[a].step # "idle"
      /\ act[a].order.op \in Bootstraps
  BY DEF StoreBaseRole, At
<1>2. c \in Church /\ r \in Role BY <1>1, Bootstrapping
<1>3. UNCHANGED <<users, assigned, cache, jobs, told>> BY DEF StoreBaseRole
<1>4. StoreOK'
  <2>1. roles' \in [Church -> [Role -> Maybe(Role \union Name)]]
    BY <1>2 DEF StoreBaseRole, Inv, StoreOK, TypeOK, Maybe
  <2>2. grants' \in {grants, Emptied(c, r), Filled(c, r, {})}
    BY DEF StoreBaseRole
  <2>3. incidents' = [overlooked |-> incidents'.overlooked,
                      torn |-> incidents'.torn, stale |-> incidents'.stale,
                      careless |-> incidents'.careless,
                      orphans |-> incidents'.orphans]
    <3>1. PICK U : U = Untorn(a, c, r) OBVIOUS
    <3>2. U = [overlooked |-> U.overlooked, torn |-> U.torn, stale |-> U.stale,
               careless |-> U.careless, orphans |-> U.orphans]
      BY <3>1 DEF Untorn, Inv, StoreOK
    <3>3. PICK S : incidents' = [U EXCEPT !.overlooked = S]
      BY <3>1 DEF StoreBaseRole
    <3>4. QED BY <3>2, <3>3
  <2>4. PICK P \in SUBSET Permission : P = {} OBVIOUS
  <2>5. grants' \in {grants, Emptied(c, r), Filled(c, r, P)}
        /\ told' \in {told, Tell(c, r, P)}
    BY <2>2, <2>4, <1>3
  <2>6. QED BY <1>2, <1>3, <2>1, <2>3, <2>5, GrantsStay
<1>5. PICK s : s = act[a] OBVIOUS
<1>6. Fits(a, s) /\ IsRun(s) BY <1>1, <1>5, Going DEF Inv
<1>7. PICK n : n = [s EXCEPT !.step = "insert"] OBVIOUS
<1>8. n = Run("insert", s.order, s.roles, s.rights, s.of, s.copy, s.left, s.at)
  BY <1>6, <1>7, SetStep
<1>9. Fits(a, n) BY <1>1, <1>5, <1>6, <1>8 DEF Fits, IsRun, Run
<1>10. act' = [act EXCEPT ![a] = n]
  BY <1>5, <1>7 DEF StoreBaseRole, Step, Go
<1>11. QED BY <1>3, <1>4, <1>9, <1>10, Still

LEMMA FillBaseRoleInv ==
  ASSUME Inv, NEW a \in Actor, FillBaseRole(a)
  PROVE  Inv'
<1> DEFINE o == act[a].order
           r == BaseRoles[act[a].at]
<1>1. act[a].step = "insert" /\ o.op \in Bootstraps
  BY DEF FillBaseRole, At
<1>2. o.church \in Church /\ r \in Role /\ Base[r] \in SUBSET Permission
  BY <1>1, Bootstrapping, StartAssumption
<1>3. UNCHANGED <<users, roles, assigned, cache, jobs>> BY DEF FillBaseRole
<1>4. StoreOK'
  <2>1. /\ grants' \in {grants, Emptied(o.church, r), Filled(o.church, r, Base[r])}
        /\ told' \in {told, Tell(o.church, r, Base[r])}
    BY DEF FillBaseRole
  <2>2. roles' \in [Church -> [Role -> Maybe(Role \union Name)]]
    BY <1>3 DEF Inv, StoreOK, TypeOK
  <2>3. incidents' = [overlooked |-> incidents'.overlooked,
                      torn |-> incidents'.torn, stale |-> incidents'.stale,
                      careless |-> incidents'.careless,
                      orphans |-> incidents'.orphans]
    <3>1. PICK U : U = Torn(a, o.church, r) OBVIOUS
    <3>2. U = [overlooked |-> U.overlooked, torn |-> U.torn, stale |-> U.stale,
               careless |-> U.careless, orphans |-> U.orphans]
      BY Zenon, <3>1 DEF Torn, Inv, StoreOK
    <3>3. PICK S : incidents' = [U EXCEPT !.overlooked = S]
      BY Zenon, <3>1 DEF FillBaseRole
    <3>4. QED BY <3>2, <3>3
  <2>4. QED BY <1>2, <1>3, <2>1, <2>2, <2>3, GrantsStay
<1>5. PICK s : s = act[a] OBVIOUS
<1>6. Fits(a, s) /\ IsRun(s) BY <1>1, <1>5, Going DEF Inv
<1>7. PICK k : k = IF act[a].at = Len(BaseRoles) THEN s.at ELSE s.at + 1
  OBVIOUS
<1>8. PICK st : st = IF act[a].at # Len(BaseRoles) THEN "role"
                     ELSE IF o.user = Missing THEN "user" ELSE "assign"
  OBVIOUS
<1>9. PICK u : u = o.user OBVIOUS
<1>10. PICK n : n = [s EXCEPT !.at = k, !.of = u, !.step = st] OBVIOUS
<1>11. n = Run(st, s.order, s.roles, s.rights, u, s.copy, s.left, k)
  BY Zenon, <1>6, <1>10, SetAtOfStep DEF Run
<1>12. Fits(a, n)
  <2>1. k \in DOMAIN BaseRoles
    <3>1. DOMAIN BaseRoles = 1..Len(BaseRoles) /\ Len(BaseRoles) \in Nat
      BY StartAssumption, LenProperties
    <3>2. act[a].at \in 1..Len(BaseRoles) BY <3>1, <1>1, Bootstrapping
    <3>3. QED BY <3>1, <3>2, <1>5, <1>7
  <2>2. st \in {"role", "user", "assign"} BY <1>8
  <2>3. st = "user" => o.op = "boot" /\ o.user = Missing
    BY <1>1, <1>8, Bootstrapping DEF Bootstraps
  <2>4. st = "assign" => u \in Known /\ Home(u) = o.church /\ o.user = u
    BY <1>1, <1>8, <1>9, Bootstrapping
  <2>5. QED BY <1>1, <1>5, <1>6, <1>11, <2>1, <2>2, <2>3, <2>4
            DEF Fits, IsRun, Run
<1>13. act' = [act EXCEPT ![a] = n]
  <2>1. [act[a] EXCEPT !.at = IF act[a].at = Len(BaseRoles) THEN @ ELSE @ + 1,
           !.of = o.user,
           !.step = IF ~(act[a].at = Len(BaseRoles)) THEN "role"
                    ELSE IF o.user = Missing THEN "user" ELSE "assign"] = n
    BY <1>5, <1>6, <1>7, <1>8, <1>9, <1>10 DEF IsRun
  <2>2. QED BY <2>1 DEF FillBaseRole, Go
<1>14. QED BY <1>3, <1>4, <1>12, <1>13, Still

(* What a request makes of a document is one, of the same church and kind. *)
LEMMA RewrittenDoc ==
  ASSUME NEW o, WellFormed(o), NEW d \in UserDoc
  PROVE  /\ Rewritten(o, d) \in UserDoc
         /\ Rewritten(o, d).church = d.church
         /\ Rewritten(o, d).member = d.member
         /\ o.op # "edit" => Rewritten(o, d).email = d.email
         /\ o.op = "edit" => Rewritten(o, d).email = o.email
<1>1. CASE o.op = "accept"
  <2>1. PICK p \in Maybe(Policy) : p = o.policy
    BY <1>1 DEF WellFormed, Maybe
  <2>2. Rewritten(o, d) = [d EXCEPT !.policy = p] BY <1>1, <2>1 DEF Rewritten
  <2>3. QED BY <1>1, <2>2 DEF UserDoc
<1>2. CASE o.op = "edit"
  <2>1. PICK b \in BOOLEAN, e \in Email : b = o.active /\ e = o.email
    BY <1>2 DEF WellFormed
  <2>2. PICK t : t = [d EXCEPT !.active = b] OBVIOUS
  <2>3. t \in UserDoc /\ t.church = d.church /\ t.member = d.member
    BY <2>2 DEF UserDoc
  <2>4. Rewritten(o, d) = [t EXCEPT !.email = e]
    BY <1>2, <2>1, <2>2 DEF Rewritten, UserDoc
  <2>5. QED BY <1>2, <2>1, <2>3, <2>4 DEF UserDoc
<1>3. CASE o.op \notin {"accept", "edit"} BY <1>3 DEF Rewritten
<1>4. QED BY <1>1, <1>2, <1>3

(* A request on a user finds users that are stored.                        *)
LEMMA SoughtKnown ==
  ASSUME Inv, NEW q \in Request, act[q].step # "idle",
         act[q].order.op \in {"login", "change", "recover", "accept", "edit"}
  PROVE  Sought(act[q].order) \in SUBSET Known
<1>1. q \in Actor BY DEF Actor
<1>2. RequestFits(act[q].order) BY <1>1, WhoRuns
<1>3. QED BY <1>2 DEF Sought, WithEmail, RequestFits, Carrying

LEMMA FindUserInv ==
  ASSUME Inv, NEW q \in Request, FindUser(q)
  PROVE  Inv'
<1>1. /\ q \in Actor /\ act[q].step # "idle"
      /\ act[q].order.op \in {"login", "change", "accept", "edit"}
  BY Zenon DEF Actor, FindUser, At
<1>2. StoreOK' BY Zenon, StoreStays DEF FindUser, Inv
<1>3. UNCHANGED <<users, jobs>> BY Zenon DEF FindUser
<1>4. CASE End(q) BY <1>1, <1>2, <1>3, <1>4, EndStill
<1>5. CASE ~End(q)
  <2>1. PICK s : s = act[q] OBVIOUS
  <2>2. Fits(q, s) /\ IsRun(s) BY <1>1, <2>1, Going DEF Inv
  <2>3. PICK u \in Sought(s.order) :
          Go(q, IF Passes(s.order, u)
                THEN [s EXCEPT !.step = "upsert", !.of = u, !.copy = users[u]]
                ELSE Idle)
    BY Zenon, <1>5, <2>1 DEF FindUser
  <2>4. u \in Known BY <1>1, <2>1, <2>3, SoughtKnown
  <2>5. PICK d : d = users[u] OBVIOUS
  <2>6. d \in UserDoc BY <2>4, <2>5, KnownDoc
  <2>7. PICK n : n = IF Passes(s.order, u)
                     THEN [s EXCEPT !.step = "upsert", !.of = u, !.copy = d]
                     ELSE Idle
    OBVIOUS
  <2>8. n = Idle \/ Fits(q, n)
    <3>1. CASE Passes(s.order, u)
      <4>1. n = [s EXCEPT !.step = "upsert", !.of = u, !.copy = d]
        BY <3>1, <2>7
      <4>2. n = Run("upsert", s.order, s.roles, s.rights, u, d, s.left, s.at)
        BY Zenon, <2>2, <4>1, SetStepOfCopy
      <4>3. QED BY <1>1, <2>1, <2>2, <2>4, <2>5, <2>6, <4>2
                DEF Fits, IsRun, Run, Home
    <3>2. CASE ~Passes(s.order, u) BY <3>2, <2>7
    <3>3. QED BY <3>1, <3>2
  <2>9. act' = [act EXCEPT ![q] = n] BY <2>3, <2>5, <2>7 DEF Go
  <2>10. QED BY <1>1, <1>2, <1>3, <2>8, <2>9, Still
<1>6. QED BY <1>4, <1>5

LEMMA FindAgainInv ==
  ASSUME Inv, NEW q \in Request, FindAgain(q)
  PROVE  Inv'
<1>1. /\ q \in Actor /\ act[q].step # "idle"
      /\ act[q].order.op \in {"change", "recover"}
  BY Zenon DEF Actor, FindAgain, At
<1>2. StoreOK' BY Zenon, StoreStays DEF FindAgain, Inv
<1>3. UNCHANGED <<users, jobs>> BY Zenon DEF FindAgain
<1>4. CASE End(q) BY <1>1, <1>2, <1>3, <1>4, EndStill
<1>5. CASE ~End(q)
  <2>1. PICK s : s = act[q] OBVIOUS
  <2>2. Fits(q, s) /\ IsRun(s) BY <1>1, <2>1, Going DEF Inv
  <2>3. PICK u \in Sought(s.order) :
          Go(q, [s EXCEPT !.step = "password", !.of = u, !.copy = users[u]])
    BY Zenon, <1>5, <2>1 DEF FindAgain
  <2>4. u \in Known BY <1>1, <2>1, <2>3, SoughtKnown
  <2>5. PICK d : d = users[u] OBVIOUS
  <2>6. PICK n : n = [s EXCEPT !.step = "password", !.of = u, !.copy = d]
    OBVIOUS
  <2>7. n = Run("password", s.order, s.roles, s.rights, u, d, s.left, s.at)
    BY Zenon, <2>2, <2>6, SetStepOfCopy
  <2>8. Fits(q, n)
    BY <1>1, <2>1, <2>2, <2>4, <2>7 DEF Fits, IsRun, Run
  <2>9. act' = [act EXCEPT ![q] = n] BY <2>3, <2>5, <2>6 DEF Go
  <2>10. QED BY <1>1, <1>2, <1>3, <2>8, <2>9, Still
<1>6. QED BY <1>4, <1>5

(* A user is stored, or one that is stored is written in its church.       *)
LEMMA Growing ==
  ASSUME Inv, NEW q \in Actor, NEW n, act' = [act EXCEPT ![q] = n],
         NEW u \in User, NEW d \in UserDoc, NEW t \in UserDoc,
         users' = [users EXCEPT ![u] = d],
         told' = [told EXCEPT !.users = [told.users EXCEPT ![u] = t]],
         u \in Known => d.church = users[u].church /\ d.member = users[u].member,
         UNCHANGED <<roles, grants, assigned, cache, jobs>>,
         incidents' = [overlooked |-> incidents'.overlooked,
                       torn |-> incidents'.torn, stale |-> incidents'.stale,
                       careless |-> incidents'.careless,
                       orphans |-> incidents'.orphans],
         n = Idle \/ Fits(q, n)'
  PROVE  Inv'
<1>1. d # Missing /\ t # Missing BY MissingAssumption
<1>2. users' \in [User -> Maybe(UserDoc)] /\ Known' = Known \union {u}
  BY <1>1 DEF Inv, StoreOK, TypeOK, Maybe, Known
<1>3. Grown
  BY <1>2 DEF Grown, Inv, StoreOK, TypeOK
<1>4. /\ told' = [users |-> told'.users, grants |-> told'.grants]
      /\ told'.grants = told.grants
      /\ told'.users = [told.users EXCEPT ![u] = t]
  BY DEF Inv, StoreOK
<1>5. /\ told'.users \in [User -> Maybe(UserDoc)]
      /\ \A v \in Known' : told'.users[v] # Missing
  BY <1>1, <1>2, <1>4 DEF Inv, StoreOK, Maybe, Known
<1>6. TypeOK' BY <1>2 DEF Inv, StoreOK, TypeOK
<1>7. StoreOK' BY <1>2, <1>4, <1>5, <1>6 DEF Inv, StoreOK
<1>8. \A b \in Worker : HeadKept(b) BY DEF HeadKept
<1>9. ActOK' BY <1>3, <1>8, ActStep DEF Inv
<1>10. JobsOK'
  <2>1. BootJobs \subseteq BootJobs'
    BY <1>3 DEF BootJobs, Grown, Home
  <2>2. jobs[Booter] \in Seq(BootJobs') BY <2>1, SeqMonotonic DEF Inv, JobsOK
  <2>3. QED BY <2>2 DEF Inv, JobsOK
<1>11. QED BY <1>7, <1>9, <1>10 DEF Inv

LEMMA UpsertInv ==
  ASSUME Inv, NEW q \in Request, Upsert(q)
  PROVE  Inv'
<1>1. q \in Actor /\ act[q].step = "upsert" BY DEF Actor, Upsert
<1>2. PICK s : s = act[q] OBVIOUS
<1>3. Fits(q, s) /\ IsRun(s) BY <1>1, <1>2, Going DEF Inv
<1>4. PICK o : o = s.order OBVIOUS
<1>5. PICK u : u = s.of OBVIOUS
<1>6. /\ u \in Known /\ u \in User /\ s.copy \in UserDoc /\ WellFormed(o)
      /\ s.copy.church = users[u].church /\ s.copy.member = users[u].member
  BY <1>1, <1>2, <1>3, <1>4, <1>5 DEF Fits, RequestFits, Home, Known
<1>7. PICK d \in UserDoc : d = Rewritten(o, s.copy)
  BY <1>6, RewrittenDoc
<1>8. PICK t \in UserDoc : t = Rewritten(o, told.users[u])
  BY <1>6, RewrittenDoc, KnownDoc
<1>9. users' = [users EXCEPT ![u] = d] BY <1>2, <1>4, <1>5, <1>7 DEF Upsert
<1>10. told' = [told EXCEPT !.users = [told.users EXCEPT ![u] = t]]
  BY <1>2, <1>4, <1>5, <1>8 DEF Upsert
<1>11. d.church = users[u].church /\ d.member = users[u].member
  BY <1>6, <1>7, RewrittenDoc
<1>12. incidents' = [overlooked |-> incidents'.overlooked,
                     torn |-> incidents'.torn, stale |-> incidents'.stale,
                     careless |-> incidents'.careless,
                     orphans |-> incidents'.orphans]
  <2>1. PICK A, B : incidents' = [incidents EXCEPT !.stale = A, !.careless = B]
    BY Zenon DEF Upsert
  <2>2. PICK I : I = [incidents EXCEPT !.stale = A] OBVIOUS
  <2>3. incidents' = [I EXCEPT !.careless = B] BY <2>1, <2>2 DEF Inv, StoreOK
  <2>4. I = [overlooked |-> I.overlooked, torn |-> I.torn, stale |-> I.stale,
             careless |-> I.careless, orphans |-> I.orphans]
    BY <2>2 DEF Inv, StoreOK
  <2>5. QED BY <2>3, <2>4
<1>13. UNCHANGED <<roles, grants, assigned, cache, jobs>> BY DEF Upsert
<1>14. PICK n : n = IF o.op = "change" THEN [s EXCEPT !.step = "find"] ELSE Idle
  OBVIOUS
<1>15. act' = [act EXCEPT ![q] = n]
  BY <1>2, <1>4, <1>14 DEF Upsert, Step, End, Go
<1>16. n = Idle \/ Fits(q, n)'
  <2>1. CASE o.op = "change"
    <3>1. n = [s EXCEPT !.step = "find"] BY <2>1, <1>14
    <3>2. n = Run("find", s.order, s.roles, s.rights, s.of, s.copy, s.left, s.at)
      BY <1>3, <3>1, SetStep
    <3>3. Fits(q, n)
      BY <1>3, <1>4, <2>1, <3>2 DEF Fits, IsRun, Run
    <3>4. d # Missing BY MissingAssumption
    <3>5. Grown /\ HeadKept(q)
      BY <1>6, <1>9, <1>11, <1>13, <3>4
         DEF Grown, HeadKept, Known, Inv, StoreOK, TypeOK
    <3>6. QED BY <1>1, <3>3, <3>5, FitsKept
  <2>2. CASE o.op # "change" BY <2>2, <1>14
  <2>3. QED BY <2>1, <2>2
<1>17. QED
  BY <1>1, <1>6, <1>9, <1>10, <1>11, <1>12, <1>13, <1>15, <1>16, Growing

LEMMA SetPasswordInv ==
  ASSUME Inv, NEW q \in Request, SetPassword(q)
  PROVE  Inv'
<1>1. q \in Actor /\ act[q].step = "password" BY DEF Actor, SetPassword
<1>2. PICK s : s = act[q] OBVIOUS
<1>3. Fits(q, s) /\ IsRun(s) BY <1>1, <1>2, Going DEF Inv
<1>4. PICK u : u = s.of OBVIOUS
<1>5. u \in Known /\ u \in User /\ WellFormed(s.order)
  BY <1>1, <1>2, <1>3, <1>4 DEF Fits, RequestFits, Known
<1>6. PICK p : p = NewPassword(s.order) OBVIOUS
<1>7. p \in Password
  BY <1>1, <1>2, <1>3, <1>5, <1>6, StartAssumption
     DEF NewPassword, WellFormed, Carrying, Fits, UserDoc
<1>8. users[u] \in UserDoc /\ told.users[u] \in UserDoc BY <1>5, KnownDoc
<1>9. PICK d : d = [users[u] EXCEPT !.password = p] OBVIOUS
<1>10. PICK t : t = [told.users[u] EXCEPT !.password = p] OBVIOUS
<1>11. /\ d \in UserDoc /\ t \in UserDoc
       /\ d.church = users[u].church /\ d.member = users[u].member
  BY <1>7, <1>8, <1>9, <1>10 DEF UserDoc
<1>12. users' = [users EXCEPT ![u] = d]
  BY <1>2, <1>4, <1>5, <1>6, <1>9 DEF SetPassword, Inv, StoreOK, TypeOK
<1>13. told' = [told EXCEPT !.users = [told.users EXCEPT ![u] = t]]
  BY <1>2, <1>4, <1>5, <1>6, <1>10 DEF SetPassword, Inv, StoreOK
<1>14. incidents' = [overlooked |-> incidents'.overlooked,
                     torn |-> incidents'.torn, stale |-> incidents'.stale,
                     careless |-> incidents'.careless,
                     orphans |-> incidents'.orphans]
  BY DEF SetPassword, Inv, StoreOK
<1>15. UNCHANGED <<roles, grants, assigned, cache, jobs>> BY DEF SetPassword
<1>16. PICK n : n = Idle OBVIOUS
<1>17. act' = [act EXCEPT ![q] = n] BY <1>16 DEF SetPassword, End, Go
<1>18. QED
  BY <1>1, <1>5, <1>11, <1>12, <1>13, <1>14, <1>15, <1>16, <1>17, Growing

(* A user made of an address, a password and a church.                     *)
LEMMA NewUserDoc ==
  ASSUME NEW o, o.password \in Password, o.church \in Church,
         NEW e \in Email, NEW b \in BOOLEAN
  PROVE  /\ NewUser(o, e, b) \in UserDoc
         /\ NewUser(o, e, b).church = o.church
         /\ NewUser(o, e, b).email = Lower[e]
         /\ NewUser(o, e, b).member = b
BY StartAssumption DEF NewUser, UserDoc, Maybe

LEMMA CreateUserInv ==
  ASSUME Inv, NEW q \in Request, CreateUser(q)
  PROVE  Inv'
<1>1. q \in Actor /\ act[q].step # "idle" /\ act[q].order.op = "create"
  BY DEF Actor, CreateUser, At
<1>2. PICK o : o = act[q].order OBVIOUS
<1>3. o.password \in Password /\ o.church \in Church /\ o.email \in Email
  BY <1>1, <1>2, WhoRuns DEF RequestFits, WellFormed
<1>4. PICK d : d = NewUser(o, o.email, FALSE) OBVIOUS
<1>5. d \in UserDoc BY <1>3, <1>4, NewUserDoc
<1>6. PICK u \in Free : /\ users' = [users EXCEPT ![u] = d]
                        /\ told' = [told EXCEPT !.users[u] = d]
  BY <1>2, <1>4 DEF CreateUser
<1>7. told' = [told EXCEPT !.users = [told.users EXCEPT ![u] = d]]
  BY <1>6 DEF Inv, StoreOK
<1>8. u \in User /\ u \notin Known BY DEF Free
<1>9. incidents' = [overlooked |-> incidents'.overlooked,
                    torn |-> incidents'.torn, stale |-> incidents'.stale,
                    careless |-> incidents'.careless,
                    orphans |-> incidents'.orphans]
  BY DEF CreateUser, Inv, StoreOK
<1>10. UNCHANGED <<roles, grants, assigned, cache, jobs>> BY DEF CreateUser
<1>11. PICK n : n = Idle OBVIOUS
<1>12. act' = [act EXCEPT ![q] = n] BY <1>11 DEF CreateUser, End, Go
<1>13. QED
  BY <1>1, <1>5, <1>6, <1>7, <1>8, <1>9, <1>10, <1>11, <1>12, Growing

(* A worker takes a job, its own queue unchanged.                          *)
LEMMA TakeInv ==
  ASSUME Inv, NEW w \in Worker, Take(w)
  PROVE  Inv'
<1>1. w \in Actor /\ w \notin Request BY SlotAssumption DEF Actor
<1>2. PICK o : o = Head(jobs[w]) OBVIOUS
<1>3. PICK n : n = Running(o, "do") OBVIOUS
<1>4. n = Run("do", o, {}, {}, Missing, Missing, {}, 1)
  BY <1>3 DEF Running, Run
<1>5. 1 \in DOMAIN BaseRoles
  <2>1. BaseRoles \in Seq(Role) /\ BaseRoles # <<>>
    BY StartAssumption DEF Range
  <2>2. QED BY <2>1, LenProperties, EmptySeq
<1>6. Fits(w, n) BY <1>1, <1>2, <1>4, <1>5 DEF Fits, IsRun, Run, Take
<1>7. act' = [act EXCEPT ![w] = n] BY <1>2, <1>3 DEF Take, Go
<1>8. StoreOK' BY StoreStays DEF Take, Inv
<1>9. UNCHANGED <<users, jobs>> BY DEF Take
<1>10. QED BY <1>1, <1>6, <1>7, <1>8, <1>9, Still

(* A job is done with: it leaves its queue, and the worker is free. Jobs   *)
(* may be added to the other queues.                                       *)
LEMMA Popping ==
  ASSUME Inv, NEW a \in Actor, End(a), act[a].step # "idle",
         UNCHANGED users, StoreOK', JobsOK',
         \A b \in Worker \ {a} : HeadKept(b)
  PROVE  Inv'
<1>1. PICK n : n = Idle OBVIOUS
<1>2. act' = [act EXCEPT ![a] = n] BY <1>1 DEF End, Go
<1>3. Grown BY DEF Grown, Known
<1>4. ActOK' BY <1>1, <1>2, <1>3, ActStep DEF Inv
<1>5. QED BY <1>4 DEF Inv

LEMMA EndJobsOK ==
  ASSUME Inv, NEW a \in Actor, act[a].step # "idle", UNCHANGED users,
         jobs' = EndJobs(a)
  PROVE  JobsOK' /\ \A b \in Worker \ {a} : HeadKept(b)
<1>1. BootJobs' = BootJobs BY DEF BootJobs, Known, Home
<1>2. CASE a \notin Worker
  BY <1>1, <1>2 DEF EndJobs, JobsOK, HeadKept, Inv
<1>3. CASE a \in Worker
  <2>1. jobs[a] # <<>> BY <1>3, WorkerOrder
  <2>2. jobs' = [jobs EXCEPT ![a] = Tail(jobs[a])]
    BY <1>3 DEF EndJobs
  <2>3. /\ a = Joiner => Tail(jobs[a]) \in Seq(JoinJobs)
        /\ a = Booter => Tail(jobs[a]) \in Seq(BootJobs)
        /\ a = Onboarder => Tail(jobs[a]) \in Seq(OnboardJobs)
    BY <2>1, HeadTailProperties DEF Inv, JobsOK
  <2>4. jobs'[a] = Tail(jobs[a]) /\ \A b \in Worker \ {a} : jobs'[b] = jobs[b]
    BY <1>3, <2>2 DEF Inv, JobsOK
  <2>5. jobs' = [w \in Worker |-> jobs'[w]] BY <2>2 DEF Inv, JobsOK
  <2>6. \A b \in Worker \ {a} : HeadKept(b)
    BY <2>4 DEF HeadKept
  <2>7. JobsOK'
    <3>1. jobs'[Joiner] \in Seq(JoinJobs) /\ jobs'[Onboarder] \in Seq(OnboardJobs)
          /\ jobs'[Booter] \in Seq(BootJobs)
      BY <1>3, <2>3, <2>4 DEF Inv, JobsOK, Worker
    <3>2. QED BY <1>1, <2>5, <3>1 DEF JobsOK, JoinJobs, OnboardJobs
  <2>8. QED BY <2>6, <2>7
<1>4. QED BY <1>2, <1>3

LEMMA JoinCheckInv ==
  ASSUME Inv, JoinCheck(Joiner)
  PROVE  Inv'
<1>1. /\ Joiner \in Actor /\ act[Joiner].step = "do" /\ Joiner \in Worker
      /\ Joiner \notin Request
  BY SlotAssumption DEF Actor, Worker, JoinCheck, At
<1>2. StoreOK' BY StoreStays DEF JoinCheck, Inv
<1>3. UNCHANGED users BY DEF JoinCheck
<1>4. CASE End(Joiner) /\ jobs' = EndJobs(Joiner)
  BY <1>1, <1>2, <1>3, <1>4, EndJobsOK, Popping
<1>5. CASE Step(Joiner, "create") /\ UNCHANGED jobs
  <2>1. PICK s : s = act[Joiner] OBVIOUS
  <2>2. Fits(Joiner, s) /\ IsRun(s) BY <1>1, <2>1, Going DEF Inv
  <2>3. PICK n : n = [s EXCEPT !.step = "create"] OBVIOUS
  <2>4. n = Run("create", s.order, s.roles, s.rights, s.of, s.copy, s.left, s.at)
    BY <2>2, <2>3, SetStep
  <2>5. Fits(Joiner, n) BY <1>1, <2>2, <2>4 DEF Fits, IsRun, Run
  <2>6. act' = [act EXCEPT ![Joiner] = n] BY <1>5, <2>1, <2>3 DEF Step, Go
  <2>7. QED BY <1>1, <1>2, <1>3, <1>5, <2>5, <2>6, Still
<1>6. QED BY <1>4, <1>5 DEF JoinCheck

LEMMA JoinCreateInv ==
  ASSUME Inv, JoinCreate(Joiner)
  PROVE  Inv'
<1>1. /\ Joiner \in Actor /\ act[Joiner].step # "idle" /\ Joiner \in Worker
      /\ Joiner \notin Request
  BY SlotAssumption DEF Actor, Worker, JoinCreate, At
<1>2. PICK s : s = act[Joiner] OBVIOUS
<1>3. Fits(Joiner, s) /\ IsRun(s) BY <1>1, <1>2, Going DEF Inv
<1>4. PICK o : o = s.order OBVIOUS
<1>5. o \in JoinJobs BY <1>1, <1>2, <1>4, WorkerOrder
<1>6. PICK d : d = NewUser(o, o.email, TRUE) OBVIOUS
<1>7. d \in UserDoc /\ d.church = o.church
  BY <1>5, <1>6, NewUserDoc DEF JoinJobs
<1>8. PICK u \in Free : /\ users' = [users EXCEPT ![u] = d]
                        /\ told' = [told EXCEPT !.users[u] = d]
                        /\ Go(Joiner, [s EXCEPT !.step = "dispatch", !.of = u])
  BY Zenon, <1>2, <1>4, <1>6 DEF JoinCreate
<1>9. told' = [told EXCEPT !.users = [told.users EXCEPT ![u] = d]]
  BY <1>8 DEF Inv, StoreOK
<1>10. u \in User /\ u \notin Known BY DEF Free
<1>11. incidents' = [overlooked |-> incidents'.overlooked,
                     torn |-> incidents'.torn, stale |-> incidents'.stale,
                     careless |-> incidents'.careless,
                     orphans |-> incidents'.orphans]
  BY DEF JoinCreate, Inv, StoreOK
<1>12. UNCHANGED <<roles, grants, assigned, cache, jobs>> BY DEF JoinCreate
<1>13. PICK n : n = [s EXCEPT !.step = "dispatch", !.of = u] OBVIOUS
<1>14. act' = [act EXCEPT ![Joiner] = n] BY <1>8, <1>13 DEF Go
<1>15. n = Run("dispatch", s.order, s.roles, s.rights, u, s.copy, s.left, s.at)
  BY Zenon, <1>3, <1>13, SetStepOf
<1>16. d # Missing BY <1>7, MissingAssumption
<1>17. u \in Known' /\ users'[u].church = o.church
  BY <1>7, <1>8, <1>10, <1>16 DEF Known, Inv, StoreOK, TypeOK
<1>18. Fits(Joiner, n)'
  BY <1>1, <1>3, <1>4, <1>12, <1>15, <1>17 DEF Fits, IsRun, Run, Home
<1>19. QED
  BY <1>1, <1>7, <1>8, <1>9, <1>10, <1>11, <1>12, <1>14, <1>18, Growing

(* A job is added to a queue; the jobs of the others stay where they are.  *)
LEMMA Queued ==
  ASSUME Inv, NEW w \in Worker, NEW j, UNCHANGED users,
         w = Joiner => j \in JoinJobs,
         w = Booter => j \in BootJobs,
         w = Onboarder => j \in OnboardJobs,
         jobs' = [jobs EXCEPT ![w] = Append(@, j)]
  PROVE  JobsOK' /\ \A b \in Worker : HeadKept(b)
<1>1. /\ jobs' = [v \in Worker |-> jobs'[v]]
      /\ jobs'[w] = Append(jobs[w], j)
      /\ \A v \in Worker \ {w} : jobs'[v] = jobs[v]
  BY DEF Inv, JobsOK
<1>2. BootJobs' = BootJobs BY DEF BootJobs, Known, Home
<1>3. PICK S : /\ S \in {JoinJobs, BootJobs, OnboardJobs} /\ j \in S
               /\ jobs[w] \in Seq(S)
  BY DEF Inv, JobsOK, Worker
<1>4. /\ w = Joiner => jobs'[w] \in Seq(JoinJobs)
      /\ w = Booter => jobs'[w] \in Seq(BootJobs)
      /\ w = Onboarder => jobs'[w] \in Seq(OnboardJobs)
  BY <1>1, AppendProperties DEF Inv, JobsOK
<1>5. /\ jobs'[Joiner] \in Seq(JoinJobs) /\ jobs'[Booter] \in Seq(BootJobs)
      /\ jobs'[Onboarder] \in Seq(OnboardJobs)
  BY <1>1, <1>4 DEF Inv, JobsOK, Worker
<1>6. JobsOK' BY <1>1, <1>2, <1>5 DEF JobsOK, JoinJobs, OnboardJobs
<1>7. HeadKept(w)
  <2>1. jobs[w] # <<>> => /\ Append(jobs[w], j) # <<>>
                          /\ Head(Append(jobs[w], j)) = Head(jobs[w])
    BY <1>3, HeadTailAppend, AppendProperties
  <2>2. QED BY <1>1, <2>1 DEF HeadKept
<1>8. \A b \in Worker \ {w} : HeadKept(b) BY <1>1 DEF HeadKept
<1>9. QED BY <1>6, <1>7, <1>8

(* A worker is done with its job, which brought one for the bootstraps.    *)
LEMMA HandedOn ==
  ASSUME Inv, NEW w \in {Joiner, Onboarder}, act[w].step # "idle",
         NEW j \in BootJobs, UNCHANGED users,
         jobs' = [EndJobs(w) EXCEPT ![Booter] = Append(@, j)]
  PROVE  /\ JobsOK' /\ \A b \in Worker \ {w} : HeadKept(b)
         /\ jobs'[Booter] = Append(jobs[Booter], j)
         /\ jobs'[w] = Tail(jobs[w])
         /\ \A v \in Worker \ {w, Booter} : jobs'[v] = jobs[v]
<1>1. w \in Worker /\ w # Booter BY DEF Worker, Joiner, Booter, Onboarder
<1>2. jobs[w] # <<>> BY <1>1, WorkerOrder
<1>3. PICK E : E = EndJobs(w) OBVIOUS
<1>4. E = [jobs EXCEPT ![w] = Tail(jobs[w])] BY <1>1, <1>3 DEF EndJobs
<1>5. /\ E = [v \in Worker |-> E[v]] /\ E[w] = Tail(jobs[w])
      /\ \A v \in Worker \ {w} : E[v] = jobs[v]
  BY <1>1, <1>4 DEF Inv, JobsOK
<1>6. Booter \in Worker BY DEF Worker
<1>7. jobs' = [E EXCEPT ![Booter] = Append(jobs[Booter], j)]
  BY <1>1, <1>3, <1>5, <1>6
<1>8. /\ jobs' = [v \in Worker |-> jobs'[v]]
      /\ jobs'[w] = Tail(jobs[w])
      /\ jobs'[Booter] = Append(jobs[Booter], j)
      /\ \A v \in Worker \ {w, Booter} : jobs'[v] = jobs[v]
  BY <1>1, <1>5, <1>6, <1>7
<1>9. /\ w = Joiner => Tail(jobs[w]) \in Seq(JoinJobs)
      /\ w = Onboarder => Tail(jobs[w]) \in Seq(OnboardJobs)
  BY <1>2, HeadTailProperties DEF Inv, JobsOK
<1>10. Append(jobs[Booter], j) \in Seq(BootJobs)
  BY AppendProperties DEF Inv, JobsOK
<1>11. BootJobs' = BootJobs BY DEF BootJobs, Known, Home
<1>12. jobs'[Joiner] \in Seq(JoinJobs) /\ jobs'[Onboarder] \in Seq(OnboardJobs)
  BY <1>8, <1>9 DEF Inv, JobsOK, Worker, Joiner, Booter, Onboarder
<1>13. JobsOK'
  BY <1>8, <1>10, <1>11, <1>12 DEF JobsOK, JoinJobs, OnboardJobs
<1>14. HeadKept(Booter)
  <2>1. jobs[Booter] \in Seq(BootJobs) BY DEF Inv, JobsOK
  <2>2. jobs[Booter] # <<>> =>
          /\ Append(jobs[Booter], j) # <<>>
          /\ Head(Append(jobs[Booter], j)) = Head(jobs[Booter])
    BY <2>1, HeadTailAppend, AppendProperties
  <2>3. QED BY <1>8, <2>2 DEF HeadKept
<1>15. \A b \in Worker \ {w, Booter} : HeadKept(b) BY <1>8 DEF HeadKept
<1>16. QED BY <1>8, <1>13, <1>14, <1>15

LEMMA JoinDispatchInv ==
  ASSUME Inv, JoinDispatch(Joiner)
  PROVE  Inv'
<1>1. /\ Joiner \in Actor /\ act[Joiner].step = "dispatch" /\ Joiner \in Worker
      /\ End(Joiner)
  BY DEF Actor, Worker, JoinDispatch, At
<1>2. UNCHANGED <<users, roles, grants, assigned, cache, told>>
  BY DEF JoinDispatch
<1>3. StoreOK'
  <2>1. incidents' = [overlooked |-> incidents'.overlooked,
                      torn |-> incidents'.torn, stale |-> incidents'.stale,
                      careless |-> incidents'.careless,
                      orphans |-> incidents'.orphans]
    BY DEF JoinDispatch, Inv, StoreOK, Orphan
  <2>2. QED BY <1>2, <2>1 DEF Inv, StoreOK, TypeOK, Known
<1>4. CASE jobs' = EndJobs(Joiner)
  BY <1>1, <1>2, <1>3, <1>4, EndJobsOK, Popping
<1>5. CASE jobs' = [EndJobs(Joiner) EXCEPT ![Booter] =
                      Append(@, MemberJob(act[Joiner].order, act[Joiner].of))]
  <2>1. PICK s : s = act[Joiner] OBVIOUS
  <2>2. PICK u : u = s.of OBVIOUS
  <2>3. Fits(Joiner, s) BY <1>1, <2>1, Going DEF Inv
  <2>4. u \in Known /\ Home(u) = s.order.church /\ s.order \in JoinJobs
    BY <1>1, <2>1, <2>2, <2>3, WorkerOrder DEF Fits
  <2>5. PICK j : j = MemberJob(s.order, u) OBVIOUS
  <2>6. j \in BootJobs
    <3>1. "MEMBER" \in Role BY StartAssumption DEF Range
    <3>2. j \in BootDoc
      BY <2>4, <2>5, <3>1 DEF MemberJob, BootDoc, JoinJobs, Maybe, Known
    <3>3. j.user = u /\ j.church = s.order.church BY <2>5 DEF MemberJob
    <3>4. u # Missing BY <2>4, MissingAssumption DEF Known
    <3>5. QED BY <2>4, <3>2, <3>3, <3>4 DEF BootJobs
  <2>7. jobs' = [EndJobs(Joiner) EXCEPT ![Booter] = Append(@, j)]
    BY <1>5, <2>1, <2>2, <2>5
  <2>8. JobsOK' /\ \A b \in Worker \ {Joiner} : HeadKept(b)
    BY <1>1, <1>2, <2>6, <2>7, HandedOn
  <2>9. QED BY <1>1, <1>2, <1>3, <2>8, Popping
<1>6. QED BY <1>4, <1>5 DEF JoinDispatch

LEMMA CreateFounderInv ==
  ASSUME Inv, CreateFounder(Booter)
  PROVE  Inv'
<1>1. /\ Booter \in Actor /\ act[Booter].step = "user" /\ Booter \in Worker
      /\ Booter \notin Request /\ act[Booter].order.op \in Bootstraps
      /\ act[Booter].order.op = "boot" /\ Booter # Joiner
  BY SlotAssumption DEF Actor, Worker, CreateFounder, At, Bootstraps, Joiner, Booter
<1>2. PICK s : s = act[Booter] OBVIOUS
<1>3. Fits(Booter, s) /\ IsRun(s) BY <1>1, <1>2, Going DEF Inv
<1>4. PICK o : o = s.order OBVIOUS
<1>5. o.user = Missing BY <1>1, <1>2, <1>3, <1>4 DEF Fits
<1>6. o.email \in Email /\ o.password \in Password /\ o.church \in Church
  BY <1>1, <1>2, <1>4, <1>5, Bootstrapping
<1>7. PICK d : d = NewUser(o, o.email, FALSE) OBVIOUS
<1>8. d \in UserDoc /\ d.church = o.church BY <1>6, <1>7, NewUserDoc
<1>9. PICK u \in Free : /\ users' = [users EXCEPT ![u] = d]
                        /\ told' = [told EXCEPT !.users[u] = d]
                        /\ Go(Booter, [s EXCEPT !.step = "assign", !.of = u])
  BY Zenon, <1>2, <1>4, <1>7 DEF CreateFounder
<1>10. told' = [told EXCEPT !.users = [told.users EXCEPT ![u] = d]]
  BY <1>9 DEF Inv, StoreOK
<1>11. u \in User /\ u \notin Known BY DEF Free
<1>12. incidents' = [overlooked |-> incidents'.overlooked,
                     torn |-> incidents'.torn, stale |-> incidents'.stale,
                     careless |-> incidents'.careless,
                     orphans |-> incidents'.orphans]
  BY DEF CreateFounder, Inv, StoreOK
<1>13. UNCHANGED <<roles, grants, assigned, cache, jobs>> BY DEF CreateFounder
<1>14. PICK n : n = [s EXCEPT !.step = "assign", !.of = u] OBVIOUS
<1>15. act' = [act EXCEPT ![Booter] = n] BY <1>9, <1>14 DEF Go
<1>16. n = Run("assign", s.order, s.roles, s.rights, u, s.copy, s.left, s.at)
  BY Zenon, <1>3, <1>14, SetStepOf
<1>17. d # Missing BY <1>8, MissingAssumption
<1>18. u \in Known' /\ users'[u].church = o.church
  BY <1>8, <1>9, <1>11, <1>17 DEF Known, Inv, StoreOK, TypeOK
<1>19. Fits(Booter, n)'
  BY <1>1, <1>2, <1>3, <1>4, <1>5, <1>13, <1>16, <1>18 DEF Fits, IsRun, Run, Home
<1>20. QED
  BY <1>1, <1>8, <1>9, <1>10, <1>11, <1>12, <1>13, <1>15, <1>19, Growing

LEMMA AssignCreatorInv ==
  ASSUME Inv, NEW a \in Actor, AssignCreator(a)
  PROVE  Inv'
<1>1. act[a].step = "assign" /\ act[a].order.op \in Bootstraps
  BY DEF AssignCreator, At
<1>2. PICK s : s = act[a] OBVIOUS
<1>3. Fits(a, s) /\ IsRun(s) BY <1>1, <1>2, Going DEF Inv
<1>4. PICK u : u = s.of OBVIOUS
<1>5. u \in Known /\ u \in User /\ s.order.roles \in SUBSET Role
  BY <1>1, <1>2, <1>3, <1>4, Bootstrapping DEF Fits, Known
<1>6. UNCHANGED <<users, roles, grants, cache, told>> BY DEF AssignCreator
<1>7. StoreOK'
  <2>1. /\ assigned' \in [User -> Maybe(SUBSET Role)]
        /\ \A v \in User : assigned'[v] # Missing => v \in Known
    BY <1>2, <1>4, <1>5 DEF AssignCreator, Inv, StoreOK, TypeOK, Maybe, Known
  <2>2. incidents' = [overlooked |-> incidents'.overlooked,
                      torn |-> incidents'.torn, stale |-> incidents'.stale,
                      careless |-> incidents'.careless,
                      orphans |-> incidents'.orphans]
    BY DEF AssignCreator, Inv, StoreOK
  <2>3. QED BY <1>6, <2>1, <2>2 DEF Inv, StoreOK, TypeOK, Known
<1>8. CASE s.order.op = "bootstrap"
  <2>1. UNCHANGED jobs /\ a \in Request
    BY <1>1, <1>2, <1>8, Bootstrapping DEF AssignCreator
  <2>2. PICK L : L = {u} OBVIOUS
  <2>3. PICK n : n = [s EXCEPT !.step = "invalidate", !.left = L] OBVIOUS
  <2>4. n = Run("invalidate", s.order, s.roles, s.rights, s.of, s.copy, L, s.at)
    BY Zenon, <1>3, <2>3, SetStepLeft
  <2>5. Fits(a, n) BY <1>3, <1>5, <2>1, <2>2, <2>4 DEF Fits, IsRun, Run
  <2>6. act' = [act EXCEPT ![a] = n]
    BY <1>2, <1>4, <1>8, <2>2, <2>3 DEF AssignCreator, Go
  <2>7. QED BY <1>6, <1>7, <2>1, <2>5, <2>6, Still
<1>9. CASE s.order.op # "bootstrap"
  <2>1. End(a) /\ jobs' = EndJobs(a) BY <1>2, <1>9 DEF AssignCreator
  <2>2. QED BY <1>1, <1>6, <1>7, <2>1, EndJobsOK, Popping
<1>10. QED BY <1>8, <1>9

LEMMA ExpireInv ==
  ASSUME Inv, NEW u \in User, Expire(u)
  PROVE  Inv'
<1>1. UNCHANGED <<users, roles, grants, assigned, act, jobs, told>>
  BY DEF Expire
<1>2. StoreOK'
  <2>1. /\ cache' \in [User -> Maybe(SUBSET Permission)]
        /\ \A v \in User : cache'[v] # Missing => v \in Known
    BY DEF Expire, Inv, StoreOK, TypeOK, Maybe
  <2>2. incidents' = [overlooked |-> incidents'.overlooked,
                      torn |-> incidents'.torn, stale |-> incidents'.stale,
                      careless |-> incidents'.careless,
                      orphans |-> incidents'.orphans]
    BY DEF Expire, Inv, StoreOK
  <2>3. QED BY <1>1, <2>1, <2>2 DEF Inv, StoreOK, TypeOK, Known
<1>3. JobsOK' BY <1>1 DEF Inv, JobsOK, BootJobs, Known, Home
<1>4. ActOK'
  BY <1>1 DEF Inv, ActOK, Fits, RequestFits, Known, Home
<1>5. QED BY <1>2, <1>3, <1>4 DEF Inv

(* What a failure leaves in the histories.                                 *)
LEMMA UndoneShape ==
  ASSUME Inv, NEW S
  PROVE  LET I == Undone(S) IN
         /\ I = [overlooked |-> I.overlooked, torn |-> I.torn, stale |-> I.stale,
                 careless |-> I.careless, orphans |-> I.orphans]
         /\ I.overlooked = incidents.overlooked \union UNION {Announced(a) : a \in S}
         /\ I.torn = incidents.torn \union
              {Replacing(a) : a \in {b \in S : Replacing(b) # Missing}}
         /\ I.orphans = incidents.orphans \union
              {act[a].of : a \in {b \in S : act[b].step = "dispatch"}}
         /\ I.stale = incidents.stale /\ I.careless = incidents.careless
<1>1. PICK A : A = incidents.overlooked \union UNION {Announced(a) : a \in S}
  OBVIOUS
<1>2. PICK B : B = incidents.torn \union
                 {Replacing(a) : a \in {b \in S : Replacing(b) # Missing}}
  OBVIOUS
<1>3. PICK C : C = incidents.orphans \union
                 {act[a].of : a \in {b \in S : act[b].step = "dispatch"}}
  OBVIOUS
<1>4. PICK I1 : I1 = [incidents EXCEPT !.overlooked = A] OBVIOUS
<1>5. PICK I2 : I2 = [I1 EXCEPT !.torn = B] OBVIOUS
<1>6. I1 = [overlooked |-> A, torn |-> incidents.torn, stale |-> incidents.stale,
            careless |-> incidents.careless, orphans |-> incidents.orphans]
  BY <1>4 DEF Inv, StoreOK
<1>7. I2 = [overlooked |-> A, torn |-> B, stale |-> incidents.stale,
            careless |-> incidents.careless, orphans |-> incidents.orphans]
  BY <1>5, <1>6
<1>8. Undone(S) = [I2 EXCEPT !.orphans = C]
  BY <1>1, <1>2, <1>3, <1>4, <1>5 DEF Undone, Inv, StoreOK
<1>9. Undone(S) = [overlooked |-> A, torn |-> B, stale |-> incidents.stale,
                   careless |-> incidents.careless, orphans |-> C]
  BY <1>7, <1>8
<1>10. QED BY <1>1, <1>2, <1>3, <1>9

LEMMA FailInv ==
  ASSUME Inv, NEW a \in Actor, Fail(a)
  PROVE  Inv'
<1>1. act[a].step # "idle" BY DEF Fail, Inv, ActOK, Fits
<1>2. UNCHANGED <<users, roles, grants, assigned, cache, told>> BY DEF Fail
<1>3. StoreOK'
  <2>1. PICK I : I = Undone({a}) OBVIOUS
  <2>2. I = [overlooked |-> I.overlooked, torn |-> I.torn, stale |-> I.stale,
             careless |-> I.careless, orphans |-> I.orphans]
    BY <2>1, UndoneShape
  <2>3. incidents' = [I EXCEPT !.orphans = @ \union Lost(a)]
    BY <2>1 DEF Fail
  <2>4. incidents' = [overlooked |-> incidents'.overlooked,
                      torn |-> incidents'.torn, stale |-> incidents'.stale,
                      careless |-> incidents'.careless,
                      orphans |-> incidents'.orphans]
    BY <2>2, <2>3
  <2>5. QED BY <1>2, <2>4 DEF Inv, StoreOK, TypeOK, Known
<1>4. End(a) /\ jobs' = EndJobs(a) BY DEF Fail
<1>5. QED BY <1>1, <1>2, <1>3, <1>4, EndJobsOK, Popping

LEMMA CrashInv ==
  ASSUME Inv, Crash
  PROVE  Inv'
<1>1. UNCHANGED <<users, roles, grants, assigned, told, jobs>> BY DEF Crash
<1>2. StoreOK'
  <2>1. /\ cache' \in [User -> Maybe(SUBSET Permission)]
        /\ \A v \in User : cache'[v] # Missing => v \in Known
    BY DEF Crash, Inv, StoreOK, TypeOK, Maybe
  <2>2. incidents' = [overlooked |-> incidents'.overlooked,
                      torn |-> incidents'.torn, stale |-> incidents'.stale,
                      careless |-> incidents'.careless,
                      orphans |-> incidents'.orphans]
    BY UndoneShape DEF Crash
  <2>3. QED BY <1>1, <2>1, <2>2 DEF Inv, StoreOK, TypeOK, Known
<1>3. JobsOK' BY <1>1 DEF Inv, JobsOK, BootJobs, Known, Home
<1>4. ActOK' BY DEF Crash, ActOK
<1>5. QED BY <1>2, <1>3, <1>4 DEF Inv

LEMMA RequestStepInv ==
  ASSUME Inv, NEW q \in Request, RequestStep(q)
  PROVE  Inv'
<1>1. CASE \E o \in Order : Begin(q, o) BY <1>1, BeginInv
<1>2. CASE Resolve(q) \/ ReadGrants(q) \/ Fill(q) \/ Look(q)
  BY <1>2, ResolveInv, ReadGrantsInv, FillInv, LookInv
<1>3. CASE AssignRoles(q) \/ Invalidate(q) BY <1>3, AssignRolesInv, InvalidateInv
<1>4. CASE FindRole(q) \/ StoreRole(q) BY <1>4, RoleInv
<1>5. CASE EmptyRole(q) \/ FillRole(q) BY <1>5, PermitInv
<1>6. CASE FindHolders(q) BY <1>6, FindHoldersInv
<1>7. QED BY <1>1, <1>2, <1>3, <1>4, <1>5, <1>6 DEF RequestStep

LEMMA BootstrapStepInv ==
  ASSUME Inv, NEW a \in Actor, BootstrapStep(a)
  PROVE  Inv'
BY StoreBaseRoleInv, FillBaseRoleInv, AssignCreatorInv DEF BootstrapStep

(* The steps of roles and permissions, alone.                              *)
LEMMA NextInv ==
  ASSUME Inv, [Next]_vars
  PROVE  Inv'
<1>1. CASE \E q \in Request : RequestStep(q) \/ BootstrapStep(q)
  BY <1>1, RequestStepInv, BootstrapStepInv DEF Actor
<1>2. CASE \E u \in User : Expire(u) BY <1>2, ExpireInv
<1>3. CASE \E a \in Actor : Fail(a) BY <1>3, FailInv
<1>4. CASE Crash BY <1>4, CrashInv
<1>5. CASE UNCHANGED vars
  <2>1. UNCHANGED <<users, roles, grants, assigned, cache, act, jobs, told,
                    incidents>>
    BY <1>5 DEF vars
  <2>2. StoreOK' BY <2>1, StoreStays DEF Inv
  <2>3. JobsOK' BY <2>1 DEF Inv, JobsOK, BootJobs, Known, Home
  <2>4. ActOK' BY <2>1 DEF Inv, ActOK, Fits, RequestFits, Known, Home
  <2>5. QED BY <2>2, <2>3, <2>4 DEF Inv
<1>6. QED BY <1>1, <1>2, <1>3, <1>4, <1>5 DEF Next

(***************************************************************************)
(* The people of the churches.                                             *)
(***************************************************************************)

(* What a request on churches and ministers has in hand: a church and a    *)
(* minister that are stored, as it read them.                              *)
Serving(s) ==
  /\ s.step \in {"minister", "first", "second"} =>
       /\ s.order.op \in {"assignChurch", "removeMinister"}
       /\ s.order.church \in Present(churches) /\ s.copy[1] \in ChurchDoc
       /\ s.order.op = "assignChurch" => s.copy[1].minister = Missing
       /\ s.order.op = "removeMinister" => s.copy[1].minister \in Present(ministers)
  /\ s.step = "minister" => s.copy = <<s.copy[1]>>
  /\ s.step \in {"first", "second"} =>
       /\ s.copy[2] \in MinisterDoc
       /\ s.order.op = "assignChurch" =>
            s.order.minister \in Present(ministers) /\ s.copy[2].church = Missing
  /\ s.step = "rewrite" /\ s.order.op = "editChurch" =>
       /\ s.order.church \in Present(churches) /\ s.copy \in ChurchDoc
       /\ s.copy.minister \in Maybe(Present(ministers))
  /\ s.step = "rewrite" /\ s.order.op = "saveMinister" =>
       /\ s.copy \in MinisterDoc /\ s.copy.church \in Maybe(Present(churches))
       /\ s.order.minister \in Present(ministers) \/ s.copy.church = Missing

(* The job of an onboarding is of a customer who applied, and the church   *)
(* founded is that of the customer once completed.                         *)
Founding(s) ==
  /\ s.step \in {"tenant", "furnish"} => s.of \in Church
  /\ s.step = "furnish" => customers[s.order.customer].tenant = s.of

PeopleOK ==
  /\ churches \in [Church -> Maybe(ChurchDoc)]
  /\ ministers \in [Minister -> Maybe(MinisterDoc)]
  /\ customers \in [Customer -> Maybe(CustomerDoc)]
  /\ broken = [split |-> broken.split, unfounded |-> broken.unfounded]
  /\ \A c \in Present(churches) : churches[c].minister \in Maybe(Present(ministers))
  /\ \A m \in Present(ministers) : ministers[m].church \in Maybe(Present(churches))
  /\ jobs[Onboarder] \in Seq([op : {"onboard"}, customer : Present(customers)])
  /\ \A q \in Request : Serving(act[q])
  /\ Founding(act[Onboarder])

(* A church and a minister differ only when a write of one of them is in   *)
(* doubt, or a request that links or parts the two is between its writes.  *)
Parting(c, m) ==
  \E q \in Request : /\ act[q].step = "second"
                     /\ act[q].order.church = c /\ Pastor(q) = m
Links ==
  \A c \in Present(churches), m \in Present(ministers) :
    (churches[c].minister = m) # (ministers[m].church = c) =>
      {c, m} \intersect broken.split # {} \/ Parting(c, m)

(* The side written first is as it was written, or in doubt.               *)
Halves ==
  \A q \in Request :
    act[q].step = "second" =>
      LET c == act[q].order.church
          m == Pastor(q)
      IN \/ {c, m} \intersect broken.split # {}
         \/ Linked(q) /\ churches[c].minister = m
         \/ ~Linked(q) /\ ministers[m].church # c

PeopleInv == Inv /\ PeopleOK
LinkInv == Links /\ Halves

(* The steps of requests and workers on people.                            *)
PeopleSteps == {"minister", "first", "second", "rewrite", "tenant", "furnish"}

(* The step an actor goes on to, whatever else it takes along.             *)
LEMMA StepSet ==
  ASSUME NEW s, IsRun(s), NEW x, NEW y, NEW z
  PROVE  /\ [s EXCEPT !.step = x].step = x
         /\ [s EXCEPT !.step = x, !.rights = y, !.roles = z].step = x
         /\ [s EXCEPT !.roles = y, !.step = x].step = x
         /\ [s EXCEPT !.step = x, !.rights = y].step = x
         /\ [s EXCEPT !.step = x, !.left = y].step = x
         /\ [s EXCEPT !.left = y].step = s.step
         /\ [s EXCEPT !.at = y, !.of = z, !.step = x].step = x
         /\ [s EXCEPT !.step = x, !.of = y].step = x
         /\ [s EXCEPT !.step = x, !.of = y, !.copy = z].step = x
         /\ [s EXCEPT !.step = x, !.copy = y].step = x
BY DEF IsRun

(* A step on users and rights is at none of them, before or after.         *)
LEMMA RequestMoves ==
  ASSUME Inv, NEW q \in Actor,
         \/ q \in Request /\ RequestStep(q)
         \/ BootstrapStep(q)
         \/ q \in Request /\ (FindUser(q) \/ Upsert(q) \/ FindAgain(q))
         \/ q \in Request /\ (SetPassword(q) \/ CreateUser(q))
  PROVE  /\ act[q].step \notin PeopleSteps
         /\ \E n : act' = [act EXCEPT ![q] = n] /\ n.step \notin PeopleSteps
<1> DEFINE Moves == \E n : act' = [act EXCEPT ![q] = n] /\ n.step \notin PeopleSteps
<1>1. ASSUME NEW n, Go(q, n), n.step \notin PeopleSteps PROVE Moves
  BY <1>1 DEF Go
<1>2. ASSUME End(q) PROVE Moves
  <2>1. Idle.step \notin PeopleSteps BY DEF Idle, PeopleSteps
  <2>2. QED BY <1>1, <1>2, <2>1 DEF End
<1>3. act[q].step # "idle" => IsRun(act[q]) BY Going DEF Inv
<1>4. ASSUME NEW st, st \notin PeopleSteps, Step(q, st), act[q].step # "idle"
      PROVE  Moves
  <2>1. PICK n : n = [act[q] EXCEPT !.step = st] OBVIOUS
  <2>2. n.step = st BY <1>3, <1>4, <2>1, StepSet
  <2>3. QED BY <1>1, <1>4, <2>1, <2>2 DEF Step
<1>5. ASSUME NEW R, act[q].step # "idle" PROVE Decided(q, R).step \notin PeopleSteps
  <2>1. PICK n : n = [act[q] EXCEPT !.step = "do", !.rights = {}, !.roles = {}]
    OBVIOUS
  <2>2. n.step = "do" BY <1>3, <1>5, <2>1, StepSet
  <2>3. QED BY <2>1, <2>2 DEF Decided, Idle, PeopleSteps
<1> HIDE DEF Moves
<1>6. CASE \E o \in Order : Begin(q, o)
  <2>1. PICK n : Go(q, n) /\ n.step \in {"resolve", "do"}
    BY <1>6 DEF Begin, Running
  <2>2. Moves BY <1>1, <2>1 DEF PeopleSteps
  <2>3. act[q].step = "idle" BY <1>6 DEF Begin, Idle
  <2>4. QED BY <2>2, <2>3 DEF PeopleSteps, Moves
<1>7. CASE Resolve(q) \/ ReadGrants(q) \/ Fill(q)
  <2>1. act[q].step \in {"resolve", "grants", "fill"} /\ act[q].step # "idle"
    BY <1>7 DEF Resolve, ReadGrants, Fill
  <2>2. CASE Resolve(q)
    <3>1. PICK R, st : st \in {"fill", "grants"} /\
            \/ \E P : Go(q, Decided(q, P))
            \/ Go(q, [act[q] EXCEPT !.roles = R, !.step = st])
      BY Zenon, <2>2 DEF Resolve
    <3>2. [act[q] EXCEPT !.roles = R, !.step = st].step = st
      BY <1>3, <2>1, StepSet
    <3>3. QED BY <1>1, <1>5, <2>1, <3>1, <3>2 DEF PeopleSteps, Moves
  <2>3. CASE ReadGrants(q)
    <3>1. PICK P : Go(q, [act[q] EXCEPT !.step = "fill", !.rights = P])
      BY Zenon, <2>3 DEF ReadGrants
    <3>2. [act[q] EXCEPT !.step = "fill", !.rights = P].step = "fill"
      BY <1>3, <2>1, StepSet
    <3>3. QED BY <1>1, <2>1, <3>1, <3>2 DEF PeopleSteps, Moves
  <2>4. CASE Fill(q)
    BY <1>1, <1>5, <2>1, <2>4 DEF Fill, PeopleSteps, Moves
  <2>5. QED BY <1>7, <2>2, <2>3, <2>4
<1>8. CASE Look(q) \/ FindRole(q) \/ StoreRole(q) \/ EmptyRole(q) \/ FillRole(q)
           \/ CreateUser(q) \/ SetPassword(q) \/ Upsert(q) \/ StoreBaseRole(q)
  <2>1. /\ act[q].step \notin PeopleSteps /\ act[q].step # "idle"
        /\ \/ End(q)
           \/ \E st \in {"name", "holders", "insert", "find"} : Step(q, st)
    BY Zenon, <1>8 DEF Look, FindRole, StoreRole, EmptyRole, FillRole, CreateUser,
                SetPassword, Upsert, StoreBaseRole, At, PeopleSteps
  <2>2. QED BY <1>2, <1>4, <2>1 DEF PeopleSteps, Moves
<1>9. CASE AssignRoles(q) \/ FindHolders(q) \/ AssignCreator(q)
  <2>1. act[q].step \in {"do", "holders", "assign"}
    BY <1>9 DEF AssignRoles, FindHolders, AssignCreator, At
  <2>2. PICK L : End(q) \/ Go(q, [act[q] EXCEPT !.step = "invalidate", !.left = L])
    BY Zenon, <1>9 DEF AssignRoles, FindHolders, AssignCreator
  <2>3. [act[q] EXCEPT !.step = "invalidate", !.left = L].step = "invalidate"
    BY <1>3, <2>1, StepSet
  <2>4. QED BY <1>1, <1>2, <2>1, <2>2, <2>3 DEF PeopleSteps, Moves
<1>10. CASE Invalidate(q)
  <2>1. act[q].step = "invalidate" BY <1>10 DEF Invalidate
  <2>2. CASE End(q) BY <1>2, <2>1, <2>2 DEF PeopleSteps, Moves
  <2>3. CASE ~End(q)
    <3>1. PICK u \in act[q].left :
            Go(q, IF act[q].left = {u} THEN Idle
                  ELSE [act[q] EXCEPT !.left = @ \ {u}])
      BY <1>10, <2>3 DEF Invalidate
    <3>2. PICK n : n = [act[q] EXCEPT !.left = act[q].left \ {u}] OBVIOUS
    <3>3. n.step = "invalidate" BY <1>3, <2>1, <3>2, StepSet
    <3>4. n = [act[q] EXCEPT !.left = @ \ {u}]
      BY <1>3, <2>1, <3>2 DEF IsRun
    <3>5. QED BY <1>1, <1>2, <2>1, <3>1, <3>3, <3>4 DEF PeopleSteps, Moves, End
  <2>4. QED BY <2>2, <2>3
<1>11. CASE FillBaseRole(q)
  <2>1. act[q].step = "insert" BY <1>11 DEF FillBaseRole, At
  <2>2. PICK n : Go(q, n) /\ n.step \in {"role", "user", "assign"}
    <3>1. PICK s : s = act[q] OBVIOUS
    <3>2. PICK k : k = IF s.at = Len(BaseRoles) THEN s.at ELSE s.at + 1 OBVIOUS
    <3>3. PICK st : st = IF s.at # Len(BaseRoles) THEN "role"
                     ELSE IF s.order.user = Missing THEN "user" ELSE "assign"
      OBVIOUS
    <3>4. PICK u : u = s.order.user OBVIOUS
    <3>5. [s EXCEPT !.at = k, !.of = u, !.step = st] =
          [s EXCEPT !.at = IF s.at = Len(BaseRoles) THEN @ ELSE @ + 1,
             !.of = s.order.user,
             !.step = IF ~(s.at = Len(BaseRoles)) THEN "role"
                      ELSE IF s.order.user = Missing THEN "user" ELSE "assign"]
      BY <1>3, <2>1, <3>1, <3>2, <3>3, <3>4 DEF IsRun
    <3>6. PICK n : n = [s EXCEPT !.at = k, !.of = u, !.step = st] OBVIOUS
    <3>7. Go(q, n) BY <1>11, <3>1, <3>5, <3>6 DEF FillBaseRole
    <3>8. n.step = st BY <1>3, <2>1, <3>1, <3>6, StepSet
    <3>9. QED BY <3>3, <3>7, <3>8
  <2>3. QED BY <1>1, <2>1, <2>2 DEF PeopleSteps, Moves
<1>12. CASE FindUser(q) \/ FindAgain(q)
  <2>1. act[q].step \in {"do", "find"} BY Zenon, <1>12 DEF FindUser, FindAgain, At
  <2>2. PICK u, d, st : /\ st \in {"upsert", "password"}
                        /\ \/ End(q)
                           \/ Go(q, [act[q] EXCEPT !.step = st, !.of = u, !.copy = d])
    BY Zenon, <1>12 DEF FindUser, FindAgain, End
  <2>3. [act[q] EXCEPT !.step = st, !.of = u, !.copy = d].step = st
    BY <1>3, <2>1, StepSet
  <2>4. QED BY Zenon, <1>1, <1>2, <2>1, <2>2, <2>3 DEF PeopleSteps, Moves
<1>13. QED
  BY <1>6, <1>7, <1>8, <1>9, <1>10, <1>11, <1>12 DEF RequestStep, BootstrapStep

(* What a request on people goes on to: another step of it, at most.       *)
ChurchSteps == {"member", "dispatch", "rewrite", "minister", "first", "second"}
Onward(s, n) ==
  IsRun(n) /\ n.order = s.order /\ n.at = s.at /\ n.step \in ChurchSteps

LEMMA OnwardSets ==
  ASSUME NEW s, IsRun(s), NEW x \in ChurchSteps, NEW y
  PROVE  /\ Onward(s, [s EXCEPT !.step = x])
         /\ Onward(s, [s EXCEPT !.step = x, !.of = y])
         /\ Onward(s, [s EXCEPT !.step = x, !.copy = y])
<1>1. Onward(s, [s EXCEPT !.step = x]) BY SetStep DEF Onward, IsRun, Run
<1>2. Onward(s, [s EXCEPT !.step = x, !.of = y])
  <2>1. [s EXCEPT !.step = x, !.of = y] =
          Run(x, s.order, s.roles, s.rights, y, s.copy, s.left, s.at)
    BY Zenon, SetStepOf
  <2>2. QED BY <2>1 DEF Onward, IsRun, Run
<1>3. Onward(s, [s EXCEPT !.step = x, !.copy = y])
  <2>1. [s EXCEPT !.step = x, !.copy = y] =
          Run(x, s.order, s.roles, s.rights, s.of, y, s.left, s.at)
    BY Zenon, SetStepCopy
  <2>2. QED BY <2>1 DEF Onward, IsRun, Run
<1>4. QED BY <1>1, <1>2, <1>3

LEMMA ChurchMoves ==
  ASSUME Inv, NEW q \in Request, ChurchStep(q)
  PROVE  /\ act[q].step \in {"do"} \union ChurchSteps
         /\ UNCHANGED rbac
         /\ \E n : /\ act' = [act EXCEPT ![q] = n]
                   /\ n = Idle \/ Onward(act[q], n)
<1> DEFINE s == act[q]
           Moves == \E n : /\ act' = [act EXCEPT ![q] = n]
                           /\ n = Idle \/ Onward(s, n)
<1>1. s.step \in {"do"} \union ChurchSteps
  BY Zenon DEF ChurchStep, FindMember, StoreMember, DispatchJoin, ReadMember,
         WriteMember, FindFreeChurch, FindFreeMinister, FindServedChurch,
         FindItsMinister, WriteChurch, WriteMinister, ReadEdited,
         WriteEditedChurch, WriteSavedMinister, Apply, Complete, At, ChurchSteps
<1>2. q \in Actor /\ s.step # "idle" BY <1>1 DEF Actor, ChurchSteps
<1>3. IsRun(s) BY <1>2, Going DEF Inv
<1>4. UNCHANGED rbac
  BY Zenon DEF ChurchStep, FindMember, StoreMember, DispatchJoin, ReadMember,
         WriteMember, FindFreeChurch, FindFreeMinister, FindServedChurch,
         FindItsMinister, WriteChurch, WriteMinister, ReadEdited,
         WriteEditedChurch, WriteSavedMinister, Apply, Complete, Quiet, Stays
<1>5. ASSUME End(q) PROVE Moves BY <1>5 DEF End, Go
<1>6. ASSUME NEW n, Go(q, n), Onward(s, n) PROVE Moves BY <1>6 DEF Go
<1> HIDE DEF Moves
<1>7. ASSUME NEW x \in ChurchSteps, Step(q, x) PROVE Moves
  <2>1. PICK n : n = [s EXCEPT !.step = x] OBVIOUS
  <2>2. Onward(s, n) BY Zenon, <1>3, <2>1, OnwardSets
  <2>3. QED BY <1>6, <1>7, <2>1, <2>2 DEF Step
<1>8. ASSUME NEW x \in ChurchSteps, NEW y, Go(q, [s EXCEPT !.step = x, !.copy = y])
      PROVE  Moves
  <2>1. PICK n : n = [s EXCEPT !.step = x, !.copy = y] OBVIOUS
  <2>2. Onward(s, n) BY Zenon, <1>3, <2>1, OnwardSets
  <2>3. QED BY <1>6, <1>8, <2>1, <2>2
<1>9. ASSUME FindMember(q) \/ WriteChurch(q) \/ WriteMinister(q) PROVE Moves
  BY <1>5, <1>7, <1>9 DEF FindMember, WriteChurch, WriteMinister, ChurchSteps
<1>10. ASSUME StoreMember(q) PROVE Moves
  <2>1. CASE End(q) BY <1>5, <2>1
  <2>2. CASE ~End(q)
    <3>1. PICK m : Go(q, [s EXCEPT !.step = "dispatch", !.of = m])
      BY Zenon, <1>10, <2>2 DEF StoreMember
    <3>2. PICK n : n = [s EXCEPT !.step = "dispatch", !.of = m] OBVIOUS
    <3>3. "dispatch" \in ChurchSteps BY DEF ChurchSteps
    <3>4. Onward(s, n) BY Zenon, <1>3, <3>2, <3>3, OnwardSets
    <3>5. QED BY <1>6, <3>1, <3>2, <3>4
  <2>3. QED BY <2>1, <2>2
<1>11. ASSUME \/ DispatchJoin(q) \/ WriteMember(q) \/ WriteEditedChurch(q)
              \/ WriteSavedMinister(q) \/ Apply(q) \/ Complete(q)
       PROVE  Moves
  BY <1>5, <1>11 DEF DispatchJoin, WriteMember, WriteEditedChurch,
                     WriteSavedMinister, Apply, Complete
<1>12. ASSUME \/ ReadMember(q) \/ ReadEdited(q) \/ FindFreeChurch(q)
              \/ FindServedChurch(q) \/ FindFreeMinister(q) \/ FindItsMinister(q)
       PROVE  Moves
  <2>1. CASE End(q) BY <1>5, <2>1
  <2>2. CASE ~End(q)
    <3>1. \E x \in ChurchSteps : \E y : Go(q, [s EXCEPT !.step = x, !.copy = y])
      <4>1. CASE ReadMember(q)
        BY Zenon, <2>2, <4>1 DEF ReadMember, ChurchSteps
      <4>2. CASE ReadEdited(q)
        BY Zenon, <2>2, <4>2 DEF ReadEdited, ChurchSteps
      <4>3. CASE FindFreeChurch(q) \/ FindServedChurch(q)
        BY Zenon, <2>2, <4>3 DEF FindFreeChurch, FindServedChurch, ChurchSteps
      <4>4. CASE FindFreeMinister(q) \/ FindItsMinister(q)
        <5>1. PICK d : Go(q, [s EXCEPT !.step = "first", !.copy = Append(@, d)])
          BY Zenon, <2>2, <4>4 DEF FindFreeMinister, FindItsMinister
        <5>2. [s EXCEPT !.step = "first", !.copy = Append(@, d)] =
                [s EXCEPT !.step = "first", !.copy = Append(s.copy, d)]
          BY <1>3 DEF IsRun
        <5>3. QED BY Zenon, <5>1, <5>2 DEF ChurchSteps
      <4>5. QED BY Zenon, <1>12, <4>1, <4>2, <4>3, <4>4
    <3>2. PICK x \in ChurchSteps : \E y : Go(q, [s EXCEPT !.step = x, !.copy = y])
      BY Zenon, <3>1
    <3>3. PICK y : Go(q, [s EXCEPT !.step = x, !.copy = y]) BY Zenon, <3>2
    <3>4. QED BY Zenon, <1>8, <3>3
  <2>3. QED BY <2>1, <2>2
<1>13. Moves
  BY <1>9, <1>10, <1>11, <1>12 DEF ChurchStep
<1>14. QED BY Zenon, <1>1, <1>4, <1>13 DEF Moves

(* The queues after such a request: as they were, or one job longer.       *)
LEMMA ChurchJobs ==
  ASSUME Inv, NEW q \in Request, ChurchStep(q)
  PROVE  LET o == act[q].order IN
         \/ jobs' = jobs
         \/ /\ jobs' = [jobs EXCEPT ![Joiner] = Append(@, JoinJob(o))]
            /\ JoinJob(o) \in JoinJobs
         \/ /\ jobs' = [jobs EXCEPT ![Onboarder] =
                           Append(@, [op |-> "onboard", customer |-> o.customer])]
            /\ o.customer \in Customer /\ customers[o.customer] # Missing
<1> DEFINE o == act[q].order
<1>1. q \in Actor /\ q \notin Worker BY SlotAssumption DEF Actor
<1>2. act[q].step # "idle" /\ RequestFits(o)
  BY <1>1, ChurchMoves, WhoRuns DEF ChurchSteps
<1>3. CASE DispatchJoin(q)
  <2>1. o.op = "addMember" BY <1>3 DEF DispatchJoin, At
  <2>2. o.email \in Email /\ o.dni \in Dni /\ o.church \in Church
    BY <1>2, <2>1 DEF RequestFits, WellFormed
  <2>3. JoinJob(o) \in JoinJobs
    BY <2>2, StartAssumption, PeopleAssumption DEF JoinJob, JoinJobs
  <2>4. QED BY <1>3, <2>3 DEF DispatchJoin
<1>4. CASE Complete(q)
  <2>1. o.op = "complete" BY <1>4 DEF Complete, At
  <2>2. o.customer \in Customer BY <1>2, <2>1 DEF RequestFits, WellFormed
  <2>3. QED BY <1>4, <2>2 DEF Complete
<1>5. CASE ~DispatchJoin(q) /\ ~Complete(q)
  <2>1. Quiet(q)
    BY Zenon, <1>5 DEF ChurchStep, FindMember, StoreMember, ReadMember, WriteMember,
       FindFreeChurch, FindFreeMinister, FindServedChurch, FindItsMinister,
       WriteChurch, WriteMinister, ReadEdited, WriteEditedChurch,
       WriteSavedMinister, Apply
  <2>2. jobs' = jobs BY <1>1, <2>1 DEF Quiet, EndJobs
  <2>3. QED BY <2>2
<1>6. QED BY <1>3, <1>4, <1>5

LEMMA ChurchStepInv ==
  ASSUME Inv, NEW q \in Request, ChurchStep(q)
  PROVE  Inv'
<1>1. q \in Actor /\ q \notin Worker BY SlotAssumption DEF Actor
<1>2. act[q].step # "idle" BY ChurchMoves DEF ChurchSteps
<1>3. Fits(q, act[q]) BY <1>1, <1>2, Going DEF Inv
<1>4. PICK n : /\ act' = [act EXCEPT ![q] = n]
               /\ n = Idle \/ Onward(act[q], n)
  BY ChurchMoves
<1>5. UNCHANGED rbac BY ChurchMoves
<1>6. UNCHANGED <<users, roles, grants, assigned, cache, told, incidents>>
  BY <1>5 DEF rbac
<1>7. StoreOK' BY <1>6, StoreStays DEF Inv
<1>8. n = Idle \/ Fits(q, n)
  <2>1. CASE n = Idle BY <2>1
  <2>2. CASE Onward(act[q], n)
    <3>1. /\ IsRun(n) /\ n.order = act[q].order /\ n.at = act[q].at
          /\ n.step \in {"member", "dispatch", "rewrite", "minister", "first",
                         "second"}
      BY <2>2 DEF Onward, ChurchSteps
    <3>2. q # Joiner BY <1>1 DEF Worker
    <3>3. QED BY <1>1, <1>3, <3>1, <3>2 DEF Fits
  <2>3. QED BY <1>4, <2>1, <2>2
<1>9. JobsOK' /\ \A b \in Worker : HeadKept(b)
  <2>1. CASE jobs' = jobs
    BY <1>6, <2>1 DEF Inv, JobsOK, BootJobs, Known, Home, HeadKept
  <2>2. CASE \E j \in JoinJobs : jobs' = [jobs EXCEPT ![Joiner] = Append(@, j)]
    <3>1. Joiner \in Worker /\ Joiner # Booter /\ Joiner # Onboarder
      BY DEF Worker, Joiner, Booter, Onboarder
    <3>2. QED BY <1>6, <2>2, <3>1, Queued
  <2>3. CASE \E j \in OnboardJobs : jobs' = [jobs EXCEPT ![Onboarder] = Append(@, j)]
    <3>1. Onboarder \in Worker /\ Onboarder # Booter /\ Onboarder # Joiner
      BY DEF Worker, Joiner, Booter, Onboarder
    <3>2. QED BY <1>6, <2>3, <3>1, Queued
  <2>4. QED BY <2>1, <2>2, <2>3, ChurchJobs DEF OnboardJobs
<1>10. Grown BY <1>6 DEF Grown, Known
<1>11. n = Idle \/ Fits(q, n)' BY <1>1, <1>8, <1>9, <1>10, FitsKept
<1>12. ActOK' BY <1>1, <1>4, <1>9, <1>10, <1>11, ActStep DEF Inv
<1>13. QED BY <1>7, <1>9, <1>12 DEF Inv

(* The onboarding goes on, or hands its job on, or ends.                   *)
LEMMA OnboardMoves ==
  ASSUME PeopleInv, OnboardStep(Onboarder)
  PROVE  LET k == act[Onboarder].order.customer IN
         /\ Onboarder \in Actor /\ Onboarder \in Worker
         /\ Onboarder \notin Request
         /\ act[Onboarder].step \in {"do", "tenant", "furnish"}
         /\ UNCHANGED rbac
         /\ k \in Present(customers) /\ jobs[Onboarder] # <<>>
         /\ act[Onboarder].order = Head(jobs[Onboarder])
         /\ Fits(Onboarder, act[Onboarder]) /\ IsRun(act[Onboarder])
<1>1. Onboarder \in Actor /\ Onboarder \in Worker /\ Onboarder \notin Request
  BY SlotAssumption DEF Actor, Worker
<1>2. act[Onboarder].step \in {"do", "tenant", "furnish"}
  BY Zenon DEF OnboardStep, FoundChurch, CompleteCustomer, DispatchFounder, At
<1>3. UNCHANGED rbac
  BY Zenon DEF OnboardStep, FoundChurch, CompleteCustomer, DispatchFounder, Stays
<1>4. Fits(Onboarder, act[Onboarder]) /\ IsRun(act[Onboarder])
  BY <1>1, <1>2, Going DEF PeopleInv, Inv
<1>5. jobs[Onboarder] # <<>> /\ act[Onboarder].order = Head(jobs[Onboarder])
  BY <1>1, <1>4 DEF Fits
<1>6. Head(jobs[Onboarder]) \in [op : {"onboard"}, customer : Present(customers)]
  BY <1>5, HeadTailProperties DEF PeopleInv, PeopleOK
<1>7. act[Onboarder].order.customer \in Present(customers) BY <1>5, <1>6
<1>8. QED BY <1>1, <1>2, <1>3, <1>4, <1>5, <1>7

(* The job for the founder of a church is one for the bootstraps.          *)
LEMMA FounderJobOK ==
  ASSUME Inv, PeopleOK, NEW k \in Present(customers), NEW c \in Church
  PROVE  FounderJob(k, c) \in BootJobs
<1>1. customers[k] \in CustomerDoc BY DEF PeopleOK, Present, Maybe
<1>2. customers[k].email \in Email BY <1>1 DEF CustomerDoc
<1>3. "ADMIN" \in Role BY StartAssumption DEF Range
<1>4. QED
  BY <1>2, <1>3, StartAssumption DEF FounderJob, BootJobs, BootDoc, Maybe

LEMMA OnboardInv ==
  ASSUME PeopleInv, OnboardStep(Onboarder)
  PROVE  Inv'
<1> DEFINE s == act[Onboarder]
<1>1. /\ Onboarder \in Actor /\ Onboarder \in Worker /\ Onboarder \notin Request
      /\ s.step # "idle" /\ Fits(Onboarder, s) /\ IsRun(s) /\ Onboarder # Joiner
  BY OnboardMoves DEF Onboarder, Joiner
<1>2. UNCHANGED <<users, roles, grants, assigned, cache, told, incidents>>
  BY OnboardMoves DEF rbac
<1>3. StoreOK' BY <1>2, StoreStays DEF Inv, PeopleInv
<1>4. CASE FoundChurch(Onboarder) \/ CompleteCustomer(Onboarder)
  <2>1. UNCHANGED jobs BY Zenon, <1>4 DEF FoundChurch, CompleteCustomer
  <2>2. PICK n : /\ act' = [act EXCEPT ![Onboarder] = n]
                 /\ Fits(Onboarder, n)
    <3>1. CASE FoundChurch(Onboarder)
      <4>1. PICK c : Go(Onboarder, [s EXCEPT !.step = "tenant", !.of = c])
        BY Zenon, <3>1 DEF FoundChurch
      <4>2. PICK n : n = [s EXCEPT !.step = "tenant", !.of = c] OBVIOUS
      <4>3. n = Run("tenant", s.order, s.roles, s.rights, c, s.copy, s.left, s.at)
        BY Zenon, <1>1, <4>2, SetStepOf
      <4>4. Fits(Onboarder, n) BY <1>1, <4>3 DEF Fits, IsRun, Run
      <4>5. QED BY <4>1, <4>2, <4>4 DEF Go
    <3>2. CASE CompleteCustomer(Onboarder)
      <4>1. PICK n : n = [s EXCEPT !.step = "furnish"] OBVIOUS
      <4>2. n = Run("furnish", s.order, s.roles, s.rights, s.of, s.copy, s.left,
                    s.at)
        BY <1>1, <4>1, SetStep
      <4>3. Fits(Onboarder, n) BY <1>1, <4>2 DEF Fits, IsRun, Run
      <4>4. QED BY <3>2, <4>1, <4>3 DEF CompleteCustomer, Step, Go
    <3>3. QED BY <1>4, <3>1, <3>2
  <2>3. QED BY <1>1, <1>2, <1>3, <2>1, <2>2, Still DEF PeopleInv
<1>5. CASE DispatchFounder(Onboarder)
  <2>1. End(Onboarder) BY <1>5 DEF DispatchFounder
  <2>2. CASE jobs' = EndJobs(Onboarder)
    BY <1>1, <1>2, <1>3, <2>1, <2>2, EndJobsOK, Popping DEF PeopleInv
  <2>3. CASE jobs' # EndJobs(Onboarder)
    <3>1. PICK j : j = FounderJob(s.order.customer, s.of) OBVIOUS
    <3>2. jobs' = [EndJobs(Onboarder) EXCEPT ![Booter] = Append(@, j)]
      BY <1>5, <2>3, <3>1 DEF DispatchFounder
    <3>3. s.of \in Church
      BY <1>5 DEF PeopleInv, PeopleOK, Founding, DispatchFounder, At
    <3>4. j \in BootJobs BY <3>1, <3>3, OnboardMoves, FounderJobOK DEF PeopleInv
    <3>5. JobsOK' /\ \A b \in Worker \ {Onboarder} : HeadKept(b)
      BY <1>1, <1>2, <3>2, <3>4, HandedOn DEF PeopleInv
    <3>6. QED BY <1>1, <1>2, <1>3, <2>1, <3>5, Popping DEF PeopleInv
  <2>4. QED BY <2>2, <2>3
<1>6. QED BY <1>4, <1>5 DEF OnboardStep

(* At the start nobody links, parts or founds.                             *)
LEMMA PeopleInitInv ==
  ASSUME PeopleInit
  PROVE  PeopleInv
<1>1. Inv BY InitInv DEF PeopleInit
<1>2. /\ churches \in [Church -> Maybe(ChurchDoc)]
      /\ ministers \in [Minister -> Maybe(MinisterDoc)]
  BY DEF PeopleInit, Maybe, ChurchDoc, MinisterDoc
<1>3. customers \in [Customer -> Maybe(CustomerDoc)]
  <2>1. ASSUME NEW k \in Customer, Applicant[k] # Missing
        PROVE  Waiting(Applicant[k]) \in CustomerDoc
    BY <2>1, PeopleAssumption DEF Waiting, CustomerDoc, Maybe
  <2>2. QED BY <2>1 DEF PeopleInit, Maybe
<1>4. broken = [split |-> broken.split, unfounded |-> broken.unfounded]
  BY DEF PeopleInit
<1>5. /\ \A c \in Present(churches) : churches[c].minister = Missing
      /\ \A m \in Present(ministers) : ministers[m].church = Missing
  BY DEF PeopleInit, Present
<1>6. jobs[Onboarder] = <<>> BY DEF PeopleInit, Init, Worker
<1>7. \A a \in Actor : act[a] = Idle BY DEF PeopleInit, Init
<1>8. \A q \in Request : Serving(act[q])
  BY <1>7 DEF Actor, Serving, Idle
<1>9. Founding(act[Onboarder]) BY <1>7 DEF Actor, Worker, Founding, Idle
<1>10. QED
  BY <1>1, <1>2, <1>3, <1>4, <1>5, <1>6, <1>8, <1>9, EmptySeq
     DEF PeopleInv, PeopleOK, Maybe

(* What a request has in hand outlives the steps of the others.            *)
LEMMA ServingKept ==
  ASSUME NEW s, Serving(s), Present(churches) \subseteq Present(churches'),
         Present(ministers) \subseteq Present(ministers')
  PROVE  Serving(s)'
BY DEF Serving, Maybe

(* One actor goes on, and the collections grow.                            *)
LEMMA PeopleStep ==
  ASSUME PeopleInv, NEW q \in Actor, NEW n, act' = [act EXCEPT ![q] = n],
         churches' \in [Church -> Maybe(ChurchDoc)],
         ministers' \in [Minister -> Maybe(MinisterDoc)],
         customers' \in [Customer -> Maybe(CustomerDoc)],
         broken' = [split |-> broken'.split, unfounded |-> broken'.unfounded],
         Present(churches) \subseteq Present(churches'),
         Present(ministers) \subseteq Present(ministers'),
         \A c \in Present(churches') :
           churches'[c].minister \in Maybe(Present(ministers')),
         \A m \in Present(ministers') :
           ministers'[m].church \in Maybe(Present(churches')),
         jobs'[Onboarder] \in Seq([op : {"onboard"}, customer : Present(customers')]),
         q \in Request => Serving(n)',
         q = Onboarder => Founding(n)',
         q # Onboarder =>
           \A k \in Present(customers) : customers'[k] = customers[k]
  PROVE  PeopleOK'
<1>1. act'[q] = n /\ \A b \in Actor \ {q} : act'[b] = act[b]
  BY DEF PeopleInv, Inv, ActOK
<1>2. ASSUME NEW r \in Request PROVE Serving(act[r])'
  <2>1. CASE r = q BY <1>1, <2>1 DEF Serving
  <2>2. CASE r # q
    <3>1. PICK s : s = act[r] OBVIOUS
    <3>2. Serving(s) BY <3>1 DEF PeopleInv, PeopleOK
    <3>3. Serving(s)' BY <3>2, ServingKept
    <3>4. act'[r] = s BY <1>1, <2>2, <3>1 DEF Actor
    <3>5. QED BY <3>3, <3>4 DEF Serving
  <2>3. QED BY <2>1, <2>2
<1>3. Founding(act[Onboarder])'
  <2>1. CASE q = Onboarder BY <1>1, <2>1 DEF Founding
  <2>2. CASE q # Onboarder
    <3>1. PICK s : s = act[Onboarder] OBVIOUS
    <3>2. Founding(s) BY <3>1 DEF PeopleInv, PeopleOK
    <3>3. Onboarder \in Actor /\ Onboarder \in Worker BY DEF Actor, Worker
    <3>4. s.step = "furnish" => s.order.customer \in Present(customers)
      <4>1. SUFFICES ASSUME s.step = "furnish"
                     PROVE  s.order.customer \in Present(customers)
        OBVIOUS
      <4>2. jobs[Onboarder] # <<>> /\ s.order = Head(jobs[Onboarder])
        BY <3>1, <3>3, <4>1, WorkerOrder DEF PeopleInv
      <4>3. Head(jobs[Onboarder]) \in [op : {"onboard"}, customer : Present(customers)]
        BY <4>2, HeadTailProperties DEF PeopleInv, PeopleOK
      <4>4. QED BY <4>2, <4>3
    <3>5. Founding(s)' BY <2>2, <3>2, <3>4 DEF Founding
    <3>6. act'[Onboarder] = s BY <1>1, <2>2, <3>1, <3>3
    <3>7. QED BY <3>5, <3>6 DEF Founding
  <2>3. QED BY <2>1, <2>2
<1>4. QED BY <1>2, <1>3 DEF PeopleOK

(* The steps beside which the collections of people stay.                  *)
LEMMA PeopleStill ==
  ASSUME PeopleInv, NEW q \in Actor, NEW n, act' = [act EXCEPT ![q] = n],
         n.step \notin PeopleSteps, UNCHANGED <<churches, ministers, customers>>,
         broken' = [split |-> broken'.split, unfounded |-> broken'.unfounded],
         \/ jobs'[Onboarder] = jobs[Onboarder]
         \/ jobs[Onboarder] # <<>> /\ jobs'[Onboarder] = Tail(jobs[Onboarder])
  PROVE  PeopleOK'
<1>1. Serving(n)' BY DEF Serving, PeopleSteps
<1>2. Founding(n)' BY DEF Founding, PeopleSteps
<1>3. jobs'[Onboarder] \in Seq([op : {"onboard"}, customer : Present(customers')])
  <2>1. PICK S : S = [op : {"onboard"}, customer : Present(customers)] OBVIOUS
  <2>2. S = [op : {"onboard"}, customer : Present(customers')]
    BY <2>1 DEF Present
  <2>3. jobs[Onboarder] \in Seq(S) BY <2>1 DEF PeopleInv, PeopleOK
  <2>4. jobs'[Onboarder] \in Seq(S) BY <2>3, HeadTailProperties
  <2>5. QED BY <2>2, <2>4
<1>4. QED BY <1>1, <1>2, <1>3, PeopleStep DEF PeopleInv, PeopleOK

(* The steps of workers on users, as those of requests.                    *)
LEMMA WorkerMoves ==
  ASSUME Inv, NEW q \in Worker,
         \/ Take(q)
         \/ q = Joiner /\ (JoinCheck(q) \/ JoinCreate(q) \/ JoinDispatch(q))
         \/ q = Booter /\ CreateFounder(q)
  PROVE  /\ act[q].step \notin PeopleSteps
         /\ \E n : act' = [act EXCEPT ![q] = n] /\ n.step \notin PeopleSteps
         /\ jobs'[Onboarder] = jobs[Onboarder]
<1> DEFINE Moves == \E n : act' = [act EXCEPT ![q] = n] /\ n.step \notin PeopleSteps
<1>1. q \in Actor BY DEF Actor
<1>2. ASSUME NEW n, Go(q, n), n.step \notin PeopleSteps PROVE Moves
  BY <1>2 DEF Go
<1>3. ASSUME End(q) PROVE Moves
  <2>1. Idle.step \notin PeopleSteps BY DEF Idle, PeopleSteps
  <2>2. QED BY <1>2, <1>3, <2>1 DEF End
<1>4. act[q].step # "idle" => IsRun(act[q]) BY <1>1, Going DEF Inv
<1> HIDE DEF Moves
<1>5. act[q].step \notin PeopleSteps
  <2>1. CASE Take(q) BY <2>1 DEF Take, Idle, PeopleSteps
  <2>2. CASE ~Take(q)
    <3>1. act[q].step \in {"do", "create", "dispatch", "user"}
      BY Zenon, <2>2 DEF JoinCheck, JoinCreate, JoinDispatch, CreateFounder, At
    <3>2. QED BY <3>1 DEF PeopleSteps
  <2>3. QED BY <2>1, <2>2
<1>6. jobs'[Onboarder] = jobs[Onboarder]
  <2>1. CASE UNCHANGED jobs BY <2>1
  <2>2. CASE ~UNCHANGED jobs
    <3>1. q = Joiner /\ act[q].step # "idle"
      BY Zenon, <2>2 DEF Take, JoinCreate, CreateFounder, JoinCheck, JoinDispatch, At
    <3>2. PICK E : E = EndJobs(q) OBVIOUS
    <3>3. E[Onboarder] = jobs[Onboarder] /\ E = [w \in Worker |-> E[w]]
      BY Zenon, <3>1, <3>2 DEF EndJobs, Inv, JobsOK, Joiner, Onboarder, Worker
    <3>4. jobs' = E \/ \E j : jobs' = [E EXCEPT ![Booter] = Append(@, j)]
      BY Zenon, <2>2, <3>1, <3>2
         DEF Take, JoinCreate, CreateFounder, JoinCheck, JoinDispatch
    <3>5. Onboarder \in Worker /\ Booter # Onboarder
      BY DEF Worker, Booter, Onboarder
    <3>6. CASE jobs' = E BY <3>3, <3>6
    <3>7. CASE \E j : jobs' = [E EXCEPT ![Booter] = Append(@, j)]
      <4>1. PICK j : jobs' = [E EXCEPT ![Booter] = Append(@, j)] BY <3>7
      <4>2. QED BY <3>3, <3>5, <4>1
    <3>8. QED BY Zenon, <3>4, <3>6, <3>7
  <2>3. QED BY <2>1, <2>2
<1>7. ASSUME Take(q) PROVE Moves
  <2>1. PICK n : Go(q, n) /\ n.step = "do" BY <1>7 DEF Take, Running
  <2>2. QED BY <1>2, <2>1 DEF PeopleSteps
<1>8. ASSUME JoinCheck(q) PROVE Moves
  <2>1. act[q].step # "idle" BY <1>8 DEF JoinCheck, At
  <2>2. PICK n : n = [act[q] EXCEPT !.step = "create"] OBVIOUS
  <2>3. n.step = "create" BY <1>4, <2>1, <2>2, StepSet
  <2>4. End(q) \/ Go(q, n) BY <1>8, <2>2 DEF JoinCheck, Step
  <2>5. QED BY <1>2, <1>3, <2>3, <2>4 DEF PeopleSteps
<1>9. ASSUME JoinCreate(q) \/ CreateFounder(q) PROVE Moves
  <2>1. act[q].step # "idle" BY Zenon, <1>9 DEF JoinCreate, CreateFounder, At
  <2>2. PICK x \in {"dispatch", "assign"} :
          \E u : Go(q, [act[q] EXCEPT !.step = x, !.of = u])
    BY Zenon, <1>9 DEF JoinCreate, CreateFounder
  <2>3. PICK u : Go(q, [act[q] EXCEPT !.step = x, !.of = u]) BY Zenon, <2>2
  <2>4. PICK n : n = [act[q] EXCEPT !.step = x, !.of = u] OBVIOUS
  <2>5. n.step = x BY <1>4, <2>1, <2>4, StepSet
  <2>6. QED BY Zenon, <1>2, <2>3, <2>4, <2>5 DEF PeopleSteps
<1>10. ASSUME JoinDispatch(q) PROVE Moves BY <1>3, <1>10 DEF JoinDispatch
<1>11. Moves BY <1>7, <1>8, <1>9, <1>10
<1>12. QED BY <1>5, <1>6, <1>11 DEF Moves

(* The fields of an actor that goes on, one or two of them changed.        *)
LEMMA Changed ==
  ASSUME NEW s, IsRun(s), NEW x, NEW y
  PROVE  /\ [s EXCEPT !.step = x] =
              Run(x, s.order, s.roles, s.rights, s.of, s.copy, s.left, s.at)
         /\ [s EXCEPT !.step = x, !.copy = y] =
              Run(x, s.order, s.roles, s.rights, s.of, y, s.left, s.at)
         /\ [s EXCEPT !.step = x, !.of = y] =
              Run(x, s.order, s.roles, s.rights, y, s.copy, s.left, s.at)
BY Zenon, SetStep, SetStepCopy, SetStepOf

(* What a request on people reads, and takes along.                        *)
LEMMA ChurchReads ==
  ASSUME PeopleInv, NEW q \in Request, ChurchStep(q),
         ~WriteChurch(q), ~WriteMinister(q), ~WriteEditedChurch(q),
         ~WriteSavedMinister(q), ~Apply(q)
  PROVE  /\ UNCHANGED <<churches, ministers, customers, broken>>
         /\ \E n : /\ act' = [act EXCEPT ![q] = n]
                   /\ Serving(n) /\ n.step # "second"
<1> DEFINE Moves == \E n : /\ act' = [act EXCEPT ![q] = n]
                           /\ Serving(n) /\ n.step # "second"
<1>1. PICK s : s = act[q] OBVIOUS
<1>2. q \in Actor /\ s.step # "idle"
  BY <1>1, ChurchMoves DEF Actor, PeopleInv, ChurchSteps
<1>3. IsRun(s) BY <1>1, <1>2, Going DEF PeopleInv, Inv
<1>4. Serving(s) BY <1>1 DEF PeopleInv, PeopleOK
<1>5. RequestFits(s.order) BY <1>1, <1>2, WhoRuns DEF PeopleInv
<1>6. UNCHANGED <<churches, ministers, customers, broken>>
  BY Zenon DEF ChurchStep, FindMember, StoreMember, DispatchJoin, ReadMember,
         WriteMember, FindFreeChurch, FindFreeMinister, FindServedChurch,
         FindItsMinister, ReadEdited, Complete, people
<1>7. ASSUME NEW n, Go(q, n), Serving(n), n.step # "second" PROVE Moves
  BY <1>7 DEF Go
<1>8. ASSUME End(q) PROVE Moves
  <2>1. Serving(Idle) /\ Idle.step # "second" BY DEF Serving, Idle
  <2>2. QED BY <1>7, <1>8, <2>1 DEF End
<1> HIDE DEF Moves
<1>9. ASSUME FindMember(q) PROVE Moves
  <2>1. PICK n : n = [s EXCEPT !.step = "member"] OBVIOUS
  <2>2. n.step = "member" BY <1>3, <2>1, StepSet
  <2>3. End(q) \/ Go(q, n) BY <1>1, <1>9, <2>1 DEF FindMember, Step
  <2>4. QED BY <1>7, <1>8, <2>2, <2>3 DEF Serving
<1>10. ASSUME StoreMember(q), ~End(q) PROVE Moves
  <2>1. PICK m : Go(q, [s EXCEPT !.step = "dispatch", !.of = m])
    BY Zenon, <1>1, <1>10 DEF StoreMember
  <2>2. PICK n : n = [s EXCEPT !.step = "dispatch", !.of = m] OBVIOUS
  <2>3. n.step = "dispatch" BY <1>3, <2>2, StepSet
  <2>4. QED BY <1>7, <2>1, <2>2, <2>3 DEF Serving
<1>11. ASSUME ReadMember(q), ~End(q) PROVE Moves
  <2>1. PICK y : Go(q, [s EXCEPT !.step = "rewrite", !.copy = y])
    BY Zenon, <1>1, <1>11 DEF ReadMember
  <2>2. PICK n : n = [s EXCEPT !.step = "rewrite", !.copy = y] OBVIOUS
  <2>3. n.step = "rewrite" /\ n.order = s.order
    BY Zenon, <1>3, <2>2, Changed DEF Run
  <2>4. s.order.op = "editMember" BY <1>1, <1>11 DEF ReadMember, At
  <2>5. QED BY <1>7, <2>1, <2>2, <2>3, <2>4 DEF Serving
<1>12. ASSUME FindFreeChurch(q) \/ FindServedChurch(q), ~End(q) PROVE Moves
  <2>1. PICK c : c = s.order.church OBVIOUS
  <2>2. PICK y : y = <<churches[c]>> OBVIOUS
  <2>3. PICK n : n = [s EXCEPT !.step = "minister", !.copy = y] OBVIOUS
  <2>4. /\ s.order.op \in {"assignChurch", "removeMinister"}
        /\ churches[c] # Missing /\ Go(q, n)
        /\ s.order.op = "assignChurch" => churches[c].minister = Missing
        /\ s.order.op = "removeMinister" => churches[c].minister # Missing
    BY <1>1, <1>12, <2>1, <2>2, <2>3 DEF FindFreeChurch, FindServedChurch, At
  <2>5. c \in Church BY <1>5, <2>1, <2>4 DEF RequestFits, WellFormed
  <2>6. /\ c \in Present(churches) /\ churches[c] \in ChurchDoc
        /\ churches[c].minister \in Maybe(Present(ministers))
    BY <2>4, <2>5 DEF PeopleInv, PeopleOK, Present, Maybe
  <2>7. n.step = "minister" /\ n.order = s.order /\ n.copy = y
    BY Zenon, <1>3, <2>3, Changed DEF Run
  <2>8. y[1] = churches[c] /\ y = <<y[1]>> BY <2>2
  <2>9. Serving(n)
    BY <2>1, <2>4, <2>6, <2>7, <2>8 DEF Serving, Maybe
  <2>10. QED BY <1>7, <2>4, <2>7, <2>9
<1>13. ASSUME FindFreeMinister(q) \/ FindItsMinister(q), ~End(q) PROVE Moves
  <2>1. s.step = "minister" /\ s.order.op \in {"assignChurch", "removeMinister"}
    BY <1>1, <1>13 DEF FindFreeMinister, FindItsMinister, At
  <2>2. PICK m : m = IF s.order.op = "assignChurch" THEN s.order.minister
                     ELSE s.copy[1].minister
    OBVIOUS
  <2>3. PICK y : y = Append(s.copy, ministers[m]) OBVIOUS
  <2>4. PICK n : n = [s EXCEPT !.step = "first", !.copy = y] OBVIOUS
  <2>5. /\ Go(q, n)
        /\ s.order.op = "assignChurch" =>
             ministers[m] # Missing /\ ministers[m].church = Missing
    <3>1. [s EXCEPT !.step = "first", !.copy = Append(@, ministers[m])] = n
      BY <1>3, <2>3, <2>4 DEF IsRun
    <3>2. QED
      BY <1>1, <1>13, <2>2, <3>1 DEF FindFreeMinister, FindItsMinister, At
  <2>6. m \in Present(ministers)
    <3>1. CASE s.order.op = "assignChurch"
      BY <1>5, <2>2, <2>5, <3>1 DEF RequestFits, WellFormed, Present, PeopleInv,
                                    PeopleOK
    <3>2. CASE s.order.op = "removeMinister"
      BY <1>4, <2>1, <2>2, <3>2 DEF Serving
    <3>3. QED BY <2>1, <3>1, <3>2
  <2>7. ministers[m] \in MinisterDoc
    BY <2>6 DEF Present, PeopleInv, PeopleOK, Maybe
  <2>8. y[1] = s.copy[1] /\ y[2] = ministers[m]
    <3>1. PICK x, z : x = s.copy[1] /\ z = ministers[m] OBVIOUS
    <3>2. s.copy = <<x>> BY <1>4, <2>1, <3>1 DEF Serving
    <3>3. y = Append(<<x>>, z) BY <2>3, <3>1, <3>2
    <3>4. QED BY <3>1, <3>3
  <2>9. n.step = "first" /\ n.order = s.order /\ n.copy = y
    BY Zenon, <1>3, <2>4, Changed DEF Run
  <2>10. Serving(n)
    BY <1>4, <2>1, <2>2, <2>5, <2>6, <2>7, <2>8, <2>9 DEF Serving
  <2>11. QED BY <1>7, <2>5, <2>9, <2>10
<1>14. ASSUME ReadEdited(q), ~End(q) PROVE Moves
  <2>1. s.order.op \in {"editChurch", "saveMinister"}
    BY <1>1, <1>14 DEF ReadEdited, At
  <2>2. PICK d : d = IF s.order.op = "editChurch" THEN churches[s.order.church]
                     ELSE ministers[s.order.minister]
    OBVIOUS
  <2>3. PICK y : y = IF d = Missing THEN [church |-> Missing] ELSE d OBVIOUS
  <2>4. PICK n : n = [s EXCEPT !.step = "rewrite", !.copy = y] OBVIOUS
  <2>5. Go(q, n) /\ (s.order.op = "editChurch" => d # Missing)
    BY <1>1, <1>14, <2>2, <2>3, <2>4 DEF ReadEdited
  <2>6. n.step = "rewrite" /\ n.order = s.order /\ n.copy = y
    BY Zenon, <1>3, <2>4, Changed DEF Run
  <2>7. CASE s.order.op = "editChurch"
    <3>1. s.order.church \in Church BY <1>5, <2>7 DEF RequestFits, WellFormed
    <3>2. y = churches[s.order.church] /\ s.order.church \in Present(churches)
      BY <2>2, <2>3, <2>5, <2>7, <3>1 DEF Present, PeopleInv, PeopleOK
    <3>3. y \in ChurchDoc /\ y.minister \in Maybe(Present(ministers))
      BY <3>1, <3>2 DEF PeopleInv, PeopleOK, Present, Maybe
    <3>4. QED BY <1>7, <2>5, <2>6, <2>7, <3>2, <3>3 DEF Serving
  <2>8. CASE s.order.op = "saveMinister"
    <3>1. PICK m : m = s.order.minister OBVIOUS
    <3>2. m \in Minister BY <1>5, <2>8, <3>1 DEF RequestFits, WellFormed
    <3>3. CASE d = Missing
      <4>1. y = [church |-> Missing] BY <2>3, <3>3
      <4>2. y \in MinisterDoc /\ y.church = Missing
        BY <4>1 DEF MinisterDoc, Maybe
      <4>3. QED BY <1>7, <2>5, <2>6, <2>8, <4>2 DEF Serving, Maybe
    <3>4. CASE d # Missing
      <4>1. y = ministers[m] /\ m \in Present(ministers)
        BY <2>2, <2>3, <2>8, <3>1, <3>2, <3>4 DEF Present, PeopleInv, PeopleOK
      <4>2. y \in MinisterDoc /\ y.church \in Maybe(Present(churches))
        BY <3>2, <4>1 DEF PeopleInv, PeopleOK, Present, Maybe
      <4>3. QED BY <1>7, <2>5, <2>6, <2>8, <3>1, <4>1, <4>2 DEF Serving
    <3>5. QED BY <3>3, <3>4
  <2>9. QED BY <2>1, <2>7, <2>8
<1>15. Moves
  BY <1>8, <1>9, <1>10, <1>11, <1>12, <1>13, <1>14
     DEF ChurchStep, DispatchJoin, WriteMember, Complete
<1>16. QED BY <1>6, <1>15 DEF Moves

(* The church and the minister a request is about to link or to part.      *)
LEMMA BothPresent ==
  ASSUME PeopleInv, NEW q \in Request, act[q].step \in {"first", "second"}
  PROVE  LET c == act[q].order.church
             m == Pastor(q)
         IN /\ c \in Present(churches) /\ c \in Church /\ c # Missing
            /\ m \in Present(ministers) /\ m \in Minister /\ m # Missing
            /\ churches[c] \in ChurchDoc /\ ministers[m] \in MinisterDoc
            /\ act[q].copy[1] \in ChurchDoc /\ act[q].copy[2] \in MinisterDoc
            /\ Linked(q) => /\ act[q].copy[1].minister = Missing
                            /\ act[q].copy[2].church = Missing
            /\ ~Linked(q) => act[q].copy[1].minister = m
            /\ Linked(q) \/ act[q].order.op = "removeMinister"
<1>1. Serving(act[q]) BY DEF PeopleInv, PeopleOK
<1>2. act[q].order.op \in {"assignChurch", "removeMinister"} BY <1>1 DEF Serving
<1>3. act[q].order.church \in Present(churches) BY <1>1 DEF Serving
<1>4. Pastor(q) \in Present(ministers)
  BY <1>1, <1>2 DEF Serving, Pastor, Linked
<1>5. act[q].order.church \in Church /\ Pastor(q) \in Minister
  BY <1>3, <1>4 DEF Present, PeopleInv, PeopleOK
<1>6. /\ churches[act[q].order.church] \in ChurchDoc
      /\ ministers[Pastor(q)] \in MinisterDoc
  BY <1>3, <1>4, <1>5 DEF Present, PeopleInv, PeopleOK, Maybe
<1>7. act[q].order.church # Missing /\ Pastor(q) # Missing
  BY <1>5, PeopleAssumption
<1>8. QED
  BY <1>1, <1>2, <1>3, <1>4, <1>5, <1>6, <1>7 DEF Serving, Linked, Pastor

(* The step a link or a parting is at after one of its writes.             *)
LEMMA LinkGoes ==
  ASSUME PeopleInv, NEW q \in Request, WriteChurch(q) \/ WriteMinister(q)
  PROVE  /\ act[q].step \in {"first", "second"} /\ q \in Actor
         /\ act[q].step = "first" =>
              \E n : /\ act' = [act EXCEPT ![q] = n] /\ n.step = "second"
                     /\ n.order = act[q].order /\ n.copy = act[q].copy
         /\ act[q].step = "second" => act' = [act EXCEPT ![q] = Idle]
<1>1. act[q].step \in {"first", "second"}
  BY DEF WriteChurch, WriteMinister, At
<1>2. q \in Actor BY DEF Actor
<1>3. IsRun(act[q]) BY <1>1, <1>2, Going DEF PeopleInv, Inv
<1>4. act[q].step = "first" => Step(q, "second")
  BY DEF WriteChurch, WriteMinister, At, Linked
<1>5. act[q].step = "second" => End(q)
  BY DEF WriteChurch, WriteMinister, At, Linked
<1>6. PICK n : n = [act[q] EXCEPT !.step = "second"] OBVIOUS
<1>7. n.step = "second" /\ n.order = act[q].order /\ n.copy = act[q].copy
  BY <1>3, <1>6, SetStep DEF Run
<1>8. QED BY <1>1, <1>2, <1>4, <1>5, <1>6, <1>7 DEF Step, End, Go

LEMMA SplitShape ==
  ASSUME PeopleOK, NEW b \in BOOLEAN, NEW x, broken' = Split(b, x)
  PROVE  /\ broken' = [split |-> broken'.split, unfounded |-> broken'.unfounded]
         /\ broken'.split = IF b THEN broken.split \union {x} ELSE broken.split
         /\ broken'.unfounded = broken.unfounded
BY DEF PeopleOK, Split

(* What the jobs are of: customers that are stored.                        *)
LEMMA ChurchQueue ==
  ASSUME PeopleInv, NEW q \in Request, ChurchStep(q),
         Present(customers) \subseteq Present(customers')
  PROVE  jobs'[Onboarder] \in Seq([op : {"onboard"}, customer : Present(customers')])
<1>1. PICK S : S = [op : {"onboard"}, customer : Present(customers')] OBVIOUS
<1>2. jobs[Onboarder] \in Seq(S)
  <2>1. [op : {"onboard"}, customer : Present(customers)] \subseteq S BY <1>1
  <2>2. QED BY <2>1, SeqMonotonic DEF PeopleInv, PeopleOK
<1>3. CASE jobs'[Onboarder] = jobs[Onboarder] BY <1>1, <1>2, <1>3
<1>4. CASE jobs'[Onboarder] # jobs[Onboarder]
  <2>1. Joiner # Onboarder /\ Onboarder \in Worker
    BY DEF Joiner, Onboarder, Worker
  <2>2. PICK k : k = act[q].order.customer OBVIOUS
  <2>3. PICK j : j = [op |-> "onboard", customer |-> k] OBVIOUS
  <2>4. /\ jobs' = [jobs EXCEPT ![Onboarder] = Append(@, j)]
        /\ k \in Present(customers)
    BY <1>4, <2>1, <2>2, <2>3, ChurchJobs DEF PeopleInv, PeopleOK, Present, Inv, JobsOK
  <2>5. j \in S BY <1>1, <2>3, <2>4
  <2>6. jobs'[Onboarder] = Append(jobs[Onboarder], j)
    BY <2>1, <2>4 DEF PeopleInv, Inv, JobsOK
  <2>7. jobs'[Onboarder] \in Seq(S) BY <1>2, <2>5, <2>6, AppendProperties
  <2>8. QED BY <1>1, <2>7
<1>5. QED BY <1>3, <1>4

LEMMA WritesPeople ==
  ASSUME PeopleInv, NEW q \in Request,
         WriteChurch(q) \/ WriteMinister(q)
  PROVE  PeopleOK'
<1> DEFINE c == act[q].order.church
           m == Pastor(q)
<1>1. q \in Actor /\ q # Onboarder
  BY SlotAssumption DEF Actor, Worker
<1>2. act[q].step \in {"first", "second"} BY LinkGoes
<1>3. PICK n : /\ act' = [act EXCEPT ![q] = n]
               /\ n = Idle \/ /\ act[q].step = "first" /\ n.step = "second"
                              /\ n.order = act[q].order /\ n.copy = act[q].copy
  BY <1>2, LinkGoes
<1>4. Serving(n)
  <2>1. CASE n = Idle BY <2>1 DEF Serving, Idle
  <2>2. CASE n # Idle
    <3>1. Serving(act[q]) BY DEF PeopleInv, PeopleOK
    <3>2. QED BY <1>3, <2>2, <3>1 DEF Serving
  <2>3. QED BY <2>1, <2>2
<1>5. broken' = [split |-> broken'.split, unfounded |-> broken'.unfounded]
  <2>1. PICK b \in BOOLEAN : \E x : broken' = Split(b, x)
    BY DEF WriteChurch, WriteMinister
  <2>2. QED BY <2>1, SplitShape DEF PeopleInv
<1>6. UNCHANGED customers BY DEF WriteChurch, WriteMinister
<1>7. ChurchStep(q) BY DEF ChurchStep
<1>8. jobs'[Onboarder] \in Seq([op : {"onboard"}, customer : Present(customers')])
  <2>1. Present(customers) \subseteq Present(customers') BY <1>6 DEF Present
  <2>2. QED BY <1>7, <2>1, ChurchQueue
<1>9. CASE WriteChurch(q)
  <2>1. PICK d : /\ d = [minister |-> IF Linked(q) THEN m ELSE Missing]
                 /\ churches' = [churches EXCEPT ![c] = d]
    BY <1>9 DEF WriteChurch
  <2>2. /\ c \in Present(churches) /\ c \in Church
        /\ m \in Present(ministers) /\ m \in Minister
    BY <1>2, BothPresent
  <2>3. d \in ChurchDoc /\ d # Missing /\ d.minister \in Maybe(Present(ministers))
    BY <2>1, <2>2, PeopleAssumption DEF ChurchDoc, Maybe
  <2>4. UNCHANGED ministers BY <1>9 DEF WriteChurch
  <2>5. /\ churches' \in [Church -> Maybe(ChurchDoc)]
        /\ Present(churches') = Present(churches)
        /\ Present(ministers') = Present(ministers)
    BY <2>1, <2>2, <2>3, <2>4 DEF PeopleInv, PeopleOK, Present, Maybe
  <2>6. \A x \in Present(churches') : churches'[x].minister \in Maybe(Present(ministers'))
    BY <2>1, <2>3, <2>5 DEF PeopleInv, PeopleOK, Present
  <2>7. \A x \in Present(ministers') : ministers'[x].church \in Maybe(Present(churches'))
    BY <2>4, <2>5 DEF PeopleInv, PeopleOK
  <2>8. Serving(n)' BY <1>4, <2>5, ServingKept
  <2>9. QED
    BY <1>1, <1>3, <1>5, <1>6, <1>8, <2>4, <2>5, <2>6, <2>7, <2>8, PeopleStep
       DEF PeopleInv, PeopleOK
<1>10. CASE WriteMinister(q)
  <2>1. PICK d : /\ d = [church |-> IF Linked(q) THEN c ELSE Missing]
                 /\ ministers' = [ministers EXCEPT ![m] = d]
    BY <1>10 DEF WriteMinister
  <2>2. /\ c \in Present(churches) /\ c \in Church
        /\ m \in Present(ministers) /\ m \in Minister
    BY <1>2, BothPresent
  <2>3. d \in MinisterDoc /\ d # Missing /\ d.church \in Maybe(Present(churches))
    BY <2>1, <2>2, PeopleAssumption DEF MinisterDoc, Maybe
  <2>4. UNCHANGED churches BY <1>10 DEF WriteMinister
  <2>5. /\ ministers' \in [Minister -> Maybe(MinisterDoc)]
        /\ Present(churches') = Present(churches)
        /\ Present(ministers') = Present(ministers)
    BY <2>1, <2>2, <2>3, <2>4 DEF PeopleInv, PeopleOK, Present, Maybe
  <2>6. \A x \in Present(churches') : churches'[x].minister \in Maybe(Present(ministers'))
    BY <2>4, <2>5 DEF PeopleInv, PeopleOK, Present
  <2>7. \A x \in Present(ministers') : ministers'[x].church \in Maybe(Present(churches'))
    BY <2>1, <2>3, <2>5 DEF PeopleInv, PeopleOK, Present
  <2>8. Serving(n)' BY <1>4, <2>5, ServingKept
  <2>9. QED
    BY <1>1, <1>3, <1>5, <1>6, <1>8, <2>4, <2>5, <2>6, <2>7, <2>8, PeopleStep
       DEF PeopleInv, PeopleOK
<1>11. QED BY <1>9, <1>10

LEMMA EditsPeople ==
  ASSUME PeopleInv, NEW q \in Request,
         WriteEditedChurch(q) \/ WriteSavedMinister(q)
  PROVE  /\ PeopleOK'
         /\ act[q].step = "rewrite" /\ q \in Actor
         /\ act' = [act EXCEPT ![q] = Idle]
<1>1. q \in Actor /\ q # Onboarder
  BY SlotAssumption DEF Actor, Worker
<1>2. /\ act[q].step = "rewrite" /\ End(q)
      /\ act[q].order.op \in {"editChurch", "saveMinister"}
  BY DEF WriteEditedChurch, WriteSavedMinister, At
<1>3. PICK n : n = Idle OBVIOUS
<1>4. act' = [act EXCEPT ![q] = n] BY <1>2, <1>3 DEF End, Go
<1>5. Serving(n)' BY <1>3 DEF Serving, Idle
<1>6. broken' = [split |-> broken'.split, unfounded |-> broken'.unfounded]
  <2>1. PICK b \in BOOLEAN : \E x : broken' = Split(b, x)
    BY DEF WriteEditedChurch, WriteSavedMinister
  <2>2. QED BY <2>1, SplitShape DEF PeopleInv
<1>7. UNCHANGED customers BY DEF WriteEditedChurch, WriteSavedMinister
<1>8. ChurchStep(q) BY DEF ChurchStep
<1>9. jobs'[Onboarder] \in Seq([op : {"onboard"}, customer : Present(customers')])
  <2>1. Present(customers) \subseteq Present(customers') BY <1>7 DEF Present
  <2>2. QED BY <1>8, <2>1, ChurchQueue
<1>10. Serving(act[q]) BY DEF PeopleInv, PeopleOK
<1>11. RequestFits(act[q].order) BY <1>1, <1>2, WhoRuns DEF PeopleInv
<1>12. CASE WriteEditedChurch(q)
  <2>1. PICK c, d : c = act[q].order.church /\ d = act[q].copy OBVIOUS
  <2>2. churches' = [churches EXCEPT ![c] = d] /\ UNCHANGED ministers
    BY <1>12, <2>1 DEF WriteEditedChurch
  <2>3. act[q].order.op = "editChurch" BY <1>12 DEF WriteEditedChurch, At
  <2>4. /\ c \in Present(churches) /\ d \in ChurchDoc /\ d # Missing
        /\ d.minister \in Maybe(Present(ministers))
    BY <1>2, <1>10, <2>1, <2>3, PeopleAssumption DEF Serving
  <2>5. /\ churches' \in [Church -> Maybe(ChurchDoc)]
        /\ Present(churches') = Present(churches)
        /\ Present(ministers') = Present(ministers)
    BY <2>2, <2>4 DEF PeopleInv, PeopleOK, Present, Maybe
  <2>6. \A x \in Present(churches') : churches'[x].minister \in Maybe(Present(ministers'))
    BY <2>2, <2>4, <2>5 DEF PeopleInv, PeopleOK, Present
  <2>7. \A x \in Present(ministers') : ministers'[x].church \in Maybe(Present(churches'))
    BY <2>2, <2>5 DEF PeopleInv, PeopleOK
  <2>8. PeopleOK'
    BY <1>1, <1>4, <1>5, <1>6, <1>7, <1>9, <2>2, <2>5, <2>6, <2>7, PeopleStep
       DEF PeopleInv, PeopleOK
  <2>9. QED BY <1>1, <1>2, <1>3, <1>4, <2>8
<1>13. CASE WriteSavedMinister(q)
  <2>1. PICK m, d : m = act[q].order.minister /\ d = act[q].copy OBVIOUS
  <2>2. ministers' = [ministers EXCEPT ![m] = d] /\ UNCHANGED churches
    BY <1>13, <2>1 DEF WriteSavedMinister
  <2>3. act[q].order.op = "saveMinister" BY <1>13 DEF WriteSavedMinister, At
  <2>4. m \in Minister BY <1>11, <2>1, <2>3 DEF RequestFits, WellFormed
  <2>5. /\ d \in MinisterDoc /\ d # Missing
        /\ d.church \in Maybe(Present(churches))
    BY <1>2, <1>10, <2>1, <2>3, PeopleAssumption DEF Serving
  <2>6. /\ ministers' \in [Minister -> Maybe(MinisterDoc)]
        /\ Present(churches') = Present(churches)
        /\ Present(ministers') = Present(ministers) \union {m}
    BY <2>2, <2>4, <2>5 DEF PeopleInv, PeopleOK, Present, Maybe
  <2>7. \A x \in Present(churches') : churches'[x].minister \in Maybe(Present(ministers'))
    BY <2>2, <2>6 DEF PeopleInv, PeopleOK, Maybe
  <2>8. \A x \in Present(ministers') : ministers'[x].church \in Maybe(Present(churches'))
    BY <2>2, <2>4, <2>5, <2>6 DEF PeopleInv, PeopleOK, Present
  <2>9. PeopleOK'
    BY <1>1, <1>4, <1>5, <1>6, <1>7, <1>9, <2>2, <2>6, <2>7, <2>8, PeopleStep
       DEF PeopleInv, PeopleOK
  <2>10. QED BY <1>1, <1>2, <1>3, <1>4, <2>9
<1>14. QED BY <1>12, <1>13

LEMMA ApplyPeople ==
  ASSUME PeopleInv, NEW q \in Request, Apply(q)
  PROVE  PeopleOK'
<1>1. q \in Actor /\ q # Onboarder
  BY SlotAssumption DEF Actor, Worker
<1>2. PICK n : n = Idle OBVIOUS
<1>3. act' = [act EXCEPT ![q] = n] BY <1>2 DEF Apply, End, Go
<1>4. Serving(n)' BY <1>2 DEF Serving, Idle
<1>5. act[q].step # "idle" /\ act[q].order.op = "apply" BY DEF Apply, At
<1>6. act[q].order.email \in Email
  BY <1>1, <1>5, WhoRuns DEF RequestFits, WellFormed, PeopleInv
<1>7. PICK d : d = Waiting(act[q].order.email) OBVIOUS
<1>8. d \in CustomerDoc /\ d # Missing
  BY <1>6, <1>7, PeopleAssumption DEF Waiting, CustomerDoc, Maybe
<1>9. PICK k \in Customer \ Present(customers) :
        customers' = [customers EXCEPT ![k] = d]
  BY <1>7 DEF Apply
<1>10. UNCHANGED <<churches, ministers, broken>> BY DEF Apply
<1>11. /\ customers' \in [Customer -> Maybe(CustomerDoc)]
       /\ Present(customers) \subseteq Present(customers')
       /\ \A x \in Present(customers) : customers'[x] = customers[x]
  BY <1>8, <1>9 DEF PeopleInv, PeopleOK, Present, Maybe
<1>12. ChurchStep(q) BY DEF ChurchStep
<1>13. jobs'[Onboarder] \in Seq([op : {"onboard"}, customer : Present(customers')])
  BY <1>11, <1>12, ChurchQueue
<1>14. QED
  BY <1>1, <1>3, <1>4, <1>10, <1>11, <1>13, PeopleStep
     DEF PeopleInv, PeopleOK

LEMMA ChurchStepPeople ==
  ASSUME PeopleInv, NEW q \in Request, ChurchStep(q)
  PROVE  PeopleOK'
<1>1. CASE WriteChurch(q) \/ WriteMinister(q) BY <1>1, WritesPeople
<1>2. CASE WriteEditedChurch(q) \/ WriteSavedMinister(q) BY <1>2, EditsPeople
<1>3. CASE Apply(q) BY <1>3, ApplyPeople
<1>4. CASE /\ ~WriteChurch(q) /\ ~WriteMinister(q) /\ ~WriteEditedChurch(q)
           /\ ~WriteSavedMinister(q) /\ ~Apply(q)
  <2>1. UNCHANGED <<churches, ministers, customers, broken>>
    BY <1>4, ChurchReads
  <2>2. PICK n : act' = [act EXCEPT ![q] = n] /\ Serving(n)
    BY <1>4, ChurchReads
  <2>3. Present(customers) \subseteq Present(customers') BY <2>1 DEF Present
  <2>4. jobs'[Onboarder] \in Seq([op : {"onboard"}, customer : Present(customers')])
    BY <2>3, ChurchQueue
  <2>5. Serving(n)' BY <2>1, <2>2 DEF Serving, Present
  <2>6. q \in Actor /\ q # Onboarder BY SlotAssumption DEF Actor, Worker
  <2>7. QED
    BY <2>1, <2>2, <2>4, <2>5, <2>6, PeopleStep DEF PeopleInv, PeopleOK, Present
<1>5. QED BY <1>1, <1>2, <1>3, <1>4

(* What the onboarding founds, completes and hands on.                     *)
LEMMA OnboardPeople ==
  ASSUME PeopleInv, OnboardStep(Onboarder)
  PROVE  PeopleOK'
<1> DEFINE s == act[Onboarder]
           k == s.order.customer
<1>1. /\ Onboarder \in Actor /\ Onboarder \notin Request /\ IsRun(s)
      /\ k \in Present(customers) /\ jobs[Onboarder] # <<>>
  BY OnboardMoves
<1>2. CASE FoundChurch(Onboarder)
  <2>1. PICK c \in Church \ Present(churches) :
          /\ churches' = [churches EXCEPT ![c] = [minister |-> Missing]]
          /\ Go(Onboarder, [s EXCEPT !.step = "tenant", !.of = c])
    BY Zenon, <1>2 DEF FoundChurch
  <2>2. PICK n : n = [s EXCEPT !.step = "tenant", !.of = c] OBVIOUS
  <2>3. n.step = "tenant" /\ n.of = c BY Zenon, <1>1, <2>2, SetStepOf DEF Run
  <2>4. Founding(n)' BY <2>1, <2>3 DEF Founding
  <2>5. PICK d : d = [minister |-> Missing] OBVIOUS
  <2>6. d \in ChurchDoc /\ d # Missing /\ d.minister = Missing
    BY <2>5, PeopleAssumption DEF ChurchDoc, Maybe
  <2>7. /\ churches' \in [Church -> Maybe(ChurchDoc)]
        /\ Present(churches') = Present(churches) \union {c}
    BY <2>1, <2>5, <2>6 DEF PeopleInv, PeopleOK, Present, Maybe
  <2>8. UNCHANGED <<ministers, customers, broken, jobs>>
    BY <1>2 DEF FoundChurch
  <2>9. \A x \in Present(churches') : churches'[x].minister \in Maybe(Present(ministers'))
    BY <2>1, <2>5, <2>6, <2>7, <2>8 DEF PeopleInv, PeopleOK, Present, Maybe
  <2>10. \A x \in Present(ministers') : ministers'[x].church \in Maybe(Present(churches'))
    BY <2>7, <2>8 DEF PeopleInv, PeopleOK, Maybe
  <2>11. act' = [act EXCEPT ![Onboarder] = n] BY <2>1, <2>2 DEF Go
  <2>12. QED
    BY <1>1, <2>4, <2>7, <2>8, <2>9, <2>10, <2>11, PeopleStep
       DEF PeopleInv, PeopleOK
<1>3. CASE CompleteCustomer(Onboarder)
  <2>1. PICK n : n = [s EXCEPT !.step = "furnish"] OBVIOUS
  <2>2. n.step = "furnish" /\ n.of = s.of /\ n.order = s.order
    BY <1>1, <2>1, SetStep DEF Run
  <2>3. act' = [act EXCEPT ![Onboarder] = n]
    BY <1>3, <2>1 DEF CompleteCustomer, Step, Go
  <2>4. s.of \in Church
    BY <1>3 DEF CompleteCustomer, At, PeopleInv, PeopleOK, Founding
  <2>5. customers[k] \in CustomerDoc /\ k \in Customer
    BY <1>1 DEF PeopleInv, PeopleOK, Present, Maybe
  <2>6. PICK t \in Church : t = s.of BY <2>4
  <2>7. PICK e : e = [customers[k] EXCEPT !.tenant = t] OBVIOUS
  <2>8. PICK d : d = [e EXCEPT !.status = "COMPLETED"] OBVIOUS
  <2>9. e \in CustomerDoc /\ e.tenant = t
    BY <2>5, <2>7 DEF CustomerDoc, Maybe
  <2>10. d \in CustomerDoc /\ d.tenant = t /\ d # Missing
    BY <2>8, <2>9, PeopleAssumption DEF CustomerDoc
  <2>11. customers' = [customers EXCEPT ![k] = d]
    BY <1>3, <2>5, <2>6, <2>7, <2>8
       DEF CompleteCustomer, PeopleInv, PeopleOK, CustomerDoc
  <2>12. /\ customers' \in [Customer -> Maybe(CustomerDoc)]
         /\ Present(customers') = Present(customers)
    BY <1>1, <2>5, <2>10, <2>11 DEF PeopleInv, PeopleOK, Present, Maybe
  <2>13. Founding(n)'
    BY <2>2, <2>4, <2>5, <2>6, <2>10, <2>11 DEF Founding, PeopleInv, PeopleOK
  <2>14. UNCHANGED <<churches, ministers, broken, jobs>>
    BY <1>3 DEF CompleteCustomer
  <2>15. /\ Present(churches') = Present(churches)
         /\ Present(ministers') = Present(ministers)
    BY <2>14
  <2>16. QED
    BY <1>1, <2>3, <2>12, <2>13, <2>14, <2>15, PeopleStep DEF PeopleInv, PeopleOK
<1>4. CASE DispatchFounder(Onboarder)
  <2>1. PICK n : n = Idle OBVIOUS
  <2>2. act' = [act EXCEPT ![Onboarder] = n] /\ n.step \notin PeopleSteps
    BY <1>4, <2>1 DEF DispatchFounder, End, Go, Idle, PeopleSteps
  <2>3. UNCHANGED <<churches, ministers, customers>> BY <1>4 DEF DispatchFounder
  <2>4. broken' = [split |-> broken'.split, unfounded |-> broken'.unfounded]
    BY <1>4 DEF DispatchFounder, Unfounded, PeopleInv, PeopleOK
  <2>5. jobs'[Onboarder] = Tail(jobs[Onboarder])
    <3>1. PICK E : E = EndJobs(Onboarder) OBVIOUS
    <3>2. Onboarder \in Worker /\ Booter # Onboarder
      BY DEF Worker, Booter, Onboarder
    <3>3. E[Onboarder] = Tail(jobs[Onboarder]) /\ E = [w \in Worker |-> E[w]]
      BY <3>1, <3>2 DEF EndJobs, PeopleInv, Inv, JobsOK
    <3>4. jobs' = E \/ \E j : jobs' = [E EXCEPT ![Booter] = Append(@, j)]
      BY <1>4, <3>1 DEF DispatchFounder
    <3>5. CASE jobs' = E BY <3>3, <3>5
    <3>6. CASE \E j : jobs' = [E EXCEPT ![Booter] = Append(@, j)]
      <4>1. PICK j : jobs' = [E EXCEPT ![Booter] = Append(@, j)] BY <3>6
      <4>2. QED BY <3>2, <3>3, <4>1
    <3>7. QED BY <3>4, <3>5, <3>6
  <2>6. QED BY <1>1, <2>2, <2>3, <2>4, <2>5, PeopleStill
<1>5. QED BY <1>2, <1>3, <1>4 DEF OnboardStep

(* The steps of Access which an actor takes: the operations on users and   *)
(* rights, and the jobs that give a user its roles.                        *)
Accounting(q) ==
  \/ q \in Request /\ RequestStep(q)
  \/ BootstrapStep(q)
  \/ q \in Request /\ (FindUser(q) \/ Upsert(q) \/ FindAgain(q))
  \/ q \in Request /\ (SetPassword(q) \/ CreateUser(q))
  \/ q \in Worker /\ Take(q)
  \/ q = Joiner /\ (JoinCheck(q) \/ JoinCreate(q) \/ JoinDispatch(q))
  \/ q = Booter /\ CreateFounder(q)

LEMMA AccountingMoves ==
  ASSUME Inv, NEW q \in Actor, Accounting(q)
  PROVE  /\ act[q].step \notin PeopleSteps
         /\ \E n : act' = [act EXCEPT ![q] = n] /\ n.step \notin PeopleSteps
         /\ jobs'[Onboarder] = jobs[Onboarder]
<1>1. CASE \/ q \in Request /\ RequestStep(q)
           \/ BootstrapStep(q)
           \/ q \in Request /\ (FindUser(q) \/ Upsert(q) \/ FindAgain(q))
           \/ q \in Request /\ (SetPassword(q) \/ CreateUser(q))
  <2>1. jobs'[Onboarder] = jobs[Onboarder]
    <3>1. CASE UNCHANGED jobs BY <3>1
    <3>2. CASE ~UNCHANGED jobs
      <4>1. AssignCreator(q) /\ jobs' = EndJobs(q) /\ act[q].order.op # "bootstrap"
        BY Zenon, <1>1, <3>2
           DEF RequestStep, BootstrapStep, Begin, Resolve, ReadGrants, Fill, Look,
               AssignRoles, Invalidate, FindRole, StoreRole, EmptyRole, FillRole,
               FindHolders, StoreBaseRole, FillBaseRole, AssignCreator, FindUser,
               Upsert, FindAgain, SetPassword, CreateUser
      <4>2. act[q].order.op = "boot" /\ act[q].step # "idle"
        BY <4>1 DEF AssignCreator, At, Bootstraps
      <4>3. q = Booter BY <4>2, WhoRuns
      <4>4. Booter # Onboarder /\ Onboarder \in Worker /\ Booter \in Worker
        BY DEF Booter, Onboarder, Worker
      <4>5. QED BY <4>1, <4>3, <4>4 DEF EndJobs, Inv, JobsOK
    <3>3. QED BY <3>1, <3>2
  <2>2. QED BY <1>1, <2>1, RequestMoves
<1>2. CASE \/ q \in Worker /\ Take(q)
           \/ q = Joiner /\ (JoinCheck(q) \/ JoinCreate(q) \/ JoinDispatch(q))
           \/ q = Booter /\ CreateFounder(q)
  BY <1>2, WorkerMoves DEF Worker
<1>3. QED BY <1>1, <1>2 DEF Accounting

LEMMA AccountingInv ==
  ASSUME Inv, NEW q \in Actor, Accounting(q)
  PROVE  Inv'
BY RequestStepInv, BootstrapStepInv, FindUserInv, UpsertInv, FindAgainInv,
   SetPasswordInv, CreateUserInv, TakeInv, JoinCheckInv, JoinCreateInv,
   JoinDispatchInv, CreateFounderInv
   DEF Accounting

(* The steps of the whole, by who takes them.                              *)
LEMMA PeopleCases ==
  ASSUME PeopleNext
  PROVE  \/ \E q \in Actor : Accounting(q) /\ UNCHANGED people
         \/ \E u \in User : Expire(u) /\ UNCHANGED people
         \/ \E q \in Request : ChurchStep(q)
         \/ OnboardStep(Onboarder)
         \/ \E a \in Actor : /\ Fail(a) /\ broken' = Stopped({a}, {a})
                             /\ UNCHANGED <<members, churches, ministers, customers>>
         \/ /\ Crash /\ broken' = Stopped(Actor, {})
            /\ UNCHANGED <<members, churches, ministers, customers>>
<1>1. CASE \E q \in Request : RequestStep(q) /\ UNCHANGED people
  BY <1>1 DEF Accounting, Actor
<1>2. CASE \E q \in Request : AccountStep(q)
  BY <1>2 DEF Accounting, Actor, AccountStep
<1>3. CASE WorkerStep
  <2>1. Joiner \in Actor /\ Booter \in Actor BY DEF Actor, Worker
  <2>2. CASE \E w \in Worker : Take(w) /\ UNCHANGED people
    BY <2>2 DEF Accounting, Actor
  <2>3. CASE \/ JoinCheck(Joiner) /\ UNCHANGED people
             \/ JoinCreate(Joiner) /\ UNCHANGED people
             \/ JoinDispatch(Joiner) /\ UNCHANGED people
    <3>1. Accounting(Joiner) BY <2>3 DEF Accounting
    <3>2. QED BY <2>1, <2>3, <3>1
  <2>4. CASE \/ CreateFounder(Booter) /\ UNCHANGED people
             \/ BootstrapStep(Booter) /\ UNCHANGED people
    <3>1. Accounting(Booter) BY <2>4 DEF Accounting
    <3>2. QED BY <2>1, <2>4, <3>1
  <2>5. QED BY <1>3, <2>2, <2>3, <2>4 DEF WorkerStep
<1>4. CASE \/ \E u \in User : Expire(u) /\ UNCHANGED people
           \/ \E q \in Request : ChurchStep(q)
           \/ OnboardStep(Onboarder)
  BY <1>4
<1>5. CASE Trouble BY <1>5 DEF Trouble
<1>6. QED BY <1>1, <1>2, <1>3, <1>4, <1>5 DEF PeopleNext

(* An actor that fails, and all of them in a crash.                        *)
LEMMA FailQueue ==
  ASSUME Inv, NEW a \in Actor, Fail(a)
  PROVE  /\ act[a].step # "idle"
         /\ act' = [act EXCEPT ![a] = Idle]
         /\ \A w \in Worker \ {a} : jobs'[w] = jobs[w]
         /\ a \in Worker => jobs[a] # <<>> /\ jobs'[a] = Tail(jobs[a])
                            /\ act[a].order = Head(jobs[a])
<1>1. act[a].step # "idle" BY DEF Fail, Inv, ActOK, Fits
<1>2. act' = [act EXCEPT ![a] = Idle] /\ jobs' = EndJobs(a)
  BY DEF Fail, End, Go
<1>3. \A w \in Worker \ {a} : jobs'[w] = jobs[w]
  BY <1>2 DEF EndJobs, Inv, JobsOK
<1>4. ASSUME a \in Worker
      PROVE  /\ jobs[a] # <<>> /\ jobs'[a] = Tail(jobs[a])
             /\ act[a].order = Head(jobs[a])
  BY <1>1, <1>2, <1>4, WorkerOrder DEF EndJobs, Inv, JobsOK
<1>5. QED BY <1>1, <1>2, <1>3, <1>4

LEMMA FailPeople ==
  ASSUME PeopleInv, NEW a \in Actor, Fail(a), broken' = Stopped({a}, {a}),
         UNCHANGED <<members, churches, ministers, customers>>
  PROVE  PeopleOK'
<1>1. PICK n : n = Idle OBVIOUS
<1>2. act' = [act EXCEPT ![a] = n] /\ n.step \notin PeopleSteps
  BY <1>1, FailQueue DEF PeopleInv, Idle, PeopleSteps
<1>3. broken' = [split |-> broken'.split, unfounded |-> broken'.unfounded]
  BY DEF Stopped
<1>4. Onboarder \in Worker BY DEF Worker
<1>5. \/ jobs'[Onboarder] = jobs[Onboarder]
      \/ jobs[Onboarder] # <<>> /\ jobs'[Onboarder] = Tail(jobs[Onboarder])
  BY <1>4, FailQueue DEF PeopleInv
<1>6. QED BY <1>2, <1>3, <1>5, PeopleStill

LEMMA CrashPeople ==
  ASSUME PeopleInv, Crash, broken' = Stopped(Actor, {}),
         UNCHANGED <<members, churches, ministers, customers>>
  PROVE  PeopleOK'
<1>1. broken' = [split |-> broken'.split, unfounded |-> broken'.unfounded]
  BY DEF Stopped
<1>2. \A a \in Actor : act'[a] = Idle BY DEF Crash
<1>3. \A q \in Request : Serving(act[q])'
  BY <1>2 DEF Actor, Serving, Idle
<1>4. Founding(act[Onboarder])'
  BY <1>2 DEF Actor, Worker, Founding, Idle
<1>5. UNCHANGED jobs BY DEF Crash
<1>6. /\ Present(churches') = Present(churches)
      /\ Present(ministers') = Present(ministers)
      /\ Present(customers') = Present(customers)
  BY DEF Present
<1>7. QED BY <1>1, <1>3, <1>4, <1>5, <1>6 DEF PeopleInv, PeopleOK

(* The strengthening is kept by every step of the whole.                   *)
LEMMA PeopleNextInv ==
  ASSUME PeopleInv, [PeopleNext]_<<vars, people>>
  PROVE  PeopleInv'
<1>1. ASSUME NEW q \in Actor, Accounting(q), UNCHANGED people PROVE PeopleInv'
  <2>1. Inv' BY <1>1, AccountingInv DEF PeopleInv
  <2>2. PICK n : act' = [act EXCEPT ![q] = n] /\ n.step \notin PeopleSteps
    BY <1>1, AccountingMoves DEF PeopleInv
  <2>3. jobs'[Onboarder] = jobs[Onboarder]
    BY <1>1, AccountingMoves DEF PeopleInv
  <2>4. UNCHANGED <<churches, ministers, customers, broken>>
    BY <1>1 DEF people
  <2>5. broken' = [split |-> broken'.split, unfounded |-> broken'.unfounded]
    BY <2>4 DEF PeopleInv, PeopleOK
  <2>6. PeopleOK' BY <1>1, <2>2, <2>3, <2>4, <2>5, PeopleStill
  <2>7. QED BY <2>1, <2>6 DEF PeopleInv
<1>2. ASSUME NEW u \in User, Expire(u), UNCHANGED people PROVE PeopleInv'
  <2>1. Inv' BY <1>2, ExpireInv DEF PeopleInv
  <2>2. UNCHANGED <<act, jobs, churches, ministers, customers, broken>>
    BY <1>2 DEF people, Expire
  <2>3. PeopleOK'
    BY <2>2 DEF PeopleInv, PeopleOK, Serving, Founding, Present
  <2>4. QED BY <2>1, <2>3 DEF PeopleInv
<1>3. CASE \E q \in Request : ChurchStep(q)
  BY <1>3, ChurchStepInv, ChurchStepPeople DEF PeopleInv
<1>4. CASE OnboardStep(Onboarder)
  BY <1>4, OnboardInv, OnboardPeople DEF PeopleInv
<1>5. ASSUME NEW a \in Actor, Fail(a), broken' = Stopped({a}, {a}),
             UNCHANGED <<members, churches, ministers, customers>>
      PROVE  PeopleInv'
  BY <1>5, FailInv, FailPeople DEF PeopleInv
<1>6. ASSUME Crash, broken' = Stopped(Actor, {}),
             UNCHANGED <<members, churches, ministers, customers>>
      PROVE  PeopleInv'
  BY <1>6, CrashInv, CrashPeople DEF PeopleInv
<1>7. CASE UNCHANGED <<vars, people>>
  <2>1. UNCHANGED vars /\ UNCHANGED people BY <1>7
  <2>2. Inv' BY <2>1, NextInv DEF PeopleInv
  <2>3. UNCHANGED <<act, jobs, churches, ministers, customers, broken>>
    BY <2>1 DEF people, vars
  <2>4. PeopleOK'
    BY <2>3 DEF PeopleInv, PeopleOK, Serving, Founding, Present
  <2>5. QED BY <2>2, <2>4 DEF PeopleInv
<1>8. CASE PeopleNext
  BY <1>1, <1>2, <1>3, <1>4, <1>5, <1>6, <1>8, PeopleCases
<1>9. QED BY <1>7, <1>8

(* What is stored of users, roles, grants and rights is typed, and only a  *)
(* user that is stored has been assigned roles. By the strengthening; of   *)
(* the steps of rights alone, and of the whole.                            *)
THEOREM TypeCorrect ==
  (Spec => []TypeOK) /\ (PeopleSpec => []TypeOK)
<1>1. Inv => TypeOK BY DEF Inv, StoreOK
<1>2. PeopleInv => Inv BY DEF PeopleInv
<1>3. Init => Inv BY InitInv
<1>4. Inv /\ [Next]_vars => Inv' BY NextInv
<1>5. PeopleInit => PeopleInv BY PeopleInitInv
<1>6. PeopleInv /\ [PeopleNext]_<<vars, people>> => PeopleInv' BY PeopleNextInv
<1>7. Spec => []TypeOK BY <1>1, <1>3, <1>4, PTL DEF Spec
<1>8. PeopleSpec => []TypeOK BY <1>1, <1>2, <1>5, <1>6, PTL DEF PeopleSpec
<1>9. QED BY <1>7, <1>8

(***************************************************************************)
(* Churches and ministers.                                                 *)
(***************************************************************************)

(* A step that writes neither, and ends no request between its writes.     *)
LEMMA LinkStill ==
  ASSUME PeopleInv, LinkInv, NEW q \in Actor, NEW n,
         act' = [act EXCEPT ![q] = n], n.step # "second",
         \/ q \notin Request \/ act[q].step # "second"
         \/ act[q].order.church \in broken'.split,
         UNCHANGED <<churches, ministers>>, broken.split \subseteq broken'.split
  PROVE  LinkInv'
<1>1. act'[q] = n /\ \A b \in Actor \ {q} : act'[b] = act[b]
  BY DEF PeopleInv, Inv, ActOK
<1>2. ASSUME NEW r \in Request, r # q PROVE act'[r] = act[r]
  BY <1>1, <1>2 DEF Actor
<1>3. Links'
  <2>1. SUFFICES ASSUME NEW c \in Present(churches), NEW m \in Present(ministers),
                        (churches[c].minister = m) # (ministers[m].church = c)
                 PROVE  {c, m} \intersect broken'.split # {} \/ Parting(c, m)'
    BY DEF Links, Present
  <2>2. CASE {c, m} \intersect broken.split # {} BY <2>2
  <2>3. CASE Parting(c, m)
    <3>1. PICK r \in Request : /\ act[r].step = "second"
                               /\ act[r].order.church = c /\ Pastor(r) = m
      BY <2>3 DEF Parting
    <3>2. CASE r = q BY <3>1, <3>2
    <3>3. CASE r # q
      <4>1. act'[r] = act[r] BY <1>2, <3>3
      <4>2. Pastor(r)' = m BY <3>1, <4>1 DEF Pastor, Linked
      <4>3. QED BY <3>1, <4>1, <4>2 DEF Parting
    <3>4. QED BY <3>2, <3>3
  <2>4. QED BY <2>1, <2>2, <2>3 DEF LinkInv, Links
<1>4. Halves'
  <2>1. SUFFICES ASSUME NEW r \in Request, act'[r].step = "second"
                 PROVE  LET c == act'[r].order.church
                            m == Pastor(r)'
                        IN \/ {c, m} \intersect broken'.split # {}
                           \/ Linked(r)' /\ churches[c].minister = m
                           \/ ~Linked(r)' /\ ministers[m].church # c
    BY DEF Halves
  <2>2. r # q BY <1>1, <2>1
  <2>3. act'[r] = act[r] BY <1>2, <2>2
  <2>4. Pastor(r)' = Pastor(r) /\ Linked(r)' = Linked(r)
    BY <2>3 DEF Pastor, Linked
  <2>5. QED BY <2>1, <2>3, <2>4 DEF LinkInv, Halves
<1>5. QED BY <1>3, <1>4 DEF LinkInv

(* A request that writes goes on with the same church and minister; the    *)
(* others are where they were.                                             *)
LEMMA WriterGoes ==
  ASSUME PeopleInv, NEW q \in Request, WriteChurch(q) \/ WriteMinister(q)
  PROVE  /\ \A r \in Request \ {q} :
              /\ act'[r] = act[r]
              /\ Pastor(r)' = Pastor(r) /\ Linked(r)' = Linked(r)
         /\ act[q].step = "first" =>
              /\ act'[q].step = "second" /\ act'[q].order = act[q].order
              /\ Pastor(q)' = Pastor(q) /\ Linked(q)' = Linked(q)
         /\ act[q].step = "second" => act'[q].step # "second"
<1>1. PICK n : /\ act' = [act EXCEPT ![q] = n]
               /\ act[q].step = "first" =>
                    /\ n.step = "second" /\ n.order = act[q].order
                    /\ n.copy = act[q].copy
               /\ act[q].step = "second" => n.step # "second"
  <2>1. Idle.step # "second" BY DEF Idle
  <2>2. CASE act[q].step = "first" BY <2>2, LinkGoes
  <2>3. CASE act[q].step = "second" BY <2>1, <2>3, LinkGoes
  <2>4. QED BY <2>2, <2>3, LinkGoes
<1>2. act'[q] = n /\ \A b \in Actor \ {q} : act'[b] = act[b]
  BY <1>1 DEF PeopleInv, Inv, ActOK, Actor
<1>3. \A r \in Request \ {q} : act'[r] = act[r] BY <1>2 DEF Actor
<1>4. ASSUME NEW r \in Request \ {q}
      PROVE  Pastor(r)' = Pastor(r) /\ Linked(r)' = Linked(r)
  BY <1>3 DEF Pastor, Linked
<1>5. act[q].step = "first" => Pastor(q)' = Pastor(q) /\ Linked(q)' = Linked(q)
  BY <1>1, <1>2 DEF Pastor, Linked
<1>6. QED BY <1>1, <1>2, <1>3, <1>4, <1>5

(* The others are not between their writes at the same church, unless that *)
(* is told.                                                                *)
LEMMA ChurchWritten ==
  ASSUME PeopleInv, LinkInv, NEW q \in Request, WriteChurch(q)
  PROVE  LinkInv'
<1>1. PICK c, m : c = act[q].order.church /\ m = Pastor(q) OBVIOUS
<1>2. act[q].step \in {"first", "second"} BY LinkGoes
<1>3. /\ c \in Present(churches) /\ c \in Church /\ c # Missing /\ m # Missing
      /\ m \in Present(ministers)
      /\ Linked(q) => act[q].copy[1].minister = Missing
      /\ ~Linked(q) => act[q].copy[1].minister = m
  BY <1>1, <1>2, BothPresent
<1>4. PICK d : /\ d = [minister |-> IF Linked(q) THEN m ELSE Missing]
               /\ churches' = [churches EXCEPT ![c] = d]
  BY <1>1 DEF WriteChurch
<1>5. /\ churches'[c].minister = IF Linked(q) THEN m ELSE Missing
      /\ \A x \in Present(churches) \ {c} : churches'[x] = churches[x]
  BY <1>3, <1>4 DEF PeopleInv, PeopleOK, Present
<1>6. UNCHANGED ministers BY DEF WriteChurch
<1>7. Present(churches') = Present(churches) /\ Present(ministers') = Present(ministers)
  <2>1. d # Missing
    BY <1>3, <1>4, PeopleAssumption DEF ChurchDoc, Maybe, PeopleInv, PeopleOK, Present
  <2>2. QED BY <1>3, <1>4, <1>6, <2>1 DEF Present, PeopleInv, PeopleOK
<1>8. /\ broken.split \subseteq broken'.split
      /\ c \notin broken'.split => churches[c] = act[q].copy[1] /\ ~Between(q)
  <2>1. PICK b \in BOOLEAN : /\ b = (churches[c] # act[q].copy[1] \/ Between(q))
                             /\ broken' = Split(b, c)
    BY <1>1 DEF WriteChurch
  <2>2. QED BY <2>1, SplitShape DEF PeopleInv
<1>9. ASSUME NEW r \in Request \ {q}, act[r].step = "second",
             act[r].order.church = c
      PROVE  c \in broken'.split
  BY <1>1, <1>8, <1>9 DEF Between
<1>10. Linked(q) <=> act[q].step = "first"
  BY <1>2 DEF WriteChurch, At, Linked
<1>11. Links'
  <2>1. SUFFICES ASSUME NEW x \in Present(churches), NEW y \in Present(ministers),
                        (churches'[x].minister = y) # (ministers[y].church = x)
                 PROVE  {x, y} \intersect broken'.split # {} \/ Parting(x, y)'
    BY <1>6, <1>7 DEF Links
  <2>2. y \in Minister /\ y # Missing
    BY PeopleAssumption DEF Present, PeopleInv, PeopleOK
  <2>3. ASSUME NEW r \in Request \ {q}, act[r].step = "second",
               act[r].order.church = x, Pastor(r) = y
        PROVE  Parting(x, y)'
    BY <2>3, WriterGoes DEF Parting
  <2>4. CASE x # c
    <3>1. (churches[x].minister = y) # (ministers[y].church = x)
      BY <1>5, <2>1, <2>4
    <3>2. CASE {x, y} \intersect broken.split # {} BY <1>8, <3>2
    <3>3. CASE Parting(x, y)
      <4>1. PICK r \in Request : /\ act[r].step = "second"
                                 /\ act[r].order.church = x /\ Pastor(r) = y
        BY <3>3 DEF Parting
      <4>2. r # q BY <1>1, <2>4, <4>1
      <4>3. QED BY <2>3, <4>1, <4>2
    <3>4. QED BY <3>1, <3>2, <3>3 DEF LinkInv, Links
  <2>5. CASE x = c /\ c \notin broken'.split
    <3>1. churches[c] = act[q].copy[1] /\ ~Between(q) BY <1>8, <2>5
    <3>2. CASE Linked(q) /\ y = m
      <4>1. /\ act'[q].step = "second" /\ act'[q].order.church = c
            /\ Pastor(q)' = m
        BY <1>1, <1>10, <3>2, WriterGoes
      <4>2. QED BY <2>5, <3>2, <4>1 DEF Parting
    <3>3. CASE Linked(q) /\ y # m
      <4>1. ministers[y].church = c /\ churches[c].minister # y
        BY <1>3, <1>5, <2>1, <2>2, <2>5, <3>1, <3>3
      <4>2. ~Parting(c, y)
        <5>1. act[q].step # "second" BY <1>10, <3>3
        <5>2. QED BY <1>9, <2>5, <5>1 DEF Parting
      <4>3. {c, y} \intersect broken.split # {}
        BY <2>5, <4>1, <4>2 DEF LinkInv, Links
      <4>4. QED BY <1>8, <2>5, <4>3
    <3>4. CASE ~Linked(q)
      <4>1. ministers[y].church = c BY <1>5, <2>1, <2>2, <2>5, <3>4
      <4>2. churches[c].minister = m BY <1>3, <3>1, <3>4
      <4>3. CASE y = m
        <5>1. {c, m} \intersect broken.split # {} \/ ministers[m].church # c
          BY <1>1, <1>2, <1>10, <3>4 DEF LinkInv, Halves
        <5>2. QED BY <1>8, <2>5, <4>1, <4>3, <5>1
      <4>4. CASE y # m
        <5>1. ~Parting(c, y)
          BY <1>1, <1>9, <2>5, <4>4 DEF Parting
        <5>2. {c, y} \intersect broken.split # {}
          BY <2>5, <4>1, <4>2, <4>4, <5>1 DEF LinkInv, Links
        <5>3. QED BY <1>8, <2>5, <5>2
      <4>5. QED BY <4>3, <4>4
    <3>5. QED BY <3>2, <3>3, <3>4
  <2>6. CASE c \in broken'.split /\ x = c BY <2>6
  <2>7. QED BY <2>4, <2>5, <2>6
<1>12. Halves'
  <2>1. SUFFICES ASSUME NEW r \in Request, act'[r].step = "second"
                 PROVE  LET x == act'[r].order.church
                            y == Pastor(r)'
                        IN \/ {x, y} \intersect broken'.split # {}
                           \/ Linked(r)' /\ churches'[x].minister = y
                           \/ ~Linked(r)' /\ ministers[y].church # x
    BY <1>6 DEF Halves
  <2>2. CASE r = q
    <3>1. act[q].step = "first" BY <1>2, <2>1, <2>2, WriterGoes
    <3>2. /\ act'[q].order.church = c /\ Pastor(q)' = m /\ Linked(q)'
      BY <1>1, <1>10, <3>1, WriterGoes
    <3>3. churches'[c].minister = m BY <1>5, <1>10, <3>1
    <3>4. QED BY <2>2, <3>2, <3>3
  <2>3. CASE r # q
    <3>1. /\ act'[r] = act[r] /\ Pastor(r)' = Pastor(r) /\ Linked(r)' = Linked(r)
      BY <2>3, WriterGoes
    <3>2. act[r].step = "second" BY <2>1, <3>1
    <3>3. CASE act[r].order.church = c BY <1>9, <2>3, <3>1, <3>2, <3>3
    <3>4. CASE act[r].order.church # c
      <4>1. act[r].order.church \in Present(churches) BY <3>2, BothPresent
      <4>2. churches'[act[r].order.church] = churches[act[r].order.church]
        BY <1>5, <3>4, <4>1
      <4>3. QED BY <1>8, <3>1, <3>2, <4>2 DEF LinkInv, Halves
    <3>5. QED BY <3>3, <3>4
  <2>4. QED BY <2>2, <2>3
<1>13. QED BY <1>11, <1>12 DEF LinkInv

LEMMA MinisterWritten ==
  ASSUME PeopleInv, LinkInv, NEW q \in Request, WriteMinister(q)
  PROVE  LinkInv'
<1>1. PICK c, m : c = act[q].order.church /\ m = Pastor(q) OBVIOUS
<1>2. act[q].step \in {"first", "second"} BY LinkGoes
<1>3. /\ c \in Present(churches) /\ c # Missing /\ m # Missing
      /\ m \in Present(ministers) /\ m \in Minister
      /\ Linked(q) => act[q].copy[2].church = Missing
  BY <1>1, <1>2, BothPresent
<1>4. PICK d : /\ d = [church |-> IF Linked(q) THEN c ELSE Missing]
               /\ ministers' = [ministers EXCEPT ![m] = d]
  BY <1>1 DEF WriteMinister
<1>5. /\ ministers'[m].church = IF Linked(q) THEN c ELSE Missing
      /\ \A y \in Present(ministers) \ {m} : ministers'[y] = ministers[y]
  BY <1>3, <1>4 DEF PeopleInv, PeopleOK, Present
<1>6. UNCHANGED churches BY DEF WriteMinister
<1>7. Present(churches') = Present(churches) /\ Present(ministers') = Present(ministers)
  <2>1. c \in Church BY <1>3 DEF PeopleInv, PeopleOK, Present
  <2>2. d # Missing BY <1>4, <2>1, PeopleAssumption DEF MinisterDoc, Maybe
  <2>3. QED BY <1>3, <1>4, <1>6, <2>2 DEF Present, PeopleInv, PeopleOK
<1>8. /\ broken.split \subseteq broken'.split
      /\ m \notin broken'.split =>
           /\ ministers[m] = act[q].copy[2] /\ ~Between(q)
           /\ Linked(q) \/ ministers[m].church \in {c, Missing}
  <2>1. PICK b \in BOOLEAN :
          /\ b = (ministers[m] # act[q].copy[2] \/ Between(q) \/ Elsewhere(q))
          /\ broken' = Split(b, m)
    BY <1>1 DEF WriteMinister
  <2>2. m \notin broken'.split =>
          ministers[m] = act[q].copy[2] /\ ~Between(q) /\ ~Elsewhere(q)
    BY <2>1, SplitShape DEF PeopleInv
  <2>3. broken.split \subseteq broken'.split BY <2>1, SplitShape DEF PeopleInv
  <2>4. QED BY <1>1, <2>2, <2>3 DEF Elsewhere
<1>9. ASSUME NEW r \in Request \ {q}, act[r].step = "second",
             act[r].order.church = c
      PROVE  m \in broken'.split
  BY <1>1, <1>8, <1>9 DEF Between
<1>10. ~Linked(q) <=> act[q].step = "first"
  BY <1>2 DEF WriteMinister, At, Linked
<1>11. Links'
  <2>1. SUFFICES ASSUME NEW x \in Present(churches), NEW y \in Present(ministers),
                        (churches[x].minister = y) # (ministers'[y].church = x)
                 PROVE  {x, y} \intersect broken'.split # {} \/ Parting(x, y)'
    BY <1>6, <1>7 DEF Links
  <2>2. x # Missing BY PeopleAssumption DEF Present, PeopleInv, PeopleOK
  <2>3. ASSUME NEW r \in Request \ {q}, act[r].step = "second",
               act[r].order.church = x, Pastor(r) = y
        PROVE  Parting(x, y)'
    BY <2>3, WriterGoes DEF Parting
  <2>4. CASE y # m
    <3>1. (churches[x].minister = y) # (ministers[y].church = x)
      BY <1>5, <2>1, <2>4
    <3>2. CASE {x, y} \intersect broken.split # {} BY <1>8, <3>2
    <3>3. CASE Parting(x, y)
      <4>1. PICK r \in Request : /\ act[r].step = "second"
                                 /\ act[r].order.church = x /\ Pastor(r) = y
        BY <3>3 DEF Parting
      <4>2. r # q BY <1>1, <2>4, <4>1
      <4>3. QED BY <2>3, <4>1, <4>2
    <3>4. QED BY <3>1, <3>2, <3>3 DEF LinkInv, Links
  <2>5. CASE y = m /\ m \notin broken'.split
    <3>1. /\ ministers[m] = act[q].copy[2] /\ ~Between(q)
          /\ Linked(q) \/ ministers[m].church \in {c, Missing}
      BY <1>8, <2>5
    <3>2. CASE x = c /\ Linked(q)
      <4>1. {c, m} \intersect broken.split # {} \/ churches[c].minister = m
        BY <1>1, <1>2, <1>10, <3>2 DEF LinkInv, Halves
      <4>2. QED BY <1>5, <1>8, <2>1, <2>5, <3>2, <4>1
    <3>3. CASE x = c /\ ~Linked(q)
      <4>1. /\ act'[q].step = "second" /\ act'[q].order.church = c
            /\ Pastor(q)' = m
        BY <1>1, <1>10, <3>3, WriterGoes
      <4>2. QED BY <2>5, <3>3, <4>1 DEF Parting
    <3>4. CASE x # c
      <4>1. churches[x].minister = m
        BY <1>5, <2>1, <2>2, <2>5, <3>4
      <4>2. ministers[m].church # x
        BY <1>3, <2>2, <3>1, <3>4
      <4>3. CASE {x, m} \intersect broken.split # {} BY <1>8, <2>5, <4>3
      <4>4. CASE Parting(x, m)
        <5>1. PICK r \in Request : /\ act[r].step = "second"
                                   /\ act[r].order.church = x /\ Pastor(r) = m
          BY <4>4 DEF Parting
        <5>2. r # q BY <1>1, <3>4, <5>1
        <5>3. QED BY <2>3, <2>5, <5>1, <5>2
      <4>5. QED BY <2>5, <4>1, <4>2, <4>3, <4>4 DEF LinkInv, Links
    <3>5. QED BY <3>2, <3>3, <3>4
  <2>6. CASE m \in broken'.split /\ y = m BY <2>6
  <2>7. QED BY <2>4, <2>5, <2>6
<1>12. Halves'
  <2>1. SUFFICES ASSUME NEW r \in Request, act'[r].step = "second"
                 PROVE  LET x == act'[r].order.church
                            y == Pastor(r)'
                        IN \/ {x, y} \intersect broken'.split # {}
                           \/ Linked(r)' /\ churches[x].minister = y
                           \/ ~Linked(r)' /\ ministers'[y].church # x
    BY <1>6 DEF Halves
  <2>2. CASE r = q
    <3>1. act[q].step = "first" BY <1>2, <2>1, <2>2, WriterGoes
    <3>2. /\ act'[q].order.church = c /\ Pastor(q)' = m /\ ~Linked(q)'
      BY <1>1, <1>10, <3>1, WriterGoes
    <3>3. ministers'[m].church # c BY <1>3, <1>5, <1>10, <3>1
    <3>4. QED BY <2>2, <3>2, <3>3
  <2>3. CASE r # q
    <3>1. /\ act'[r] = act[r] /\ Pastor(r)' = Pastor(r) /\ Linked(r)' = Linked(r)
      BY <2>3, WriterGoes
    <3>2. act[r].step = "second" BY <2>1, <3>1
    <3>3. Pastor(r) \in Present(ministers) /\ act[r].order.church # Missing
      BY <3>2, BothPresent
    <3>4. CASE Pastor(r) # m
      <4>1. ministers'[Pastor(r)] = ministers[Pastor(r)] BY <1>5, <3>3, <3>4
      <4>2. QED BY <1>8, <3>1, <3>2, <4>1 DEF LinkInv, Halves
    <3>5. CASE Pastor(r) = m /\ act[r].order.church = c
      BY <1>9, <2>3, <3>1, <3>2, <3>5
    <3>6. CASE Pastor(r) = m /\ act[r].order.church # c
      <4>1. ministers'[m].church # act[r].order.church
        BY <1>5, <3>3, <3>6
      <4>2. QED BY <1>8, <3>1, <3>2, <3>6, <4>1 DEF LinkInv, Halves
    <3>7. QED BY <3>4, <3>5, <3>6
  <2>4. QED BY <2>2, <2>3
<1>13. QED BY <1>11, <1>12 DEF LinkInv

(* A step that ends no request between its writes: the church and the      *)
(* minister it leaves without doubt are linked as they were, and one that  *)
(* is new has no link.                                                     *)
LEMMA LinkEdited ==
  ASSUME PeopleInv, LinkInv, NEW q \in Actor, NEW n,
         act' = [act EXCEPT ![q] = n], n.step # "second", act[q].step # "second",
         broken.split \subseteq broken'.split,
         \A x \in Present(churches), y \in Present(ministers) :
           \/ {x, y} \intersect broken'.split # {}
           \/ /\ churches'[x].minister = churches[x].minister
              /\ ministers'[y].church = ministers[y].church,
         \A x \in Present(churches'), y \in Present(ministers') :
           \/ x \in Present(churches) /\ y \in Present(ministers)
           \/ churches'[x].minister # y /\ ministers'[y].church # x
  PROVE  LinkInv'
<1>1. act'[q] = n /\ \A b \in Actor \ {q} : act'[b] = act[b]
  BY DEF PeopleInv, Inv, ActOK
<1>2. ASSUME NEW r \in Request, r # q
      PROVE  /\ act'[r] = act[r]
             /\ Pastor(r)' = Pastor(r) /\ Linked(r)' = Linked(r)
  <2>1. act'[r] = act[r] BY <1>1, <1>2 DEF Actor
  <2>2. QED BY <2>1 DEF Pastor, Linked
<1>3. Links'
  <2>1. SUFFICES ASSUME NEW x \in Present(churches'), NEW y \in Present(ministers'),
                        (churches'[x].minister = y) # (ministers'[y].church = x),
                        {x, y} \intersect broken'.split = {}
                 PROVE  Parting(x, y)'
    BY DEF Links
  <2>2. x \in Present(churches) /\ y \in Present(ministers) BY <2>1
  <2>3. (churches[x].minister = y) # (ministers[y].church = x) BY <2>1, <2>2
  <2>4. {x, y} \intersect broken.split = {} BY <2>1
  <2>5. Parting(x, y) BY <2>2, <2>3, <2>4 DEF LinkInv, Links
  <2>6. PICK r \in Request : /\ act[r].step = "second"
                             /\ act[r].order.church = x /\ Pastor(r) = y
    BY <2>5 DEF Parting
  <2>7. r # q BY <2>6
  <2>8. QED BY <1>2, <2>6, <2>7 DEF Parting
<1>4. Halves'
  <2>1. SUFFICES ASSUME NEW r \in Request, act'[r].step = "second"
                 PROVE  LET c == act'[r].order.church
                            m == Pastor(r)'
                        IN \/ {c, m} \intersect broken'.split # {}
                           \/ Linked(r)' /\ churches'[c].minister = m
                           \/ ~Linked(r)' /\ ministers'[m].church # c
    BY DEF Halves
  <2>2. r # q BY <1>1, <2>1
  <2>3. /\ act'[r] = act[r] /\ act[r].step = "second"
        /\ Pastor(r)' = Pastor(r) /\ Linked(r)' = Linked(r)
    BY <1>2, <2>1, <2>2
  <2>4. PICK c, m : c = act[r].order.church /\ m = Pastor(r) OBVIOUS
  <2>5. c \in Present(churches) /\ m \in Present(ministers)
    BY <2>3, <2>4, BothPresent
  <2>6. \/ {c, m} \intersect broken.split # {}
        \/ Linked(r) /\ churches[c].minister = m
        \/ ~Linked(r) /\ ministers[m].church # c
    BY <2>3, <2>4 DEF LinkInv, Halves
  <2>7. \/ {c, m} \intersect broken'.split # {}
        \/ Linked(r) /\ churches'[c].minister = m
        \/ ~Linked(r) /\ ministers'[m].church # c
    BY <2>5, <2>6
  <2>8. QED BY <2>3, <2>4, <2>7
<1>5. QED BY <1>3, <1>4 DEF LinkInv

LEMMA EditLinks ==
  ASSUME PeopleInv, LinkInv, NEW q \in Request,
         WriteEditedChurch(q) \/ WriteSavedMinister(q)
  PROVE  LinkInv'
<1>1. act[q].step = "rewrite" /\ q \in Actor BY EditsPeople
<1>2. PICK n : n = Idle OBVIOUS
<1>3. act' = [act EXCEPT ![q] = n] /\ n.step # "second"
  BY <1>2, EditsPeople DEF Idle
<1>4. Serving(act[q]) BY DEF PeopleInv, PeopleOK
<1>5. CASE WriteEditedChurch(q)
  <2>1. PICK c, d : c = act[q].order.church /\ d = act[q].copy OBVIOUS
  <2>2. churches' = [churches EXCEPT ![c] = d] /\ UNCHANGED ministers
    BY <1>5, <2>1 DEF WriteEditedChurch
  <2>3. act[q].order.op = "editChurch" BY <1>5 DEF WriteEditedChurch, At
  <2>4. c \in Present(churches) BY <1>1, <1>4, <2>1, <2>3 DEF Serving
  <2>5. PICK b \in BOOLEAN : b = (churches[c] # d) /\ broken' = Split(b, c)
    BY <1>5, <2>1 DEF WriteEditedChurch
  <2>6. /\ broken.split \subseteq broken'.split
        /\ c \in broken'.split \/ churches[c] = d
    BY <2>5, SplitShape DEF PeopleInv
  <2>7. \A x \in Present(churches) : x \in broken'.split \/ churches'[x] = churches[x]
    BY <2>2, <2>4, <2>6 DEF PeopleInv, PeopleOK, Present
  <2>8. Present(churches') \subseteq Present(churches)
    BY <2>2, <2>4 DEF PeopleInv, PeopleOK, Present
  <2>9. Present(ministers') = Present(ministers) BY <2>2 DEF Present
  <2>10. \A x \in Present(churches), y \in Present(ministers) :
           \/ {x, y} \intersect broken'.split # {}
           \/ /\ churches'[x].minister = churches[x].minister
              /\ ministers'[y].church = ministers[y].church
    BY <2>2, <2>7
  <2>11. QED BY <1>1, <1>3, <2>6, <2>8, <2>9, <2>10, LinkEdited
<1>6. CASE WriteSavedMinister(q)
  <2>1. PICK m, d : m = act[q].order.minister /\ d = act[q].copy OBVIOUS
  <2>2. ministers' = [ministers EXCEPT ![m] = d] /\ UNCHANGED churches
    BY <1>6, <2>1 DEF WriteSavedMinister
  <2>3. act[q].order.op = "saveMinister" BY <1>6 DEF WriteSavedMinister, At
  <2>4. m \in Minister
    BY <1>1, <2>1, <2>3, WhoRuns DEF RequestFits, WellFormed, PeopleInv
  <2>5. m \in Present(ministers) \/ d.church = Missing
    BY <1>1, <1>4, <2>1, <2>3 DEF Serving
  <2>6. PICK b \in BOOLEAN :
          b = (ministers[m] \notin {Missing, d}) /\ broken' = Split(b, m)
    BY <1>6, <2>1 DEF WriteSavedMinister
  <2>7. /\ broken.split \subseteq broken'.split
        /\ m \in broken'.split \/ ministers[m] \in {Missing, d}
    BY <2>6, SplitShape DEF PeopleInv
  <2>8. \A y \in Present(ministers) :
          y \in broken'.split \/ ministers'[y] = ministers[y]
    BY <2>2, <2>4, <2>7 DEF PeopleInv, PeopleOK, Present
  <2>9. /\ Present(churches') = Present(churches)
        /\ Present(ministers') \subseteq Present(ministers) \union {m}
    BY <2>2, <2>4 DEF PeopleInv, PeopleOK, Present
  <2>10. \A x \in Present(churches), y \in Present(ministers) :
           \/ {x, y} \intersect broken'.split # {}
           \/ /\ churches'[x].minister = churches[x].minister
              /\ ministers'[y].church = ministers[y].church
    BY <2>2, <2>8
  <2>11. ASSUME NEW x \in Present(churches), m \notin Present(ministers)
         PROVE  churches[x].minister # m /\ ministers'[m].church # x
    <3>1. m # Missing /\ x # Missing
      BY <2>4, PeopleAssumption DEF Present, PeopleInv, PeopleOK
    <3>2. churches[x].minister # m
      BY <2>11, <3>1 DEF PeopleInv, PeopleOK, Maybe
    <3>3. ministers'[m].church = Missing
      BY <2>2, <2>4, <2>5, <2>11 DEF PeopleInv, PeopleOK
    <3>4. QED BY <3>1, <3>2, <3>3
  <2>12. \A x \in Present(churches'), y \in Present(ministers') :
           \/ x \in Present(churches) /\ y \in Present(ministers)
           \/ churches'[x].minister # y /\ ministers'[y].church # x
    BY <2>2, <2>9, <2>11
  <2>13. QED BY <1>1, <1>3, <2>7, <2>10, <2>12, LinkEdited
<1>7. QED BY <1>5, <1>6

(* A church that is founded has no minister, and no minister names it.     *)
LEMMA OnboardLinks ==
  ASSUME PeopleInv, LinkInv, OnboardStep(Onboarder)
  PROVE  LinkInv'
<1>1. /\ Onboarder \in Actor /\ IsRun(act[Onboarder])
      /\ act[Onboarder].step # "second"
  BY OnboardMoves
<1>2. CASE FoundChurch(Onboarder)
  <2>1. PICK c \in Church \ Present(churches) :
          /\ churches' = [churches EXCEPT ![c] = [minister |-> Missing]]
          /\ Go(Onboarder, [act[Onboarder] EXCEPT !.step = "tenant", !.of = c])
    BY Zenon, <1>2 DEF FoundChurch
  <2>2. PICK n : n = [act[Onboarder] EXCEPT !.step = "tenant", !.of = c] OBVIOUS
  <2>3. act' = [act EXCEPT ![Onboarder] = n] BY <2>1, <2>2 DEF Go
  <2>4. n.step # "second" BY Zenon, <1>1, <2>2, SetStepOf DEF Run
  <2>5. UNCHANGED <<ministers, broken>> BY <1>2 DEF FoundChurch
  <2>6. /\ Present(ministers') = Present(ministers)
        /\ Present(churches') \subseteq Present(churches) \union {c}
        /\ \A x \in Present(churches) : churches'[x] = churches[x]
    BY <2>1, <2>5 DEF PeopleInv, PeopleOK, Present
  <2>7. ASSUME NEW y \in Present(ministers)
        PROVE  churches'[c].minister # y /\ ministers[y].church # c
    <3>1. c # Missing /\ y # Missing
      BY PeopleAssumption DEF Present, PeopleInv, PeopleOK
    <3>2. churches'[c].minister = Missing BY <2>1 DEF PeopleInv, PeopleOK
    <3>3. ministers[y].church # c
      BY <3>1 DEF PeopleInv, PeopleOK, Maybe
    <3>4. QED BY <3>1, <3>2, <3>3
  <2>8. \A x \in Present(churches), y \in Present(ministers) :
          \/ {x, y} \intersect broken'.split # {}
          \/ /\ churches'[x].minister = churches[x].minister
             /\ ministers'[y].church = ministers[y].church
    BY <2>5, <2>6
  <2>9. \A x \in Present(churches'), y \in Present(ministers') :
          \/ x \in Present(churches) /\ y \in Present(ministers)
          \/ churches'[x].minister # y /\ ministers'[y].church # x
    BY <2>5, <2>6, <2>7
  <2>10. broken.split \subseteq broken'.split BY <2>5
  <2>11. QED BY <1>1, <2>3, <2>4, <2>8, <2>9, <2>10, LinkEdited
<1>3. CASE CompleteCustomer(Onboarder)
  <2>1. PICK n : n = [act[Onboarder] EXCEPT !.step = "furnish"] OBVIOUS
  <2>2. act' = [act EXCEPT ![Onboarder] = n]
    BY <1>3, <2>1 DEF CompleteCustomer, Step, Go
  <2>3. n.step # "second" BY <1>1, <2>1, SetStep DEF Run
  <2>4. UNCHANGED <<churches, ministers, broken>> BY <1>3 DEF CompleteCustomer
  <2>5. QED BY <1>1, <2>2, <2>3, <2>4, LinkStill
<1>4. CASE DispatchFounder(Onboarder)
  <2>1. PICK n : n = Idle OBVIOUS
  <2>2. act' = [act EXCEPT ![Onboarder] = n]
    BY <1>4, <2>1 DEF DispatchFounder, End, Go
  <2>3. n.step # "second" BY <2>1 DEF Idle
  <2>4. UNCHANGED <<churches, ministers>> /\ broken.split \subseteq broken'.split
    BY <1>4 DEF DispatchFounder, Unfounded, PeopleInv, PeopleOK
  <2>5. QED BY <1>1, <2>2, <2>3, <2>4, LinkStill
<1>5. QED BY <1>2, <1>3, <1>4 DEF OnboardStep

LEMMA FailLinks ==
  ASSUME PeopleInv, LinkInv, NEW a \in Actor, Fail(a),
         broken' = Stopped({a}, {a}),
         UNCHANGED <<members, churches, ministers, customers>>
  PROVE  LinkInv'
<1>1. PICK n : n = Idle OBVIOUS
<1>2. act' = [act EXCEPT ![a] = n] BY <1>1, FailQueue DEF PeopleInv
<1>3. n.step # "second" BY <1>1 DEF Idle
<1>4. broken.split \subseteq broken'.split BY DEF Stopped
<1>5. a \in Request /\ act[a].step = "second" => act[a].order.church \in broken'.split
  BY DEF Stopped, Halfway
<1>6. QED BY <1>2, <1>3, <1>4, <1>5, LinkStill

LEMMA CrashLinks ==
  ASSUME PeopleInv, LinkInv, Crash, broken' = Stopped(Actor, {}),
         UNCHANGED <<members, churches, ministers, customers>>
  PROVE  LinkInv'
<1>1. \A r \in Request : act'[r].step # "second"
  BY DEF Crash, Actor, Idle
<1>2. broken.split \subseteq broken'.split BY DEF Stopped
<1>3. \A r \in Request :
        act[r].step = "second" => act[r].order.church \in broken'.split
  BY DEF Stopped, Halfway, Actor
<1>4. Links'
  <2>1. SUFFICES ASSUME NEW c \in Present(churches), NEW m \in Present(ministers),
                        (churches[c].minister = m) # (ministers[m].church = c)
                 PROVE  {c, m} \intersect broken'.split # {}
    BY DEF Links, Present
  <2>2. CASE {c, m} \intersect broken.split # {} BY <1>2, <2>2
  <2>3. CASE Parting(c, m) BY <1>3, <2>3 DEF Parting
  <2>4. QED BY <2>1, <2>2, <2>3 DEF LinkInv, Links
<1>5. Halves' BY <1>1 DEF Halves
<1>6. QED BY <1>4, <1>5 DEF LinkInv

LEMMA LinkInit ==
  ASSUME PeopleInit
  PROVE  LinkInv
<1>1. \A q \in Request : act[q].step # "second"
  BY DEF PeopleInit, Init, Actor, Idle
<1>2. ASSUME NEW c \in Present(churches), NEW m \in Present(ministers)
      PROVE  churches[c].minister # m /\ ministers[m].church # c
  <2>1. c \in Church /\ m \in Minister BY DEF Present, PeopleInit
  <2>2. c # Missing /\ m # Missing BY <2>1, PeopleAssumption
  <2>3. churches[c].minister = Missing /\ ministers[m].church = Missing
    BY <2>1 DEF Present, PeopleInit
  <2>4. QED BY <2>2, <2>3
<1>3. Links BY <1>2 DEF Links
<1>4. Halves BY <1>1 DEF Halves
<1>5. QED BY <1>3, <1>4 DEF LinkInv

(* The links are kept by every step of the whole.                          *)
LEMMA LinkNext ==
  ASSUME PeopleInv, LinkInv, [PeopleNext]_<<vars, people>>
  PROVE  LinkInv'
<1>1. ASSUME NEW q \in Actor, Accounting(q), UNCHANGED people PROVE LinkInv'
  <2>1. PICK n : act' = [act EXCEPT ![q] = n] /\ n.step \notin PeopleSteps
    BY <1>1, AccountingMoves DEF PeopleInv
  <2>2. n.step # "second" BY <2>1 DEF PeopleSteps
  <2>3. act[q].step # "second"
    BY <1>1, AccountingMoves DEF PeopleSteps, PeopleInv
  <2>4. UNCHANGED <<churches, ministers, broken>> BY <1>1 DEF people
  <2>5. QED BY <2>1, <2>2, <2>3, <2>4, LinkStill
<1>2. ASSUME UNCHANGED <<act, people>> PROVE LinkInv'
  <2>1. UNCHANGED <<act, churches, ministers, broken>> BY <1>2 DEF people
  <2>2. QED
    BY <2>1 DEF LinkInv, Links, Halves, Parting, Pastor, Linked, Present
<1>3. ASSUME NEW q \in Request, ChurchStep(q) PROVE LinkInv'
  <2>1. CASE WriteChurch(q) BY <2>1, ChurchWritten
  <2>2. CASE WriteMinister(q) BY <2>2, MinisterWritten
  <2>3. CASE WriteEditedChurch(q) \/ WriteSavedMinister(q) BY <2>3, EditLinks
  <2>4. CASE Apply(q)
    <3>1. PICK n : n = Idle OBVIOUS
    <3>2. act' = [act EXCEPT ![q] = n] BY <2>4, <3>1 DEF Apply, End, Go
    <3>3. n.step # "second" /\ act[q].step # "second"
      BY <2>4, <3>1 DEF Apply, At, Idle
    <3>4. UNCHANGED <<churches, ministers, broken>> BY <2>4 DEF Apply
    <3>5. QED BY <3>2, <3>3, <3>4, LinkStill DEF Actor
  <2>5. CASE /\ ~WriteChurch(q) /\ ~WriteMinister(q) /\ ~WriteEditedChurch(q)
             /\ ~WriteSavedMinister(q) /\ ~Apply(q)
    <3>1. PICK n : /\ act' = [act EXCEPT ![q] = n] /\ n.step # "second"
      BY <1>3, <2>5, ChurchReads
    <3>2. UNCHANGED <<churches, ministers, broken>> BY <1>3, <2>5, ChurchReads
    <3>3. act[q].step # "second"
      BY Zenon, <1>3, <2>5 DEF ChurchStep, FindMember, StoreMember, DispatchJoin,
         ReadMember, WriteMember, FindFreeChurch, FindFreeMinister,
         FindServedChurch, FindItsMinister, ReadEdited, Complete, At
    <3>4. QED BY <3>1, <3>2, <3>3, LinkStill DEF Actor
  <2>6. QED BY <2>1, <2>2, <2>3, <2>4, <2>5
<1>4. CASE OnboardStep(Onboarder) BY <1>4, OnboardLinks
<1>5. ASSUME NEW u \in User, Expire(u), UNCHANGED people PROVE LinkInv'
  BY <1>2, <1>5 DEF Expire
<1>6. CASE UNCHANGED <<vars, people>>
  <2>1. UNCHANGED vars /\ UNCHANGED people BY <1>6
  <2>2. UNCHANGED <<act, people>> BY <2>1 DEF vars
  <2>3. QED BY <1>2, <2>2
<1>7. CASE PeopleNext
  BY <1>1, <1>3, <1>4, <1>5, <1>7, FailLinks, CrashLinks, PeopleCases
<1>8. QED BY <1>6, <1>7

(* The church and the minister name each other, unless a write is in doubt *)
(* or a request is between its two. By the strengthening: a request that   *)
(* is between its writes parts or links those two alone, and the side it   *)
(* wrote first is still as it wrote it.                                    *)
THEOREM LinksStayTrue ==
  PeopleSpec => []LinksAgree
<1>1. PeopleInv /\ LinkInv => LinksAgree
  BY DEF LinkInv, Links, Parting, LinksAgree
<1>2. PeopleInit => PeopleInv /\ LinkInv BY PeopleInitInv, LinkInit
<1>3. PeopleInv /\ LinkInv /\ [PeopleNext]_<<vars, people>> => (PeopleInv /\ LinkInv)'
  BY PeopleNextInv, LinkNext
<1>4. QED BY <1>1, <1>2, <1>3, PTL DEF PeopleSpec

(***************************************************************************)
(* The steps sorted by what they write: those of Plain write neither users *)
(* nor rights nor the cache; Writes, users; Permits, permissions; Assigns, *)
(* the roles of a user; Caches, the cache or what is to be invalidated.    *)
(***************************************************************************)

(* Every job of a queue is still there.                                    *)
QueueKept(w) ==
  \A i \in DOMAIN jobs[w] : \E j \in DOMAIN jobs'[w] : jobs'[w][j] = jobs[w][i]

(* The steps at which an actor has an announcement to keep.                *)
Announcing == {"insert", "holders", "role", "assign", "invalidate"}

Plain(q) ==
  /\ UNCHANGED <<users, grants, assigned, cache, told>>
  /\ incidents'.overlooked = incidents.overlooked
  /\ incidents'.torn = incidents.torn
  /\ incidents'.stale = incidents.stale
  /\ incidents'.careless = incidents.careless
  /\ incidents.orphans \subseteq incidents'.orphans
  /\ act[q].step \notin Announcing
  /\ q = Joiner /\ act[q].step = "dispatch" => JoinDispatch(q)
  /\ QueueKept(Booter)
  /\ \E n : /\ act' = [act EXCEPT ![q] = n] /\ n.step # "insert"
            /\ n.step = "create" => JoinCheck(q)

Writes(q) ==
  \/ q \in Request /\ (Upsert(q) \/ SetPassword(q) \/ CreateUser(q))
  \/ q = Joiner /\ JoinCreate(q)
  \/ q = Booter /\ CreateFounder(q)
Permits(q) ==
  \/ q \in Request /\ (EmptyRole(q) \/ FillRole(q))
  \/ StoreBaseRole(q) \/ FillBaseRole(q)
Assigns(q) == (q \in Request /\ AssignRoles(q)) \/ AssignCreator(q)
Caches(q) == q \in Request /\ (Fill(q) \/ Invalidate(q) \/ FindHolders(q))

LEMMA AppendKept ==
  ASSUME NEW S, NEW s \in Seq(S), NEW x
  PROVE  \A i \in DOMAIN s : i \in DOMAIN Append(s, x) /\ Append(s, x)[i] = s[i]
OBVIOUS

LEMMA TailKept ==
  ASSUME NEW S, NEW s \in Seq(S), s # <<>>
  PROVE  \A i \in DOMAIN s :
           s[i] = Head(s) \/ \E j \in DOMAIN Tail(s) : Tail(s)[j] = s[i]
<1>1. ASSUME NEW i \in DOMAIN s, i # 1
      PROVE  i - 1 \in DOMAIN Tail(s) /\ Tail(s)[i - 1] = s[i]
  BY <1>1
<1>2. s[1] = Head(s) OBVIOUS
<1>3. QED BY <1>1, <1>2

(* The jobs of the bootstrap stay, but the one it ends.                    *)
LEMMA BooterQueue ==
  ASSUME Inv, NEW a \in Actor, a # Booter,
         \/ UNCHANGED jobs
         \/ jobs' = EndJobs(a)
         \/ \E w \in Worker : \E j : jobs' = [jobs EXCEPT ![w] = Append(@, j)]
         \/ \E j : jobs' = [EndJobs(a) EXCEPT ![Booter] = Append(@, j)]
  PROVE  QueueKept(Booter)
<1>1. Booter \in Worker BY DEF Worker
<1>2. PICK E : E = EndJobs(a) OBVIOUS
<1>3. E[Booter] = jobs[Booter] /\ E = [w \in Worker |-> E[w]]
  BY <1>1, <1>2 DEF EndJobs, Inv, JobsOK
<1>4. jobs'[Booter] = jobs[Booter] \/ \E j : jobs'[Booter] = Append(jobs[Booter], j)
  <2>1. CASE UNCHANGED jobs \/ jobs' = E BY <1>3, <2>1
  <2>2. CASE \E w \in Worker : \E j : jobs' = [jobs EXCEPT ![w] = Append(@, j)]
    <3>1. PICK w, j : w \in Worker /\ jobs' = [jobs EXCEPT ![w] = Append(@, j)] BY <2>2
    <3>2. CASE w = Booter BY <1>1, <3>1, <3>2 DEF Inv, JobsOK
    <3>3. CASE w # Booter BY <1>1, <3>1, <3>3 DEF Inv, JobsOK
    <3>4. QED BY <3>2, <3>3
  <2>3. CASE \E j : jobs' = [E EXCEPT ![Booter] = Append(@, j)]
    <3>1. PICK j : jobs' = [E EXCEPT ![Booter] = Append(@, j)] BY <2>3
    <3>2. jobs'[Booter] = Append(E[Booter], j) BY <1>1, <1>3, <3>1
    <3>3. QED BY <1>3, <3>2
  <2>4. QED BY <1>2, <2>1, <2>2, <2>3
<1>5. jobs[Booter] \in Seq(BootJobs) BY DEF Inv, JobsOK
<1>6. CASE jobs'[Booter] = jobs[Booter] BY <1>6 DEF QueueKept
<1>7. CASE \E j : jobs'[Booter] = Append(jobs[Booter], j)
  BY <1>5, <1>7, AppendKept DEF QueueKept
<1>8. QED BY <1>4, <1>6, <1>7

LEMMA PlainBy ==
  ASSUME Inv, NEW q \in Actor, NEW n, Go(q, n),
         UNCHANGED <<users, grants, assigned, cache, told, incidents>>,
         act[q].step \notin Announcing,
         q = Joiner => act[q].step # "dispatch",
         n.step # "insert", n.step = "create" => JoinCheck(q),
         QueueKept(Booter)
  PROVE  Plain(q)
BY DEF Plain, Go

LEMMA PlainReads ==
  ASSUME Inv, NEW q \in Request,
         \/ \E o \in Order : Begin(q, o)
         \/ Resolve(q) \/ ReadGrants(q) \/ Look(q) \/ FindRole(q) \/ StoreRole(q)
         \/ FindUser(q) \/ FindAgain(q)
  PROVE  Plain(q)
<1>1. /\ q \in Actor /\ q # Joiner /\ q # Booter
  BY SlotAssumption DEF Actor, Worker
<1>2. UNCHANGED <<users, grants, assigned, cache, told, incidents, jobs>>
  BY Zenon DEF Begin, Resolve, ReadGrants, Look, FindRole, StoreRole, FindUser, FindAgain
<1>3. QueueKept(Booter) BY <1>1, <1>2, BooterQueue
<1>4. act[q].step \notin Announcing
  <2>1. CASE \E o \in Order : Begin(q, o) BY <2>1 DEF Begin, Idle, Announcing
  <2>2. CASE ~\E o \in Order : Begin(q, o)
    <3>1. act[q].step \in {"resolve", "grants", "do", "name", "find"}
      BY Zenon, <2>2 DEF Resolve, ReadGrants, Look, FindRole, StoreRole, FindUser,
                  FindAgain, At
    <3>2. QED BY <3>1 DEF Announcing
  <2>3. QED BY <2>1, <2>2
<1>5. act[q].step # "idle" => IsRun(act[q]) BY <1>1, Going DEF Inv
<1>6. ASSUME NEW n, Go(q, n), n.step \notin {"insert", "create"} PROVE Plain(q)
  BY <1>1, <1>2, <1>3, <1>4, <1>6, PlainBy
<1>7. ASSUME End(q) PROVE Plain(q)
  <2>1. Idle.step \notin {"insert", "create"} BY DEF Idle
  <2>2. QED BY <1>6, <1>7, <2>1 DEF End
<1>8. ASSUME NEW R, act[q].step # "idle"
      PROVE  Decided(q, R).step \notin {"insert", "create"}
  <2>1. PICK n : n = [act[q] EXCEPT !.step = "do", !.rights = {}, !.roles = {}]
    OBVIOUS
  <2>2. n.step = "do" BY <1>5, <1>8, <2>1, StepSet
  <2>3. QED BY <2>1, <2>2 DEF Decided, Idle
<1>9. CASE \E o \in Order : Begin(q, o)
  <2>1. PICK n : Go(q, n) /\ n.step \in {"resolve", "do"}
    BY <1>9 DEF Begin, Running
  <2>2. QED BY <1>6, <2>1
<1>10. CASE Resolve(q)
  <2>1. act[q].step # "idle" BY <1>10 DEF Resolve
  <2>2. PICK R, st : st \in {"fill", "grants"} /\
          \/ \E P : Go(q, Decided(q, P))
          \/ Go(q, [act[q] EXCEPT !.roles = R, !.step = st])
    BY Zenon, <1>10 DEF Resolve
  <2>3. [act[q] EXCEPT !.roles = R, !.step = st].step = st
    BY <1>5, <2>1, StepSet
  <2>4. QED BY <1>6, <1>8, <2>1, <2>2, <2>3
<1>11. CASE ReadGrants(q)
  <2>1. act[q].step # "idle" BY <1>11 DEF ReadGrants
  <2>2. PICK P : Go(q, [act[q] EXCEPT !.step = "fill", !.rights = P])
    BY Zenon, <1>11 DEF ReadGrants
  <2>3. [act[q] EXCEPT !.step = "fill", !.rights = P].step = "fill"
    BY <1>5, <2>1, StepSet
  <2>4. QED BY <1>6, <2>2, <2>3
<1>12. CASE Look(q) \/ FindRole(q) \/ StoreRole(q)
  <2>1. act[q].step # "idle" BY Zenon, <1>12 DEF Look, FindRole, StoreRole, At
  <2>2. End(q) \/ Step(q, "name") BY Zenon, <1>12 DEF Look, FindRole, StoreRole
  <2>3. [act[q] EXCEPT !.step = "name"].step = "name" BY <1>5, <2>1, StepSet
  <2>4. QED BY Zenon, <1>6, <1>7, <2>2, <2>3 DEF Step
<1>13. CASE FindUser(q) \/ FindAgain(q)
  <2>1. act[q].step # "idle" BY Zenon, <1>13 DEF FindUser, FindAgain, At
  <2>2. PICK u, d, st : /\ st \in {"upsert", "password"}
                        /\ \/ End(q)
                           \/ Go(q, [act[q] EXCEPT !.step = st, !.of = u, !.copy = d])
    BY Zenon, <1>13 DEF FindUser, FindAgain, End
  <2>3. [act[q] EXCEPT !.step = st, !.of = u, !.copy = d].step = st
    BY <1>5, <2>1, StepSet
  <2>4. QED BY <1>6, <1>7, <2>2, <2>3
<1>14. QED BY <1>9, <1>10, <1>11, <1>12, <1>13

LEMMA PlainJobs ==
  ASSUME Inv, NEW q \in Worker,
         \/ Take(q)
         \/ q = Joiner /\ (JoinCheck(q) \/ JoinDispatch(q))
  PROVE  Plain(q)
<1>1. q \in Actor BY DEF Actor
<1>2. UNCHANGED <<users, grants, assigned, cache, told>>
  BY DEF Take, JoinCheck, JoinDispatch
<1>3. act[q].step \notin Announcing
  BY DEF Take, JoinCheck, JoinDispatch, At, Idle, Announcing
<1>4. QueueKept(Booter)
  <2>1. CASE UNCHANGED jobs BY <2>1 DEF QueueKept
  <2>2. CASE ~UNCHANGED jobs
    <3>1. q = Joiner /\ q # Booter BY <2>2 DEF Take, Joiner, Booter
    <3>2. \/ jobs' = EndJobs(q)
          \/ \E j : jobs' = [EndJobs(q) EXCEPT ![Booter] = Append(@, j)]
      BY <2>2 DEF Take, JoinCheck, JoinDispatch
    <3>3. QED BY <1>1, <3>1, <3>2, BooterQueue
  <2>3. QED BY <2>1, <2>2
<1>5. CASE Take(q)
  <2>1. PICK n : Go(q, n) /\ n.step = "do" BY <1>5 DEF Take, Running
  <2>2. UNCHANGED incidents /\ act[q].step = "idle" BY <1>5 DEF Take, Idle
  <2>3. QED BY <1>1, <1>2, <1>3, <1>4, <2>1, <2>2, PlainBy
<1>6. CASE q = Joiner /\ JoinCheck(q)
  <2>1. act[q].step = "do" /\ UNCHANGED incidents BY <1>6 DEF JoinCheck, At
  <2>2. IsRun(act[q]) BY <1>1, <2>1, Going DEF Inv
  <2>3. PICK n : n = [act[q] EXCEPT !.step = "create"] OBVIOUS
  <2>4. n.step = "create" BY <2>2, <2>3, StepSet
  <2>5. Go(q, Idle) \/ Go(q, n) BY <1>6, <2>3 DEF JoinCheck, Step, End
  <2>6. Idle.step = "idle" BY DEF Idle
  <2>7. QED BY <1>1, <1>2, <1>3, <1>4, <1>6, <2>1, <2>4, <2>5, <2>6, PlainBy
<1>7. CASE q = Joiner /\ JoinDispatch(q)
  <2>1. PICK n : n = Idle OBVIOUS
  <2>2. act' = [act EXCEPT ![q] = n] /\ n.step = "idle"
    BY <1>7, <2>1 DEF JoinDispatch, End, Go, Idle
  <2>3. /\ incidents'.overlooked = incidents.overlooked
        /\ incidents'.torn = incidents.torn
        /\ incidents'.stale = incidents.stale
        /\ incidents'.careless = incidents.careless
        /\ incidents.orphans \subseteq incidents'.orphans
    BY <1>7 DEF JoinDispatch, Orphan, Inv, StoreOK
  <2>4. QED BY <1>2, <1>3, <1>4, <1>7, <2>2, <2>3 DEF Plain
<1>8. QED BY <1>5, <1>6, <1>7

(* A step on people, be it of a request or of the onboarding.              *)
LEMMA PlainPeople ==
  ASSUME PeopleInv, NEW q \in Actor,
         \/ q \in Request /\ ChurchStep(q)
         \/ q = Onboarder /\ OnboardStep(q)
  PROVE  Plain(q)
<1>1. q # Joiner /\ q # Booter
  BY SlotAssumption DEF Worker, Joiner, Booter, Onboarder
<1>2. UNCHANGED <<users, grants, assigned, cache, told, incidents>>
  BY ChurchMoves, OnboardMoves DEF PeopleInv, rbac
<1>3. act[q].step \in {"do", "tenant", "furnish"} \union ChurchSteps
  BY ChurchMoves, OnboardMoves DEF PeopleInv
<1>4. act[q].step \notin Announcing BY <1>3 DEF ChurchSteps, Announcing
<1>5. PICK n : Go(q, n) /\ n.step \notin {"insert", "create"}
  <2>1. CASE q \in Request /\ ChurchStep(q)
    <3>1. PICK n : /\ act' = [act EXCEPT ![q] = n]
                   /\ n = Idle \/ Onward(act[q], n)
      BY <2>1, ChurchMoves DEF PeopleInv
    <3>2. n.step \notin {"insert", "create"}
      BY <3>1 DEF Onward, ChurchSteps, Idle
    <3>3. QED BY <3>1, <3>2 DEF Go
  <2>2. CASE q = Onboarder /\ OnboardStep(q)
    <3>1. IsRun(act[q]) BY <2>2, OnboardMoves
    <3>2. PICK x \in {"tenant", "furnish"} :
            \/ \E c : Go(q, [act[q] EXCEPT !.step = x, !.of = c])
            \/ Go(q, [act[q] EXCEPT !.step = x])
            \/ Go(q, Idle)
      BY Zenon, <2>2 DEF OnboardStep, FoundChurch, CompleteCustomer, DispatchFounder,
                  Step, End
    <3>3. /\ \A c : [act[q] EXCEPT !.step = x, !.of = c].step = x
          /\ [act[q] EXCEPT !.step = x].step = x
      BY <3>1, StepSet
    <3>4. Idle.step = "idle" BY DEF Idle
    <3>5. QED BY Zenon, <3>2, <3>3, <3>4
  <2>3. QED BY <2>1, <2>2
<1>6. QueueKept(Booter)
  <2>1. CASE q \in Request /\ ChurchStep(q)
    <3>1. Joiner \in Worker /\ Onboarder \in Worker BY DEF Worker
    <3>2. \/ UNCHANGED jobs
          \/ \E w \in Worker : \E j : jobs' = [jobs EXCEPT ![w] = Append(@, j)]
      BY <2>1, <3>1, ChurchJobs DEF PeopleInv
    <3>3. QED BY <1>1, <3>2, BooterQueue DEF PeopleInv
  <2>2. CASE q = Onboarder /\ OnboardStep(q)
    <3>1. \/ UNCHANGED jobs
          \/ jobs' = EndJobs(q)
          \/ \E j : jobs' = [EndJobs(q) EXCEPT ![Booter] = Append(@, j)]
      BY Zenon, <2>2 DEF OnboardStep, FoundChurch, CompleteCustomer, DispatchFounder
    <3>2. QED BY <1>1, <3>1, BooterQueue DEF PeopleInv
  <2>3. QED BY <2>1, <2>2
<1>7. QED BY <1>1, <1>2, <1>4, <1>5, <1>6, PlainBy DEF PeopleInv

LEMMA AccountingSorts ==
  ASSUME Inv, NEW q \in Actor, Accounting(q)
  PROVE  Plain(q) \/ Writes(q) \/ Permits(q) \/ Assigns(q) \/ Caches(q)
<1>1. CASE q \in Request /\ RequestStep(q)
  BY <1>1, PlainReads DEF RequestStep, Permits, Assigns, Caches
<1>2. CASE BootstrapStep(q) BY <1>2 DEF BootstrapStep, Permits, Assigns
<1>3. CASE \/ q \in Request /\ (FindUser(q) \/ Upsert(q) \/ FindAgain(q))
           \/ q \in Request /\ (SetPassword(q) \/ CreateUser(q))
  BY <1>3, PlainReads DEF Writes
<1>4. CASE q \in Worker /\ Take(q)
  <2>1. q \in Worker BY <1>4
  <2>2. Take(q) BY <1>4
  <2>3. QED BY <2>1, <2>2, PlainJobs
<1>5. CASE \/ q = Joiner /\ (JoinCheck(q) \/ JoinCreate(q) \/ JoinDispatch(q))
           \/ q = Booter /\ CreateFounder(q)
  BY <1>5, PlainJobs DEF Writes, Worker
<1>6. QED BY <1>1, <1>2, <1>3, <1>4, <1>5 DEF Accounting

(* The steps of either specification.                                      *)
Sorted ==
  \/ \E q \in Actor :
       Plain(q) \/ Writes(q) \/ Permits(q) \/ Assigns(q) \/ Caches(q)
  \/ \E u \in User : Expire(u)
  \/ \E a \in Actor : Fail(a)
  \/ Crash
  \/ UNCHANGED vars

LEMMA NextSorts ==
  ASSUME Inv, [Next]_vars
  PROVE  Sorted
<1>1. ASSUME NEW q \in Request, RequestStep(q) \/ BootstrapStep(q)
      PROVE  q \in Actor /\ Accounting(q)
  BY <1>1 DEF Accounting, Actor
<1>2. QED BY <1>1, AccountingSorts DEF Next, Sorted

LEMMA PeopleSorts ==
  ASSUME PeopleInv, [PeopleNext]_<<vars, people>>
  PROVE  Sorted
<1>1. ASSUME NEW q \in Actor, Accounting(q) PROVE Sorted
  BY <1>1, AccountingSorts DEF PeopleInv, Sorted
<1>2. ASSUME NEW q \in Request, ChurchStep(q) PROVE Sorted
  <2>1. q \in Actor BY DEF Actor
  <2>2. Plain(q) BY <1>2, <2>1, PlainPeople
  <2>3. QED BY <2>1, <2>2 DEF Sorted
<1>3. CASE OnboardStep(Onboarder)
  BY <1>3, PlainPeople DEF Actor, Worker, Sorted
<1>4. CASE UNCHANGED <<vars, people>> BY <1>4 DEF Sorted
<1>5. CASE PeopleNext
  BY <1>1, <1>2, <1>3, <1>5, PeopleCases DEF Sorted
<1>6. QED BY <1>4, <1>5

(* A user is stored, and the last word on it.                              *)
Stored(u, d, t) ==
  /\ u \in User /\ d \in UserDoc /\ t \in UserDoc
  /\ users' = [users EXCEPT ![u] = d]
  /\ told' = [told EXCEPT !.users = [told.users EXCEPT ![u] = t]]

(* What such a step leaves alone.                                          *)
Aside(q) ==
  /\ UNCHANGED <<roles, grants, assigned, cache, jobs>>
  /\ incidents'.overlooked = incidents.overlooked
  /\ incidents'.torn = incidents.torn
  /\ incidents'.orphans = incidents.orphans
  /\ incidents.stale \subseteq incidents'.stale
  /\ incidents.careless \subseteq incidents'.careless
  /\ act[q].step \notin Announcing
  /\ \E n : act' = [act EXCEPT ![q] = n] /\ n.step \notin {"insert", "create"}

LEMMA WritesAside ==
  ASSUME Inv, NEW q \in Actor, Writes(q)
  PROVE  Aside(q)
<1>1. UNCHANGED <<roles, grants, assigned, cache, jobs>>
  BY Zenon DEF Writes, Upsert, SetPassword, CreateUser, JoinCreate, CreateFounder
<1>2. act[q].step \in {"upsert", "password", "do", "create", "user"}
  BY Zenon DEF Writes, Upsert, SetPassword, CreateUser, JoinCreate, CreateFounder, At
<1>3. act[q].step \notin Announcing /\ IsRun(act[q])
  BY <1>2, Going DEF Announcing, Inv
<1>4. /\ incidents'.overlooked = incidents.overlooked
      /\ incidents'.torn = incidents.torn
      /\ incidents'.orphans = incidents.orphans
      /\ incidents.stale \subseteq incidents'.stale
      /\ incidents.careless \subseteq incidents'.careless
  <2>1. CASE Upsert(q)
    <3>1. PICK A, B :
            /\ A = IF act[q].copy # users[act[q].of]
                   THEN incidents.stale \union {act[q].of} ELSE incidents.stale
            /\ B = IF act[q].order.op = "edit"
                   THEN incidents.careless \union {act[q].order.email}
                   ELSE incidents.careless
      OBVIOUS
    <3>2. PICK I : I = [incidents EXCEPT !.stale = A] OBVIOUS
    <3>3. incidents' = [I EXCEPT !.careless = B]
      BY <2>1, <3>1, <3>2 DEF Upsert, Inv, StoreOK
    <3>4. QED BY <3>1, <3>2, <3>3 DEF Inv, StoreOK
  <2>2. CASE SetPassword(q) \/ JoinCreate(q)
    BY Zenon, <2>2 DEF SetPassword, JoinCreate
  <2>3. CASE CreateUser(q) \/ CreateFounder(q)
    BY Zenon, <2>3 DEF CreateUser, CreateFounder, Inv, StoreOK
  <2>4. QED BY <2>1, <2>2, <2>3 DEF Writes
<1>5. \E n : act' = [act EXCEPT ![q] = n] /\ n.step \notin {"insert", "create"}
  <2>1. CASE End(q)
    <3>1. PICK n : n = Idle OBVIOUS
    <3>2. n.step = "idle" /\ act' = [act EXCEPT ![q] = n]
      BY <2>1, <3>1 DEF End, Go, Idle
    <3>3. QED BY <3>2
  <2>2. CASE Step(q, "find")
    <3>1. PICK n : n = [act[q] EXCEPT !.step = "find"] OBVIOUS
    <3>2. n.step = "find" BY <1>3, <3>1, StepSet
    <3>3. QED BY <2>2, <3>1, <3>2 DEF Step, Go
  <2>3. CASE JoinCreate(q) \/ CreateFounder(q)
    <3>1. PICK x \in {"dispatch", "assign"} :
            \E u : Go(q, [act[q] EXCEPT !.step = x, !.of = u])
      BY Zenon, <2>3 DEF JoinCreate, CreateFounder
    <3>2. PICK u : Go(q, [act[q] EXCEPT !.step = x, !.of = u]) BY Zenon, <3>1
    <3>3. PICK n : n = [act[q] EXCEPT !.step = x, !.of = u] OBVIOUS
    <3>4. n.step = x BY <1>3, <3>3, StepSet
    <3>5. QED BY Zenon, <3>2, <3>3, <3>4 DEF Go
  <2>4. QED
    BY <2>1, <2>2, <2>3 DEF Writes, Upsert, SetPassword, CreateUser
<1>6. QED BY Zenon, <1>1, <1>3, <1>4, <1>5 DEF Aside

(* A user that is written again, from the copy that was read or not.       *)
LEMMA Rewriting ==
  ASSUME Inv, NEW q \in Request, Upsert(q) \/ SetPassword(q)
  PROVE  \E u \in Known, d \in UserDoc, t \in UserDoc :
           /\ Stored(u, d, t)
           /\ d.church = users[u].church /\ d.member = users[u].member
           /\ \/ d.email = users[u].email
              \/ d.email \in incidents'.careless
              \/ u \in incidents'.stale
           /\ users[u] = told.users[u] => d = t \/ u \in incidents'.stale
<1>1. q \in Actor /\ act[q].step \in {"upsert", "password"}
  BY DEF Actor, Upsert, SetPassword
<1>2. PICK s : s = act[q] OBVIOUS
<1>3. Fits(q, s) /\ IsRun(s) BY <1>1, <1>2, Going DEF Inv
<1>4. PICK o, u : o = s.order /\ u = s.of OBVIOUS
<1>5. u \in Known /\ u \in User /\ WellFormed(o)
  BY <1>1, <1>2, <1>3, <1>4 DEF Fits, RequestFits, Known
<1>6. users[u] \in UserDoc /\ told.users[u] \in UserDoc BY <1>5, KnownDoc
<1>7. CASE Upsert(q)
  <2>1. /\ s.copy \in UserDoc
        /\ s.copy.church = users[u].church /\ s.copy.member = users[u].member
    BY <1>2, <1>3, <1>4, <1>7 DEF Fits, Home, Upsert
  <2>2. PICK d \in UserDoc : d = Rewritten(o, s.copy)
    BY <1>5, <2>1, RewrittenDoc
  <2>3. PICK t \in UserDoc : t = Rewritten(o, told.users[u])
    BY <1>5, <1>6, RewrittenDoc
  <2>4. users' = [users EXCEPT ![u] = d] BY <1>2, <1>4, <1>7, <2>2 DEF Upsert
  <2>5. told' = [told EXCEPT !.users = [told.users EXCEPT ![u] = t]]
    BY <1>2, <1>4, <1>7, <2>3 DEF Upsert
  <2>6. /\ d.church = users[u].church /\ d.member = users[u].member
        /\ o.op # "edit" => d.email = s.copy.email
        /\ o.op = "edit" => d.email = o.email
    BY <1>5, <2>1, <2>2, RewrittenDoc
  <2>7. /\ s.copy # users[u] => u \in incidents'.stale
        /\ o.op = "edit" => o.email \in incidents'.careless
    <3>1. PICK A, B :
            /\ A = IF s.copy # users[u]
                   THEN incidents.stale \union {u} ELSE incidents.stale
            /\ B = IF o.op = "edit"
                   THEN incidents.careless \union {o.email}
                   ELSE incidents.careless
      OBVIOUS
    <3>2. PICK I : I = [incidents EXCEPT !.stale = A] OBVIOUS
    <3>3. incidents' = [I EXCEPT !.careless = B]
      BY <1>2, <1>4, <1>7, <3>1, <3>2 DEF Upsert, Inv, StoreOK
    <3>4. QED BY <3>1, <3>2, <3>3 DEF Inv, StoreOK
  <2>8. Stored(u, d, t) BY <1>5, <2>2, <2>3, <2>4, <2>5 DEF Stored
  <2>9. users[u] = told.users[u] => d = t \/ u \in incidents'.stale
    BY <2>2, <2>3, <2>7
  <2>10. \/ d.email = users[u].email
         \/ d.email \in incidents'.careless
         \/ u \in incidents'.stale
    BY <2>6, <2>7
  <2>11. QED BY <1>5, <2>6, <2>8, <2>9, <2>10
<1>8. CASE SetPassword(q)
  <2>1. PICK p : p = NewPassword(o) OBVIOUS
  <2>2. p \in Password
    BY <1>2, <1>3, <1>4, <1>5, <1>8, <2>1, StartAssumption
       DEF NewPassword, WellFormed, Carrying, Fits, UserDoc, SetPassword
  <2>3. PICK d : d = [users[u] EXCEPT !.password = p] OBVIOUS
  <2>4. PICK t : t = [told.users[u] EXCEPT !.password = p] OBVIOUS
  <2>5. /\ d \in UserDoc /\ t \in UserDoc
        /\ d.church = users[u].church /\ d.member = users[u].member
        /\ d.email = users[u].email
    BY <1>6, <2>2, <2>3, <2>4 DEF UserDoc
  <2>6. users' = [users EXCEPT ![u] = d]
    BY <1>2, <1>4, <1>5, <1>8, <2>1, <2>3 DEF SetPassword, Inv, StoreOK, TypeOK
  <2>7. told' = [told EXCEPT !.users = [told.users EXCEPT ![u] = t]]
    BY <1>2, <1>4, <1>5, <1>8, <2>1, <2>4 DEF SetPassword, Inv, StoreOK
  <2>8. Stored(u, d, t) BY <1>5, <2>5, <2>6, <2>7 DEF Stored
  <2>9. users[u] = told.users[u] => d = t BY <2>3, <2>4
  <2>10. QED BY <1>5, <2>5, <2>8, <2>9
<1>9. QED BY <1>7, <1>8

(* A user that is made: for a member by the job that looked for the        *)
(* address, or without looking.                                            *)
LEMMA Making ==
  ASSUME Inv, NEW q \in Actor,
         \/ q \in Request /\ CreateUser(q)
         \/ q = Joiner /\ JoinCreate(q)
         \/ q = Booter /\ CreateFounder(q)
  PROVE  \E u \in Free, d \in UserDoc :
           /\ Stored(u, d, d)
           /\ q # Joiner => d.email \in incidents'.careless /\ d.member = FALSE
           /\ q = Joiner =>
                /\ act[Joiner].step = "create" /\ d.email = act[Joiner].order.email
                /\ act'[Joiner].step = "dispatch" /\ act'[Joiner].of = u
<1>1. act[q].step # "idle" BY Zenon DEF CreateUser, JoinCreate, CreateFounder, At
<1>2. PICK o : o = act[q].order OBVIOUS
<1>3. Fits(q, act[q]) /\ IsRun(act[q]) BY <1>1, Going DEF Inv
<1>4. Joiner \in Worker /\ Booter \in Worker /\ Joiner # Booter
  BY DEF Worker, Joiner, Booter
<1>5. CASE q = Joiner /\ JoinCreate(q)
  <2>1. o \in JoinJobs BY <1>1, <1>2, <1>4, <1>5, WorkerOrder
  <2>2. PICK d : d = NewUser(o, o.email, TRUE) OBVIOUS
  <2>3. d \in UserDoc /\ d.email = o.email
    BY <2>1, <2>2, NewUserDoc DEF JoinJobs
  <2>4. PICK u \in Free : /\ users' = [users EXCEPT ![u] = d]
                          /\ told' = [told EXCEPT !.users[u] = d]
                          /\ Go(q, [act[q] EXCEPT !.step = "dispatch", !.of = u])
    BY Zenon, <1>2, <1>5, <2>2 DEF JoinCreate
  <2>5. told' = [told EXCEPT !.users = [told.users EXCEPT ![u] = d]]
    BY <2>4 DEF Inv, StoreOK
  <2>6. Stored(u, d, d) BY <2>3, <2>4, <2>5 DEF Stored, Free
  <2>7. PICK n : n = [act[q] EXCEPT !.step = "dispatch", !.of = u] OBVIOUS
  <2>8. n.step = "dispatch" /\ n.of = u BY Zenon, <1>3, <2>7, SetStepOf DEF Run
  <2>9. act'[q] = n BY <2>4, <2>7 DEF Go, Inv, ActOK
  <2>10. act[q].step = "create" BY Zenon, <1>5 DEF JoinCreate, At
  <2>11. QED BY <1>2, <1>5, <2>3, <2>4, <2>6, <2>8, <2>9, <2>10
<1>6. CASE \/ q \in Request /\ CreateUser(q)
           \/ q = Booter /\ CreateFounder(q)
  <2>1. q # Joiner BY <1>4, <1>6, SlotAssumption
  <2>2. o.email \in Email /\ o.password \in Password /\ o.church \in Church
    <3>1. CASE q \in Request /\ CreateUser(q)
      <4>1. act[q].order.op = "create" BY <3>1 DEF CreateUser, At
      <4>2. QED BY <1>1, <1>2, <3>1, <4>1, WhoRuns DEF RequestFits, WellFormed
    <3>2. CASE q = Booter /\ CreateFounder(q)
      <4>1. act[q].order.op = "boot" /\ act[q].step = "user"
        BY Zenon, <3>2 DEF CreateFounder, At
      <4>2. o.user = Missing BY <1>2, <1>3, <4>1 DEF Fits
      <4>3. QED BY <1>1, <1>2, <4>1, <4>2, Bootstrapping DEF Bootstraps
    <3>3. QED BY <1>6, <3>1, <3>2
  <2>3. PICK d : d = NewUser(o, o.email, FALSE) OBVIOUS
  <2>4. d \in UserDoc /\ d.email = Lower[o.email] /\ d.member = FALSE
    BY <2>2, <2>3, NewUserDoc
  <2>5. PICK u \in Free : /\ users' = [users EXCEPT ![u] = d]
                          /\ told' = [told EXCEPT !.users[u] = d]
    BY Zenon, <1>2, <1>6, <2>3 DEF CreateUser, CreateFounder
  <2>6. told' = [told EXCEPT !.users = [told.users EXCEPT ![u] = d]]
    BY <2>5 DEF Inv, StoreOK
  <2>7. Stored(u, d, d) BY <2>4, <2>5, <2>6 DEF Stored, Free
  <2>8. Lower[o.email] \in incidents'.careless
    BY Zenon, <1>2, <1>6 DEF CreateUser, CreateFounder, Inv, StoreOK
  <2>9. QED BY <2>1, <2>4, <2>5, <2>7, <2>8
<1>7. QED BY Zenon, <1>5, <1>6

(* In either case users stay where they are.                               *)
LEMMA StoredGrows ==
  ASSUME Inv, NEW u, NEW d, NEW t, Stored(u, d, t),
         u \in Known => d.church = users[u].church /\ d.member = users[u].member
  PROVE  /\ Grown /\ Known' = Known \union {u}
         /\ told'.grants = told.grants
         /\ told'.users = [told.users EXCEPT ![u] = t]
<1>1. d # Missing BY MissingAssumption DEF Stored
<1>2. QED BY <1>1 DEF Stored, Grown, Known, Inv, StoreOK, TypeOK

LEMMA WritesGrow ==
  ASSUME Inv, NEW q \in Actor, Writes(q)
  PROVE  Grown /\ told'.grants = told.grants
<1>1. CASE q \in Request /\ (Upsert(q) \/ SetPassword(q))
  BY <1>1, Rewriting, StoredGrows
<1>2. CASE \/ q \in Request /\ CreateUser(q)
           \/ q = Joiner /\ JoinCreate(q)
           \/ q = Booter /\ CreateFounder(q)
  <2>1. PICK u \in Free, d \in UserDoc : Stored(u, d, d) BY <1>2, Making
  <2>2. u \notin Known BY <2>1 DEF Free
  <2>3. QED BY <2>1, <2>2, StoredGrows
<1>3. QED BY <1>1, <1>2 DEF Writes

(***************************************************************************)
(* The cache of rights.                                                    *)
(***************************************************************************)

(* An actor that stays at its step announces whom it did, the roles of a   *)
(* user being the same.                                                    *)
LEMMA AnnouncedKept ==
  ASSUME Inv, NEW b \in Actor, act'[b] = act[b], Grown,
         NEW u, assigned'[u] = assigned[u], u \in Announced(b)
  PROVE  u \in Announced(b)'
<1> DEFINE o == act[b].order
<1>1. CASE act[b].step = "invalidate" BY <1>1 DEF Announced
<1>2. CASE act[b].step \in {"insert", "holders"} /\ o.op = "permit"
  <2>1. act[b].step # "idle" BY <1>2
  <2>2. b \in Request BY <1>2, <2>1, WhoRuns
  <2>3. PICK x, r : x = o.caller /\ r = o.role OBVIOUS
  <2>4. x \in Known BY <1>2, <2>1, <2>2, <2>3, WhoRuns DEF RequestFits, Carrying
  <2>5. u \in Known /\ Home(u) = Home(x) /\ r \in RolesOf(u)
    BY <1>2, <2>3 DEF Announced, Holders
  <2>6. u \in Known' /\ Home(u)' = Home(u) /\ Home(x)' = Home(x)
    BY <2>4, <2>5 DEF Grown, Home
  <2>7. r \in RolesOf(u)' BY <2>5 DEF RolesOf
  <2>8. u \in Holders(Home(x), r)'
    BY <2>5, <2>6, <2>7 DEF Holders
  <2>9. act'[b].order.caller = x /\ act'[b].order.role = r BY <2>3
  <2>10. QED BY <1>2, <2>8, <2>9 DEF Announced
<1>3. CASE /\ act[b].step # "invalidate"
           /\ ~(act[b].step \in {"insert", "holders"} /\ o.op = "permit")
  BY <1>3 DEF Announced
<1>4. QED BY <1>1, <1>2, <1>3

(* Nobody is announced at the other steps.                                 *)
LEMMA NoneAnnounced ==
  ASSUME NEW a, act[a].step \notin Announcing
  PROVE  Announced(a) = {}
BY DEF Announced, Announcing

LEMMA RightsKept ==
  ASSUME Inv, Grown, NEW u \in Known, assigned'[u] = assigned[u],
         \A r \in RolesOf(u) : grants'[Home(u)][r] = grants[Home(u)][r]
  PROVE  Rights(u)' = Rights(u)
<1>1. Home(u)' = Home(u) BY DEF Grown, Home
<1>2. RolesOf(u)' = RolesOf(u) BY DEF RolesOf
<1>3. PICK c, R : c = Home(u) /\ R = RolesOf(u) OBVIOUS
<1>4. {grants'[c][r] : r \in R} = {grants[c][r] : r \in R} BY <1>3
<1>5. QED BY <1>1, <1>2, <1>3, <1>4 DEF Rights, Granting

(* The entry of one user.                                                  *)
Followed(u) ==
  cache[u] \notin {Missing, Rights(u)} =>
    \/ u \in incidents.overlooked
    \/ \E a \in Actor : u \in Announced(a)

LEMMA FollowKept ==
  ASSUME Inv, NEW q \in Actor, NEW n, act' = [act EXCEPT ![q] = n], Grown,
         NEW u \in User, Followed(u), assigned'[u] = assigned[u],
         cache'[u] = cache[u],
         u \in incidents.overlooked => u \in incidents'.overlooked,
         u \in Announced(q) => u \in Announced(q)' \/ u \in incidents'.overlooked,
         u \in Known =>
           \/ Rights(u)' = Rights(u)
           \/ u \in incidents'.overlooked
           \/ u \in Announced(q)'
  PROVE  Followed(u)'
<1>1. SUFFICES ASSUME cache[u] # Missing, cache[u] # Rights(u)',
                      u \notin incidents'.overlooked, u \notin Announced(q)'
               PROVE  \E a \in Actor : u \in Announced(a)'
  BY DEF Followed
<1>2. u \in Known BY <1>1 DEF Inv, StoreOK
<1>3. Rights(u)' = Rights(u) BY <1>1, <1>2
<1>4. PICK a \in Actor : u \in Announced(a)
  BY <1>1, <1>3 DEF Followed
<1>5. a # q BY <1>1, <1>4
<1>6. act'[a] = act[a] BY <1>5 DEF Inv, ActOK
<1>7. u \in Announced(a)' BY <1>4, <1>6, AnnouncedKept
<1>8. QED BY <1>7

LEMMA CachePlain ==
  ASSUME Inv, CacheFollows, NEW q \in Actor, Plain(q) \/ Writes(q)
  PROVE  CacheFollows'
<1>1. /\ UNCHANGED <<grants, assigned, cache>> /\ Grown
      /\ incidents'.overlooked = incidents.overlooked
      /\ act[q].step \notin Announcing
  <2>1. CASE Plain(q) BY <2>1 DEF Plain, Grown, Known
  <2>2. CASE Writes(q) BY <2>2, WritesAside, WritesGrow DEF Aside
  <2>3. QED BY <2>1, <2>2
<1>2. PICK n : act' = [act EXCEPT ![q] = n] BY WritesAside DEF Plain, Aside
<1>3. Announced(q) = {} BY <1>1, NoneAnnounced
<1>4. ASSUME NEW u \in User PROVE Followed(u)'
  <2>1. Followed(u) BY DEF CacheFollows, Followed
  <2>2. u \in Known => Rights(u)' = Rights(u) BY <1>1, RightsKept
  <2>3. QED BY <1>1, <1>2, <1>3, <2>1, <2>2, FollowKept
<1>5. QED BY <1>4 DEF CacheFollows, Followed

(* Permissions of a role change the rights of its holders alone.           *)
LEMMA RightsElse ==
  ASSUME Inv, NEW c \in Church, NEW r \in Role, NEW P,
         grants' \in {Emptied(c, r), Filled(c, r, P)},
         UNCHANGED <<users, assigned>>, NEW u \in Known, u \notin Holders(c, r)
  PROVE  Rights(u)' = Rights(u)
<1>1. Grown BY DEF Grown, Known
<1>2. Home(u) \in Church /\ RolesOf(u) \in SUBSET Role
  BY KnownDoc DEF RolesOf, Inv, StoreOK, TypeOK, Maybe
<1>3. \A s \in RolesOf(u) : Home(u) # c \/ s # r BY DEF Holders
<1>4. \A d \in Church, s \in Role :
        d # c \/ s # r => grants'[d][s] = grants[d][s]
  BY DEF Emptied, Filled, Inv, StoreOK, TypeOK
<1>5. QED BY <1>1, <1>2, <1>3, <1>4, RightsKept

(* The role whose permissions are set, and by which request or job.        *)
LEMMA Permitting ==
  ASSUME Inv, NEW q \in Actor, Permits(q)
  PROVE  \/ /\ q \in Request /\ act[q].order.op = "permit"
            /\ act[q].order.caller \in Known
            /\ Home(act[q].order.caller) \in Church /\ act[q].order.role \in Role
            /\ EmptyRole(q) \/ FillRole(q)
         \/ /\ act[q].order.op \in Bootstraps
            /\ act[q].order.church \in Church
            /\ BaseRoles[act[q].at] \in Role
            /\ StoreBaseRole(q) \/ FillBaseRole(q)
<1>1. act[q].step \in {"do", "insert", "role"}
  BY Zenon DEF Permits, EmptyRole, FillRole, StoreBaseRole, FillBaseRole, At
<1>2. CASE q \in Request /\ (EmptyRole(q) \/ FillRole(q))
  <2>1. act[q].order.op = "permit" BY <1>2 DEF EmptyRole, FillRole, At
  <2>2. act[q].order.caller \in Known /\ act[q].order.role \in Role
    BY <1>1, <1>2, <2>1, WhoRuns DEF RequestFits, WellFormed, Carrying
  <2>3. QED BY <1>2, <2>1, <2>2, KnownDoc
<1>3. CASE StoreBaseRole(q) \/ FillBaseRole(q)
  <2>1. act[q].order.op \in Bootstraps
    BY Zenon, <1>3 DEF StoreBaseRole, FillBaseRole, At
  <2>2. QED BY <1>1, <1>3, <2>1, Bootstrapping
<1>4. QED BY <1>2, <1>3 DEF Permits

(* The step that sets permissions, in one form.                            *)
LEMMA RoleEmptied ==
  ASSUME Inv, NEW q \in Request, EmptyRole(q)
  PROVE  LET c == Home(act[q].order.caller)
             r == act[q].order.role
         IN /\ act[q].step = "do" /\ UNCHANGED <<users, assigned, cache, jobs>>
            /\ incidents'.overlooked = incidents.overlooked
            /\ \/ act' = [act EXCEPT ![q] = Idle] /\ UNCHANGED <<grants, told, incidents>>
               \/ /\ grants' = Emptied(c, r) /\ incidents' = Untorn(q, c, r)
                  /\ \E n : /\ act' = [act EXCEPT ![q] = n]
                            /\ n.order = act[q].order
                            /\ \/ n.step = "insert" /\ told' = told
                               \/ n.step = "holders" /\ told' = Tell(c, r, {})
<1>1. /\ act[q].step = "do" /\ UNCHANGED <<users, assigned, cache, jobs>>
  BY DEF EmptyRole, At
<1>2. IsRun(act[q]) BY <1>1, Going DEF Inv, Actor
<1>3. incidents'.overlooked = incidents.overlooked
  BY DEF EmptyRole, Untorn, Inv, StoreOK
<1>4. PICK c, r : c = Home(act[q].order.caller) /\ r = act[q].order.role OBVIOUS
<1>5. CASE roles[c][r] = Missing
  BY <1>1, <1>3, <1>4, <1>5 DEF EmptyRole, End, Go
<1>6. CASE roles[c][r] # Missing
  <2>1. PICK x : /\ x = IF act[q].order.permissions = {} THEN "holders" ELSE "insert"
                 /\ Step(q, x)
    BY <1>4, <1>6 DEF EmptyRole
  <2>2. PICK n : n = [act[q] EXCEPT !.step = x] OBVIOUS
  <2>3. n.step = x /\ n.order = act[q].order BY <1>2, <2>2, SetStep DEF Run
  <2>4. act' = [act EXCEPT ![q] = n] BY <2>1, <2>2 DEF Step, Go
  <2>5. grants' = Emptied(c, r) /\ incidents' = Untorn(q, c, r)
    BY <1>4, <1>6 DEF EmptyRole
  <2>6. \/ n.step = "insert" /\ told' = told
        \/ n.step = "holders" /\ told' = Tell(c, r, {})
    BY <1>4, <1>6, <2>1, <2>3 DEF EmptyRole
  <2>7. QED BY <1>1, <1>3, <1>4, <2>3, <2>4, <2>5, <2>6
<1>7. QED BY <1>5, <1>6

LEMMA RoleFilled ==
  ASSUME Inv, NEW q \in Request, FillRole(q)
  PROVE  LET c == Home(act[q].order.caller)
             r == act[q].order.role
             P == act[q].order.permissions
         IN /\ act[q].step = "insert" /\ act[q].order.op = "permit"
            /\ UNCHANGED <<users, assigned, cache, jobs>>
            /\ incidents'.overlooked = incidents.overlooked
            /\ grants' = Filled(c, r, P) /\ told' = Tell(c, r, P)
            /\ incidents' = Torn(q, c, r)
            /\ \E n : /\ act' = [act EXCEPT ![q] = n]
                      /\ n.order = act[q].order /\ n.step = "holders"
<1>1. /\ act[q].step = "insert" /\ act[q].order.op = "permit"
      /\ UNCHANGED <<users, assigned, cache, jobs>>
  BY DEF FillRole, At
<1>2. IsRun(act[q]) BY <1>1, Going DEF Inv, Actor
<1>3. incidents'.overlooked = incidents.overlooked
  BY DEF FillRole, Torn, Inv, StoreOK
<1>4. PICK n : n = [act[q] EXCEPT !.step = "holders"] OBVIOUS
<1>5. n.step = "holders" /\ n.order = act[q].order BY <1>2, <1>4, SetStep DEF Run
<1>6. act' = [act EXCEPT ![q] = n] BY <1>4 DEF FillRole, Step, Go
<1>7. QED BY <1>1, <1>3, <1>5, <1>6 DEF FillRole

(* A base role is stored, emptied and filled again.                        *)
LEMMA BaseRoleSet ==
  ASSUME Inv, NEW q \in Actor, StoreBaseRole(q) \/ FillBaseRole(q)
  PROVE  LET o == act[q].order
             c == o.church
             r == BaseRoles[act[q].at]
         IN /\ UNCHANGED <<users, assigned, cache, jobs>>
            /\ incidents'.overlooked = incidents.overlooked \union Overlooked(q, c, r)
            /\ \E n : /\ act' = [act EXCEPT ![q] = n] /\ n.order = o
                      /\ \/ /\ StoreBaseRole(q) /\ n.step = "insert"
                            /\ n.at = act[q].at /\ act[q].step \in {"do", "role"}
                            /\ grants' = Emptied(c, r) /\ told' = told
                            /\ incidents'.torn = Untorn(q, c, r).torn
                         \/ /\ FillBaseRole(q) /\ n.step \in {"role", "user", "assign"}
                            /\ n.step = "user" => o.user = Missing
                            /\ act[q].step = "insert"
                            /\ grants' = Filled(c, r, Base[r])
                            /\ told' = Tell(c, r, Base[r])
                            /\ incidents'.torn = Torn(q, c, r).torn
<1>1. /\ act[q].step \in {"do", "role", "insert"}
      /\ UNCHANGED <<users, assigned, cache, jobs>>
  BY Zenon DEF StoreBaseRole, FillBaseRole, At
<1>2. PICK s : s = act[q] OBVIOUS
<1>3. IsRun(s) BY <1>1, <1>2, Going DEF Inv
<1>4. PICK o, c, r : o = s.order /\ c = o.church /\ r = BaseRoles[s.at] OBVIOUS
<1>5. CASE StoreBaseRole(q)
  <2>1. PICK I : I = Untorn(q, c, r) OBVIOUS
  <2>2. I = [overlooked |-> I.overlooked, torn |-> I.torn, stale |-> I.stale,
             careless |-> I.careless, orphans |-> I.orphans]
        /\ I.overlooked = incidents.overlooked
    BY <2>1 DEF Untorn, Inv, StoreOK
  <2>3. incidents' = [I EXCEPT !.overlooked = @ \union Overlooked(q, c, r)]
    BY <1>2, <1>4, <1>5, <2>1 DEF StoreBaseRole
  <2>4. /\ incidents'.overlooked = incidents.overlooked \union Overlooked(q, c, r)
        /\ incidents'.torn = I.torn
    BY <2>2, <2>3
  <2>5. PICK n : n = [s EXCEPT !.step = "insert"] OBVIOUS
  <2>6. n.step = "insert" /\ n.order = o /\ n.at = s.at
    BY <1>3, <1>4, <2>5, SetStep DEF Run
  <2>7. act' = [act EXCEPT ![q] = n] BY <1>2, <1>5, <2>5 DEF StoreBaseRole, Step, Go
  <2>8. s.step \in {"do", "role"} /\ grants' = Emptied(c, r) /\ told' = told
    BY <1>2, <1>4, <1>5 DEF StoreBaseRole, At
  <2>9. QED BY <1>1, <1>2, <1>4, <1>5, <2>1, <2>4, <2>6, <2>7, <2>8
<1>6. CASE FillBaseRole(q)
  <2>1. PICK I : I = Torn(q, c, r) OBVIOUS
  <2>2. I = [overlooked |-> I.overlooked, torn |-> I.torn, stale |-> I.stale,
             careless |-> I.careless, orphans |-> I.orphans]
        /\ I.overlooked = incidents.overlooked
    BY <2>1 DEF Torn, Inv, StoreOK
  <2>3. incidents' = [I EXCEPT !.overlooked = @ \union Overlooked(q, c, r)]
    BY <1>2, <1>4, <1>6, <2>1 DEF FillBaseRole
  <2>4. /\ incidents'.overlooked = incidents.overlooked \union Overlooked(q, c, r)
        /\ incidents'.torn = I.torn
    BY <2>2, <2>3
  <2>5. PICK k : k = IF s.at = Len(BaseRoles) THEN s.at ELSE s.at + 1 OBVIOUS
  <2>6. PICK st : st = IF s.at # Len(BaseRoles) THEN "role"
                       ELSE IF o.user = Missing THEN "user" ELSE "assign"
    OBVIOUS
  <2>7. PICK n : n = [s EXCEPT !.at = k, !.of = o.user, !.step = st] OBVIOUS
  <2>8. n = [s EXCEPT !.at = IF s.at = Len(BaseRoles) THEN @ ELSE @ + 1,
               !.of = o.user,
               !.step = IF ~(s.at = Len(BaseRoles)) THEN "role"
                        ELSE IF o.user = Missing THEN "user" ELSE "assign"]
    BY <1>3, <2>5, <2>6, <2>7 DEF IsRun
  <2>9. act' = [act EXCEPT ![q] = n]
    BY <1>2, <1>4, <1>6, <2>8 DEF FillBaseRole, Go
  <2>10. n.step = st /\ n.order = o
    BY Zenon, <1>3, <1>4, <2>7, SetAtOfStep DEF Run
  <2>11. /\ n.step \in {"role", "user", "assign"}
         /\ n.step = "user" => o.user = Missing
    BY <2>6, <2>10
  <2>12. /\ s.step = "insert" /\ grants' = Filled(c, r, Base[r])
         /\ told' = Tell(c, r, Base[r])
    BY <1>2, <1>4, <1>6 DEF FillBaseRole, At
  <2>13. QED
    BY <1>1, <1>2, <1>4, <1>6, <2>1, <2>4, <2>9, <2>10, <2>11, <2>12
<1>7. QED BY <1>5, <1>6

(* The holders of the role are announced by the request, or overlooked by  *)
(* the bootstrap.                                                          *)
LEMMA CachePermits ==
  ASSUME Inv, CacheFollows, NEW q \in Actor, Permits(q)
  PROVE  CacheFollows'
<1> DEFINE s == act[q]
           o == s.order
<1>1. SUFFICES ASSUME NEW u \in User PROVE Followed(u)'
  BY DEF CacheFollows, Followed
<1>2. Followed(u) BY DEF CacheFollows, Followed
<1>3. CASE /\ q \in Request /\ o.op = "permit"
           /\ o.caller \in Known
           /\ Home(o.caller) \in Church /\ o.role \in Role
           /\ EmptyRole(q) \/ FillRole(q)
  <2>1. PICK x, r : x = o.caller /\ r = o.role OBVIOUS
  <2>2. PICK c \in Church : c = Home(x) BY <1>3, <2>1
  <2>3. /\ UNCHANGED <<users, assigned, cache>>
        /\ incidents'.overlooked = incidents.overlooked
    BY <1>3, RoleEmptied, RoleFilled
  <2>4. Grown BY <2>3 DEF Grown, Known
  <2>5. CASE grants' = grants
    <3>1. u \in Known => Rights(u)' = Rights(u) BY <2>3, <2>4, <2>5, RightsKept
    <3>2. CASE EmptyRole(q)
      <4>1. PICK n : act' = [act EXCEPT ![q] = n] BY <1>3, <3>2, RoleEmptied
      <4>2. Announced(q) = {}
        BY <1>3, <3>2, RoleEmptied, NoneAnnounced DEF Announcing
      <4>3. QED BY <1>2, <2>3, <2>4, <3>1, <4>1, <4>2, FollowKept
    <3>3. CASE FillRole(q)
      <4>1. PICK n : /\ act' = [act EXCEPT ![q] = n]
                     /\ n.order = o /\ n.step = "holders"
        BY <1>3, <3>3, RoleFilled
      <4>2. act'[q] = n BY <4>1 DEF Inv, ActOK
      <4>3. Announced(q) = Holders(c, r)
        BY <1>3, <2>1, <2>2, <3>3, RoleFilled DEF Announced
      <4>4. Announced(q)' = Holders(c, r)'
        <5>1. Home(x)' = c BY <2>2, <2>3 DEF Home
        <5>2. act'[q].order.caller = x /\ act'[q].order.role = r
          BY <2>1, <4>1, <4>2
        <5>3. QED BY <1>3, <4>1, <4>2, <5>1, <5>2 DEF Announced
      <4>5. Holders(c, r)' = Holders(c, r)
        BY <2>3 DEF Holders, Known, Home, RolesOf
      <4>6. QED BY <1>2, <2>3, <2>4, <3>1, <4>1, <4>3, <4>4, <4>5, FollowKept
    <3>4. QED BY <1>3, <3>2, <3>3
  <2>6. CASE grants' # grants
    <3>1. PICK n : /\ act' = [act EXCEPT ![q] = n] /\ n.order = o
                   /\ n.step \in {"insert", "holders"}
      BY <1>3, <2>6, RoleEmptied, RoleFilled
    <3>2. act'[q] = n BY <3>1 DEF Inv, ActOK
    <3>3. Holders(c, r)' = Holders(c, r)
      BY <2>3 DEF Holders, Known, Home, RolesOf
    <3>4. Announced(q)' = Holders(c, r)'
      <4>1. Home(x)' = c BY <2>2, <2>3 DEF Home
      <4>2. act'[q].order.caller = x /\ act'[q].order.role = r
        BY <2>1, <3>1, <3>2
      <4>3. QED BY <1>3, <3>1, <3>2, <4>1, <4>2 DEF Announced
    <3>5. Announced(q) \subseteq Holders(c, r)
      <4>1. s.step \in {"do", "insert"} BY <1>3, RoleEmptied, RoleFilled
      <4>2. QED BY <1>3, <2>1, <2>2, <4>1 DEF Announced
    <3>6. grants' \in {Emptied(c, r), Filled(c, r, o.permissions)}
      BY <1>3, <2>1, <2>2, <2>6, RoleEmptied, RoleFilled
    <3>7. u \in Known => Rights(u)' = Rights(u) \/ u \in Announced(q)'
      BY <1>3, <2>1, <2>3, <3>3, <3>4, <3>6, RightsElse
    <3>8. QED BY <1>2, <2>3, <2>4, <3>1, <3>3, <3>4, <3>5, <3>7, FollowKept
  <2>7. QED BY <2>5, <2>6
<1>4. CASE /\ o.op \in Bootstraps
           /\ o.church \in Church
           /\ BaseRoles[s.at] \in Role
           /\ StoreBaseRole(q) \/ FillBaseRole(q)
  <2>1. PICK c \in Church, r \in Role : c = o.church /\ r = BaseRoles[s.at]
    BY <1>4
  <2>2. /\ UNCHANGED <<users, assigned, cache>>
        /\ incidents'.overlooked = incidents.overlooked \union Overlooked(q, c, r)
    BY <1>4, <2>1, BaseRoleSet
  <2>3. PICK n : /\ act' = [act EXCEPT ![q] = n] /\ n.order = o
                 /\ n.step \in {"insert", "role", "user", "assign"}
                 /\ n.step = "user" => o.user = Missing
    BY <1>4, BaseRoleSet
  <2>4. act'[q] = n BY <2>3 DEF Inv, ActOK
  <2>5. s.step \in {"do", "role", "insert"} BY <1>4, BaseRoleSet
  <2>6. Grown BY <2>2 DEF Grown, Known
  <2>7. o.op = "bootstrap" => Announced(q)' = {o.user}
    <3>1. PICK x : x = o.user OBVIOUS
    <3>2. o.op = "bootstrap" => o.user # Missing
      BY <1>4, <2>5, Bootstrapping
    <3>3. o.op = "bootstrap" => n.step \in {"insert", "role", "assign"}
      BY <2>3, <3>2
    <3>4. QED BY <2>3, <2>4, <3>3 DEF Announced
  <2>8. u \in Announced(q) => o.op = "bootstrap" /\ u = o.user
    BY <1>4, <2>5 DEF Announced, Bootstraps
  <2>9. grants' \in {Emptied(c, r), Filled(c, r, Base[r])}
    BY <1>4, <2>1, BaseRoleSet
  <2>10. u \in Known => \/ Rights(u)' = Rights(u)
                        \/ u \in incidents'.overlooked
                        \/ u \in Announced(q)'
    <3>1. CASE u \in Known \ Holders(c, r)
      BY <2>2, <2>9, <3>1, RightsElse
    <3>2. CASE u \in Holders(c, r) BY <2>2, <2>7, <3>2 DEF Overlooked
    <3>3. QED BY <3>1, <3>2
  <2>11. QED
    BY <1>2, <2>2, <2>3, <2>6, <2>7, <2>8, <2>10, FollowKept
<1>5. QED BY <1>3, <1>4, Permitting

(* The roles of a user are replaced, by a request or by the bootstrap.     *)
LEMMA RolesAssigned ==
  ASSUME Inv, NEW q \in Actor, Assigns(q)
  PROVE  /\ UNCHANGED <<users, grants, cache, told>>
         /\ act[q].step \in {"do", "assign"}
         /\ incidents.overlooked \subseteq incidents'.overlooked
         /\ incidents'.torn = incidents.torn /\ incidents'.stale = incidents.stale
         /\ incidents'.careless = incidents.careless
         /\ incidents'.orphans = incidents.orphans
         /\ \/ /\ UNCHANGED <<assigned, jobs>> /\ act[q].step = "do"
               /\ act' = [act EXCEPT ![q] = Idle]
            \/ \E u \in Known, R \in SUBSET Role :
                 /\ assigned' = [assigned EXCEPT ![u] = R]
                 /\ Announced(q) \subseteq {u}
                 /\ \/ /\ UNCHANGED jobs
                       /\ \E n : /\ act' = [act EXCEPT ![q] = n]
                                 /\ n.step = "invalidate" /\ n.left = {u}
                    \/ /\ q = Booter /\ act[q].order.op = "boot"
                       /\ act' = [act EXCEPT ![q] = Idle] /\ jobs' = EndJobs(q)
                       /\ Home(u) = act[q].order.church
                       /\ act[q].order.user \in {Missing, u}
                       /\ u \in incidents'.overlooked
<1>1. /\ UNCHANGED <<users, grants, cache, told>>
      /\ act[q].step \in {"do", "assign"} /\ act[q].step # "idle"
  BY DEF Assigns, AssignRoles, AssignCreator, At
<1>2. /\ incidents.overlooked \subseteq incidents'.overlooked
      /\ incidents'.torn = incidents.torn /\ incidents'.stale = incidents.stale
      /\ incidents'.careless = incidents.careless
      /\ incidents'.orphans = incidents.orphans
  BY DEF Assigns, AssignRoles, AssignCreator, Inv, StoreOK
<1>3. PICK s : s = act[q] OBVIOUS
<1>4. Fits(q, s) /\ IsRun(s) BY <1>1, <1>3, Going DEF Inv
<1>5. ASSUME NEW u, Go(q, [s EXCEPT !.step = "invalidate", !.left = {u}])
      PROVE  \E n : /\ act' = [act EXCEPT ![q] = n]
                    /\ n.step = "invalidate" /\ n.left = {u}
  <2>1. PICK L : L = {u} OBVIOUS
  <2>2. PICK n : n = [s EXCEPT !.step = "invalidate", !.left = L] OBVIOUS
  <2>3. n.step = "invalidate" /\ n.left = {u}
    BY Zenon, <1>4, <2>1, <2>2, SetStepLeft DEF Run
  <2>4. QED BY <1>5, <2>1, <2>2, <2>3 DEF Go
<1>6. CASE q \in Request /\ AssignRoles(q)
  <2>1. s.step = "do" /\ s.order.op = "assign" /\ UNCHANGED jobs
    BY <1>3, <1>6 DEF AssignRoles, At
  <2>2. s.order.user \in Known /\ s.order.roles \in SUBSET Role
    BY <1>4, <1>6, <2>1 DEF Fits, RequestFits, WellFormed, Naming
  <2>3. Announced(q) = {} BY <1>3, <2>1, NoneAnnounced DEF Announcing
  <2>4. CASE End(q) /\ UNCHANGED assigned
    BY <1>1, <1>2, <1>3, <2>1, <2>4 DEF End, Go
  <2>5. CASE /\ assigned' = [assigned EXCEPT ![s.order.user] = s.order.roles]
             /\ Go(q, [s EXCEPT !.step = "invalidate", !.left = {s.order.user}])
    <3>1. PICK u \in Known, R \in SUBSET Role : u = s.order.user /\ R = s.order.roles
      BY <2>2
    <3>2. /\ assigned' = [assigned EXCEPT ![u] = R]
          /\ Go(q, [s EXCEPT !.step = "invalidate", !.left = {u}])
      BY <2>5, <3>1
    <3>3. QED BY Zenon, <1>1, <1>2, <1>5, <2>1, <2>3, <3>2
  <2>6. QED BY <1>3, <1>6, <2>4, <2>5 DEF AssignRoles
<1>7. CASE AssignCreator(q)
  <2>1. s.step = "assign" /\ s.order.op \in Bootstraps
    BY <1>3, <1>7 DEF AssignCreator, At
  <2>2. /\ s.of \in Known /\ s.order.roles \in SUBSET Role
        /\ Home(s.of) = s.order.church /\ s.order.user \in {Missing, s.of}
    BY <1>1, <1>3, <1>4, <2>1, Bootstrapping DEF Fits
  <2>3. PICK u \in Known, R \in SUBSET Role : u = s.of /\ R = s.order.roles
    BY <2>2
  <2>4. assigned' = [assigned EXCEPT ![u] = R]
    BY <1>3, <1>7, <2>3 DEF AssignCreator
  <2>5. CASE s.order.op = "bootstrap"
    <3>1. Go(q, [s EXCEPT !.step = "invalidate", !.left = {u}]) /\ UNCHANGED jobs
      BY <1>3, <1>7, <2>3, <2>5 DEF AssignCreator
    <3>2. s.order.user # Missing BY <1>1, <1>3, <2>1, <2>5, Bootstrapping
    <3>3. Announced(q) = {u} BY <1>3, <2>1, <2>2, <2>3, <2>5, <3>2 DEF Announced
    <3>4. QED BY Zenon, <1>1, <1>2, <1>5, <2>4, <3>1, <3>3
  <2>6. CASE s.order.op # "bootstrap"
    <3>1. s.order.op = "boot" /\ q = Booter
      BY <1>1, <1>3, <2>1, <2>6, WhoRuns DEF Bootstraps
    <3>2. End(q) /\ jobs' = EndJobs(q) BY <1>3, <1>7, <2>6 DEF AssignCreator
    <3>3. u \in incidents'.overlooked
      BY <1>3, <1>7, <2>3, <2>6 DEF AssignCreator, Inv, StoreOK
    <3>4. Announced(q) = {} BY <1>3, <2>1, <2>6 DEF Announced
    <3>5. QED
      BY <1>1, <1>2, <1>3, <2>2, <2>3, <2>4, <3>1, <3>2, <3>3, <3>4
         DEF End, Go
  <2>7. QED BY <2>5, <2>6
<1>8. QED BY <1>6, <1>7 DEF Assigns

LEMMA CacheAssigns ==
  ASSUME Inv, CacheFollows, NEW q \in Actor, Assigns(q)
  PROVE  CacheFollows'
<1>1. SUFFICES ASSUME NEW v \in User PROVE Followed(v)'
  BY DEF CacheFollows, Followed
<1>2. Followed(v) BY DEF CacheFollows, Followed
<1>3. /\ UNCHANGED <<users, grants, cache>>
      /\ incidents.overlooked \subseteq incidents'.overlooked
  BY RolesAssigned
<1>4. Grown BY <1>3 DEF Grown, Known
<1>5. CASE /\ UNCHANGED assigned /\ act[q].step = "do"
           /\ act' = [act EXCEPT ![q] = Idle]
  <2>1. Announced(q) = {} BY <1>5, NoneAnnounced DEF Announcing
  <2>2. v \in Known => Rights(v)' = Rights(v) BY <1>3, <1>4, <1>5, RightsKept
  <2>3. PICK n : n = Idle OBVIOUS
  <2>4. act' = [act EXCEPT ![q] = n] BY <1>5, <2>3
  <2>5. QED BY <1>2, <1>3, <1>4, <1>5, <2>1, <2>2, <2>4, FollowKept
<1>6. ASSUME NEW u \in Known, NEW R \in SUBSET Role,
             assigned' = [assigned EXCEPT ![u] = R], Announced(q) \subseteq {u},
             \/ \E n : /\ act' = [act EXCEPT ![q] = n]
                       /\ n.step = "invalidate" /\ n.left = {u}
             \/ act' = [act EXCEPT ![q] = Idle] /\ u \in incidents'.overlooked
      PROVE  Followed(v)'
  <2>1. u \in Announced(q)' \/ u \in incidents'.overlooked
    <3>1. CASE u \in incidents'.overlooked BY <3>1
    <3>2. CASE \E n : /\ act' = [act EXCEPT ![q] = n]
                      /\ n.step = "invalidate" /\ n.left = {u}
      <4>1. act'[q].step = "invalidate" /\ act'[q].left = {u}
        BY <3>2 DEF Inv, ActOK
      <4>2. QED BY <4>1 DEF Announced
    <3>3. QED BY <1>6, <3>1, <3>2
  <2>2. CASE v = u BY <2>1, <2>2 DEF Followed
  <2>3. CASE v # u
    <3>1. assigned'[v] = assigned[v] BY <1>6, <2>3 DEF Inv, StoreOK, TypeOK
    <3>2. v \in Known => Rights(v)' = Rights(v) BY <1>3, <1>4, <3>1, RightsKept
    <3>3. v \notin Announced(q) BY <1>6, <2>3
    <3>4. PICK n : act' = [act EXCEPT ![q] = n] BY <1>6
    <3>5. QED BY <1>2, <1>3, <1>4, <3>1, <3>2, <3>3, <3>4, FollowKept
  <2>4. QED BY <2>2, <2>3
<1>7. QED BY <1>5, <1>6, RolesAssigned

(* A step on the cache leaves the rest alone.                              *)
LEMMA CachesAside ==
  ASSUME Inv, NEW q \in Actor, Caches(q)
  PROVE  /\ UNCHANGED <<users, roles, grants, assigned, told, jobs>>
         /\ incidents'.torn = incidents.torn /\ incidents'.stale = incidents.stale
         /\ incidents'.careless = incidents.careless
         /\ incidents'.orphans = incidents.orphans
         /\ act[q].step \in {"fill", "invalidate", "holders"}
         /\ \E n : act' = [act EXCEPT ![q] = n] /\ n.step \notin {"insert", "create"}
<1>1. /\ UNCHANGED <<users, roles, grants, assigned, told, jobs>>
      /\ act[q].step \in {"fill", "invalidate", "holders"} /\ act[q].step # "idle"
  BY DEF Caches, Fill, Invalidate, FindHolders
<1>2. IsRun(act[q]) BY <1>1, Going DEF Inv
<1>3. /\ incidents'.torn = incidents.torn /\ incidents'.stale = incidents.stale
      /\ incidents'.careless = incidents.careless
      /\ incidents'.orphans = incidents.orphans
  <2>1. CASE UNCHANGED incidents BY <2>1
  <2>2. CASE ~UNCHANGED incidents
    <3>1. PICK I : incidents' = [incidents EXCEPT !.overlooked = I]
      <4>1. CASE Fill(q) BY <4>1 DEF Fill
      <4>2. CASE Invalidate(q)
        <5>1. PICK u : incidents' = [incidents EXCEPT !.overlooked = @ \ {u}]
          BY <2>2, <4>2 DEF Invalidate
        <5>2. incidents' = [incidents EXCEPT !.overlooked = incidents.overlooked \ {u}]
          BY <5>1 DEF Inv, StoreOK
        <5>3. QED BY <5>2
      <4>3. QED BY <2>2, <4>1, <4>2 DEF Caches, FindHolders
    <3>2. QED BY <3>1 DEF Inv, StoreOK
  <2>3. QED BY <2>1, <2>2
<1>4. Idle.step = "idle" BY DEF Idle
<1>5. \E n : act' = [act EXCEPT ![q] = n] /\ n.step \notin {"insert", "create"}
  <2>1. CASE Fill(q)
    <3>1. PICK n : n = [act[q] EXCEPT !.step = "do", !.rights = {}, !.roles = {}]
      OBVIOUS
    <3>2. n.step = "do" BY <1>2, <3>1, StepSet
    <3>3. Go(q, n) \/ Go(q, Idle) BY <2>1, <3>1 DEF Fill, Decided
    <3>4. QED BY <1>4, <3>2, <3>3 DEF Go
  <2>2. CASE Invalidate(q)
    <3>1. CASE Go(q, Idle) BY <1>4, <3>1 DEF Go
    <3>2. CASE ~Go(q, Idle)
      <4>1. PICK u : Go(q, [act[q] EXCEPT !.left = @ \ {u}])
        BY <2>2, <3>2 DEF Invalidate, End
      <4>2. PICK n : n = [act[q] EXCEPT !.left = act[q].left \ {u}] OBVIOUS
      <4>3. n = [act[q] EXCEPT !.left = @ \ {u}] BY <1>2, <4>2 DEF IsRun
      <4>4. n.step = "invalidate"
        BY <1>2, <2>2, <4>2, SetLeft DEF Run, Invalidate
      <4>5. QED BY <4>1, <4>3, <4>4 DEF Go
    <3>3. QED BY <3>1, <3>2
  <2>3. CASE FindHolders(q)
    <3>1. PICK L : L = Holders(Home(act[q].order.caller), act[q].order.role)
      OBVIOUS
    <3>2. PICK n : n = [act[q] EXCEPT !.step = "invalidate", !.left = L] OBVIOUS
    <3>3. n.step = "invalidate" BY Zenon, <1>2, <3>2, SetStepLeft DEF Run
    <3>4. Go(q, n) BY <2>3, <3>1, <3>2 DEF FindHolders
    <3>5. QED BY <3>3, <3>4 DEF Go
  <2>4. QED BY <2>1, <2>2, <2>3 DEF Caches
<1>6. QED BY <1>1, <1>3, <1>5

(* The entry of one user is written or dropped, or holders are found.      *)
LEMMA CacheCaches ==
  ASSUME Inv, CacheFollows, NEW q \in Actor, Caches(q)
  PROVE  CacheFollows'
<1>1. SUFFICES ASSUME NEW v \in User PROVE Followed(v)'
  BY DEF CacheFollows, Followed
<1>2. Followed(v) BY DEF CacheFollows, Followed
<1>3. UNCHANGED <<users, grants, assigned>> BY CachesAside
<1>4. Grown BY <1>3 DEF Grown, Known
<1>5. v \in Known => Rights(v)' = Rights(v) BY <1>3, <1>4, RightsKept
<1>6. act[q].step # "idle" BY CachesAside
<1>7. PICK n : act' = [act EXCEPT ![q] = n] BY CachesAside
<1>8. act'[q] = n BY <1>7 DEF Inv, ActOK
<1>9. IsRun(act[q]) BY <1>6, Going DEF Inv
<1>10. CASE Fill(q)
  <2>1. PICK u, f : u = act[q].order.caller /\ f = act[q].rights OBVIOUS
  <2>2. u \in Known
    <3>1. q \in Request /\ act[q].step = "fill"
      BY <1>6, <1>10, WhoRuns, Going DEF Fill, Fits, Inv
    <3>2. QED BY <2>1, <3>1, Going DEF Fits, RequestFits, Inv
  <2>3. /\ cache' = [cache EXCEPT ![u] = f]
        /\ incidents' = [incidents EXCEPT !.overlooked =
                           IF f = Rights(u) THEN @ \ {u} ELSE @ \union {u}]
    BY <1>10, <2>1 DEF Fill
  <2>4. Announced(q) = {} BY <1>10, NoneAnnounced DEF Fill, Announcing
  <2>5. CASE v = u
    <3>1. cache'[v] = f BY <2>2, <2>3, <2>5 DEF Inv, StoreOK, TypeOK
    <3>2. f = Rights(v) \/ v \in incidents'.overlooked
      BY <2>3, <2>5 DEF Inv, StoreOK
    <3>3. QED BY <1>5, <2>2, <2>5, <3>1, <3>2 DEF Followed
  <2>6. CASE v # u
    <3>1. cache'[v] = cache[v] BY <2>2, <2>3, <2>6 DEF Inv, StoreOK, TypeOK
    <3>2. v \in incidents.overlooked => v \in incidents'.overlooked
      BY <2>3, <2>6 DEF Inv, StoreOK
    <3>3. QED
      BY <1>2, <1>3, <1>4, <1>5, <1>7, <2>4, <3>1, <3>2, FollowKept
  <2>7. QED BY <2>5, <2>6
<1>11. CASE Invalidate(q)
  <2>1. act[q].step = "invalidate" BY <1>11 DEF Invalidate
  <2>2. Announced(q) = act[q].left BY <2>1 DEF Announced
  <2>3. CASE act[q].left = {}
    <3>1. UNCHANGED <<cache, incidents>> BY <1>11, <2>3 DEF Invalidate
    <3>2. QED BY <1>2, <1>3, <1>4, <1>5, <1>7, <2>2, <2>3, <3>1, FollowKept
  <2>4. CASE act[q].left # {}
    <3>1. PICK u \in act[q].left :
            /\ cache' = [cache EXCEPT ![u] = Missing]
            /\ incidents' = [incidents EXCEPT !.overlooked = @ \ {u}]
            /\ Go(q, IF act[q].left = {u} THEN Idle
                     ELSE [act[q] EXCEPT !.left = @ \ {u}])
      BY <1>11, <2>4 DEF Invalidate
    <3>2. u \in User BY <2>1, <3>1, Going DEF Fits, Inv
    <3>3. CASE v = u
      <4>1. cache'[v] = Missing BY <3>1, <3>2, <3>3 DEF Inv, StoreOK, TypeOK
      <4>2. QED BY <4>1 DEF Followed
    <3>4. CASE v # u
      <4>1. cache'[v] = cache[v] BY <3>1, <3>2, <3>4 DEF Inv, StoreOK, TypeOK
      <4>2. v \in incidents.overlooked => v \in incidents'.overlooked
        BY <3>1, <3>4 DEF Inv, StoreOK
      <4>3. ASSUME v \in Announced(q) PROVE v \in Announced(q)'
        <5>1. act[q].left # {u} BY <2>2, <3>4, <4>3
        <5>2. Go(q, [act[q] EXCEPT !.left = @ \ {u}]) BY <3>1, <5>1
        <5>3. PICK L : L = act[q].left \ {u} OBVIOUS
        <5>4. PICK m : m = [act[q] EXCEPT !.left = L] OBVIOUS
        <5>5. m = [act[q] EXCEPT !.left = @ \ {u}] BY <1>9, <5>3, <5>4 DEF IsRun
        <5>6. m.step = "invalidate" /\ m.left = L
          BY <1>9, <2>1, <5>4, SetLeft DEF Run
        <5>7. act'[q] = m BY <5>2, <5>5 DEF Go, Inv, ActOK
        <5>8. v \in L BY <2>2, <3>4, <4>3, <5>3
        <5>9. QED BY <5>6, <5>7, <5>8 DEF Announced
      <4>4. QED
        BY <1>2, <1>3, <1>4, <1>5, <1>7, <4>1, <4>2, <4>3, FollowKept
    <3>5. QED BY <3>3, <3>4
  <2>5. QED BY <2>3, <2>4
<1>12. CASE FindHolders(q)
  <2>1. act[q].step = "holders" /\ UNCHANGED <<cache, incidents>>
    BY <1>12 DEF FindHolders
  <2>2. act[q].order.op = "permit" BY <2>1, Going DEF Fits, Inv
  <2>3. PICK L : L = Holders(Home(act[q].order.caller), act[q].order.role)
    OBVIOUS
  <2>4. Announced(q) = L BY <2>1, <2>2, <2>3 DEF Announced
  <2>5. PICK m : m = [act[q] EXCEPT !.step = "invalidate", !.left = L] OBVIOUS
  <2>6. m.step = "invalidate" /\ m.left = L BY Zenon, <1>9, <2>5, SetStepLeft DEF Run
  <2>7. act'[q] = m BY <1>12, <2>3, <2>5 DEF FindHolders, Go, Inv, ActOK
  <2>8. Announced(q)' = L BY <2>6, <2>7 DEF Announced
  <2>9. QED BY <1>2, <1>3, <1>4, <1>5, <1>7, <2>1, <2>4, <2>8, FollowKept
<1>13. QED BY <1>10, <1>11, <1>12 DEF Caches

LEMMA CacheTrouble ==
  ASSUME Inv, CacheFollows,
         \/ \E u \in User : Expire(u)
         \/ \E a \in Actor : Fail(a)
         \/ Crash
         \/ UNCHANGED vars
  PROVE  CacheFollows'
<1>1. SUFFICES ASSUME NEW v \in User PROVE Followed(v)'
  BY DEF CacheFollows, Followed
<1>2. Followed(v) BY DEF CacheFollows, Followed
<1>3. UNCHANGED <<users, grants, assigned>> BY DEF Expire, Fail, Crash, vars
<1>4. Grown BY <1>3 DEF Grown, Known
<1>5. v \in Known => Rights(v)' = Rights(v) BY <1>3, <1>4, RightsKept
<1>6. ASSUME NEW a \in Actor, act'[a] = act[a], v \in Announced(a)
      PROVE  v \in Announced(a)'
  BY <1>3, <1>4, <1>6, AnnouncedKept
<1>7. ASSUME NEW u \in User, Expire(u) PROVE Followed(v)'
  <2>1. UNCHANGED act /\ cache' = [cache EXCEPT ![u] = Missing]
    BY <1>7 DEF Expire
  <2>2. CASE v = u
    <3>1. cache'[v] = Missing BY <2>1, <2>2 DEF Inv, StoreOK, TypeOK
    <3>2. QED BY <3>1 DEF Followed
  <2>3. CASE v # u
    <3>1. cache'[v] = cache[v] BY <2>1, <2>3 DEF Inv, StoreOK, TypeOK
    <3>2. v \in incidents.overlooked => v \in incidents'.overlooked
      BY <1>7, <2>3 DEF Expire, Inv, StoreOK
    <3>3. \A a \in Actor : v \in Announced(a) => v \in Announced(a)'
      BY <1>6, <2>1
    <3>4. cache[v] # Missing => v \in Known BY DEF Inv, StoreOK
    <3>5. QED BY <1>2, <1>5, <3>1, <3>2, <3>3, <3>4 DEF Followed
  <2>4. QED BY <2>2, <2>3
<1>8. ASSUME NEW a \in Actor, Fail(a) PROVE Followed(v)'
  <2>1. act' = [act EXCEPT ![a] = Idle] BY <1>8 DEF Fail, End, Go
  <2>2. PICK I, L : I = Undone({a}) /\ L = Lost(a) OBVIOUS
  <2>3. incidents' = [I EXCEPT !.orphans = @ \union L] /\ UNCHANGED cache
    BY <1>8, <2>2 DEF Fail
  <2>4. I.overlooked = incidents.overlooked \union UNION {Announced(b) : b \in {a}}
    BY <2>2, UndoneShape
  <2>5. I = [overlooked |-> I.overlooked, torn |-> I.torn, stale |-> I.stale,
             careless |-> I.careless, orphans |-> I.orphans]
    BY <2>2, UndoneShape
  <2>6. incidents'.overlooked = I.overlooked BY <2>3, <2>5
  <2>7. /\ v \in incidents.overlooked => v \in incidents'.overlooked
        /\ v \in Announced(a) => v \in incidents'.overlooked
    BY <2>4, <2>6
  <2>8. PICK n : n = Idle OBVIOUS
  <2>9. act' = [act EXCEPT ![a] = n] BY <2>1, <2>8
  <2>10. QED BY <1>2, <1>3, <1>4, <1>5, <2>3, <2>7, <2>9, FollowKept
<1>9. CASE Crash
  <2>1. incidents' = Undone(Actor) /\ cache'[v] \in {cache[v], Missing}
    BY <1>9 DEF Crash
  <2>2. PICK I : I = Undone(Actor) OBVIOUS
  <2>3. I.overlooked = incidents.overlooked \union UNION {Announced(b) : b \in Actor}
    BY <2>2, UndoneShape
  <2>4. \A a \in Actor : v \in Announced(a) => v \in incidents'.overlooked
    BY <2>1, <2>2, <2>3
  <2>5. v \in incidents.overlooked => v \in incidents'.overlooked
    BY <2>1, <2>2, <2>3
  <2>6. cache[v] # Missing => v \in Known BY DEF Inv, StoreOK
  <2>7. QED BY <1>2, <1>5, <2>1, <2>4, <2>5, <2>6 DEF Followed
<1>10. CASE UNCHANGED vars
  <2>1. UNCHANGED <<act, cache, incidents>> BY <1>10 DEF vars
  <2>2. \A a \in Actor : v \in Announced(a) => v \in Announced(a)'
    BY <1>6, <2>1
  <2>3. cache[v] # Missing => v \in Known BY DEF Inv, StoreOK
  <2>4. QED BY <1>2, <1>5, <2>1, <2>2, <2>3 DEF Followed
<1>11. QED BY <1>7, <1>8, <1>9, <1>10

LEMMA CacheNext ==
  ASSUME Inv, CacheFollows, Sorted
  PROVE  CacheFollows'
BY CachePlain, CachePermits, CacheAssigns, CacheCaches, CacheTrouble DEF Sorted

(* An entry of the cache holds the rights its user has, or somebody is     *)
(* still going to drop it, or it is one that the code overlooks.           *)
THEOREM CacheStaysTrue ==
  (Spec => []CacheFollows) /\ (PeopleSpec => []CacheFollows)
<1>1. Init => CacheFollows BY DEF Init, CacheFollows
<1>2. PeopleInit => Init BY DEF PeopleInit
<1>3. Init => Inv BY InitInv
<1>4. PeopleInit => PeopleInv BY PeopleInitInv
<1>5. Inv /\ CacheFollows /\ [Next]_vars => (Inv /\ CacheFollows)'
  BY NextInv, NextSorts, CacheNext
<1>6. PeopleInv /\ CacheFollows /\ [PeopleNext]_<<vars, people>>
        => (PeopleInv /\ CacheFollows)'
  BY PeopleNextInv, PeopleSorts, CacheNext DEF PeopleInv
<1>7. Spec => []CacheFollows BY <1>1, <1>3, <1>5, PTL DEF Spec
<1>8. PeopleSpec => []CacheFollows BY <1>1, <1>2, <1>4, <1>6, PTL DEF PeopleSpec
<1>9. QED BY <1>7, <1>8

(***************************************************************************)
(* Users have what was asked for last.                                     *)
(***************************************************************************)

(* The steps that set permissions leave users and jobs alone.              *)
LEMMA PermitsAside ==
  ASSUME Inv, NEW q \in Actor, Permits(q)
  PROVE  /\ UNCHANGED <<users, assigned, cache, jobs>>
         /\ told'.users = told.users
         /\ incidents'.stale = incidents.stale
         /\ incidents'.careless = incidents.careless
         /\ incidents'.orphans = incidents.orphans
         /\ act[q].step \in {"do", "role", "insert"}
         /\ \E n : act' = [act EXCEPT ![q] = n] /\ n.step # "create"
<1>1. /\ UNCHANGED <<users, assigned, cache, jobs>>
      /\ act[q].step \in {"do", "role", "insert"}
  BY Zenon DEF Permits, EmptyRole, FillRole, StoreBaseRole, FillBaseRole, At
<1>2. UNCHANGED told \/ \E c, r, P : told' = Tell(c, r, P)
  BY Zenon DEF Permits, EmptyRole, FillRole, StoreBaseRole, FillBaseRole
<1>3. told'.users = told.users BY <1>2 DEF Tell, Inv, StoreOK
<1>4. \/ UNCHANGED incidents
      \/ \E T : incidents' = [incidents EXCEPT !.torn = T]
      \/ \E T, L : incidents' = [[incidents EXCEPT !.torn = T] EXCEPT
                                   !.overlooked = @ \union L]
  <2>1. CASE q \in Request /\ EmptyRole(q) BY Zenon, <2>1 DEF EmptyRole, Untorn
  <2>2. CASE q \in Request /\ FillRole(q) BY Zenon, <2>2 DEF FillRole, Torn
  <2>3. CASE StoreBaseRole(q) BY Zenon, <2>3 DEF StoreBaseRole, Untorn
  <2>4. CASE FillBaseRole(q) BY Zenon, <2>4 DEF FillBaseRole, Torn
  <2>5. QED BY Zenon, <2>1, <2>2, <2>3, <2>4 DEF Permits
<1>5. /\ incidents'.stale = incidents.stale
      /\ incidents'.careless = incidents.careless
      /\ incidents'.orphans = incidents.orphans
  <2>1. ASSUME NEW T
        PROVE  [incidents EXCEPT !.torn = T] =
                 [overlooked |-> incidents.overlooked, torn |-> T,
                  stale |-> incidents.stale, careless |-> incidents.careless,
                  orphans |-> incidents.orphans]
    BY DEF Inv, StoreOK
  <2>2. CASE \E T : incidents' = [incidents EXCEPT !.torn = T] BY <2>1, <2>2
  <2>3. CASE \E T, L : incidents' = [[incidents EXCEPT !.torn = T] EXCEPT
                                       !.overlooked = @ \union L]
    <3>1. PICK T, L : incidents' = [[incidents EXCEPT !.torn = T] EXCEPT
                                      !.overlooked = @ \union L]
      BY Zenon, <2>3
    <3>2. PICK I : I = [incidents EXCEPT !.torn = T] OBVIOUS
    <3>3. incidents' = [I EXCEPT !.overlooked = @ \union L] BY <3>1, <3>2
    <3>4. QED BY <2>1, <3>2, <3>3
  <2>4. QED BY Zenon, <1>4, <2>2, <2>3
<1>6. \E n : act' = [act EXCEPT ![q] = n] /\ n.step # "create"
  <2>1. CASE q \in Request /\ EmptyRole(q)
    <3>1. CASE act' = [act EXCEPT ![q] = Idle]
      <4>1. PICK n : n = Idle OBVIOUS
      <4>2. n.step = "idle" BY <4>1 DEF Idle
      <4>3. act' = [act EXCEPT ![q] = n] BY <3>1, <4>1
      <4>4. QED BY <4>2, <4>3
    <3>2. CASE act' # [act EXCEPT ![q] = Idle] BY <2>1, <3>2, RoleEmptied
    <3>3. QED BY <3>1, <3>2
  <2>2. CASE q \in Request /\ FillRole(q) BY <2>2, RoleFilled
  <2>3. CASE StoreBaseRole(q) \/ FillBaseRole(q) BY <2>3, BaseRoleSet
  <2>4. QED BY <2>1, <2>2, <2>3 DEF Permits
<1>7. QED BY Zenon, <1>1, <1>3, <1>5, <1>6

(* All steps but those of Writes leave users, and what is remembered of    *)
(* them, as they were.                                                     *)
LEMMA NobodyStored ==
  ASSUME Inv, Sorted, ~\E q \in Actor : Writes(q)
  PROVE  /\ UNCHANGED users /\ told'.users = told.users
         /\ incidents'.stale = incidents.stale
         /\ incidents'.careless = incidents.careless
         /\ incidents.orphans \subseteq incidents'.orphans
<1>1. CASE \E q \in Actor : Plain(q) BY <1>1 DEF Plain
<1>2. CASE \E q \in Actor : Permits(q) BY <1>2, PermitsAside
<1>3. CASE \E q \in Actor : Assigns(q) BY <1>3, RolesAssigned
<1>4. CASE \E q \in Actor : Caches(q) BY <1>4, CachesAside
<1>5. CASE \E u \in User : Expire(u) BY <1>5 DEF Expire, Inv, StoreOK
<1>6. CASE \E a \in Actor : Fail(a)
  <2>1. PICK a \in Actor : Fail(a) BY <1>6
  <2>2. PICK I, L : I = Undone({a}) /\ L = Lost(a) OBVIOUS
  <2>3. incidents' = [I EXCEPT !.orphans = @ \union L] BY <2>1, <2>2 DEF Fail
  <2>4. /\ I = [overlooked |-> I.overlooked, torn |-> I.torn, stale |-> I.stale,
                careless |-> I.careless, orphans |-> I.orphans]
        /\ I.stale = incidents.stale /\ I.careless = incidents.careless
        /\ incidents.orphans \subseteq I.orphans
    BY <2>2, UndoneShape
  <2>5. UNCHANGED <<users, told>> BY <2>1 DEF Fail
  <2>6. QED BY <2>3, <2>4, <2>5
<1>7. CASE Crash
  <2>1. PICK I : I = Undone(Actor) OBVIOUS
  <2>2. /\ I.stale = incidents.stale /\ I.careless = incidents.careless
        /\ incidents.orphans \subseteq I.orphans
    BY <2>1, UndoneShape
  <2>3. incidents' = I /\ UNCHANGED <<users, told>> BY <1>7, <2>1 DEF Crash
  <2>4. QED BY <2>2, <2>3
<1>8. CASE UNCHANGED vars BY <1>8 DEF vars
<1>9. QED BY <1>1, <1>2, <1>3, <1>4, <1>5, <1>6, <1>7, <1>8 DEF Sorted

LEMMA WordNext ==
  ASSUME Inv, LastWordKept, Sorted
  PROVE  LastWordKept'
<1>1. CASE ~\E q \in Actor : Writes(q)
  <2>1. /\ UNCHANGED users /\ told'.users = told.users
        /\ incidents'.stale = incidents.stale
    BY <1>1, NobodyStored
  <2>2. QED BY <2>1 DEF LastWordKept, Known
<1>2. CASE \E q \in Actor : Writes(q)
  <2>1. PICK q \in Actor : Writes(q) BY <1>2
  <2>2. incidents.stale \subseteq incidents'.stale BY <2>1, WritesAside DEF Aside
  <2>3. \E u, d, t :
        /\ Stored(u, d, t)
        /\ d = t \/ u \in incidents'.stale
    <3>1. CASE q \in Request /\ (Upsert(q) \/ SetPassword(q))
      <4>1. PICK u \in Known, d \in UserDoc, t \in UserDoc :
              /\ Stored(u, d, t)
              /\ users[u] = told.users[u] => d = t \/ u \in incidents'.stale
        BY <3>1, Rewriting
      <4>2. users[u] = told.users[u] \/ u \in incidents'.stale
        BY <2>2 DEF LastWordKept
      <4>3. QED BY <4>1, <4>2 DEF Known
    <3>2. CASE \/ q \in Request /\ CreateUser(q)
               \/ q = Joiner /\ JoinCreate(q)
               \/ q = Booter /\ CreateFounder(q)
      BY <3>2, Making DEF Free
    <3>3. QED BY <2>1, <3>1, <3>2 DEF Writes
  <2>4. PICK u, d, t :
        /\ Stored(u, d, t)
        /\ d = t \/ u \in incidents'.stale
    BY <2>3
  <2>5. /\ users' = [users EXCEPT ![u] = d]
        /\ told'.users = [told.users EXCEPT ![u] = t]
    <3>1. PICK W : W = [told.users EXCEPT ![u] = t] OBVIOUS
    <3>2. told' = [told EXCEPT !.users = W] BY <2>4, <3>1 DEF Stored
    <3>3. told'.users = W BY <3>2 DEF Inv, StoreOK
    <3>4. QED BY <2>4, <3>1, <3>3 DEF Stored
  <2>6. ASSUME NEW v \in Known'
        PROVE  users'[v] = told'.users[v] \/ v \in incidents'.stale
    <3>1. CASE v = u BY <2>4, <2>5, <3>1 DEF Stored, Inv, StoreOK, TypeOK
    <3>2. CASE v # u
      <4>1. v \in Known BY <2>5, <3>2 DEF Known, Inv, StoreOK, TypeOK
      <4>2. users'[v] = users[v] /\ told'.users[v] = told.users[v]
        BY <2>5, <3>2
      <4>3. QED BY <2>2, <4>1, <4>2 DEF LastWordKept
    <3>3. QED BY <3>1, <3>2
  <2>7. QED BY <2>6 DEF LastWordKept
<1>3. QED BY <1>1, <1>2

(* A user has what was asked for last, unless a whole document was written *)
(* back over a change it had not read.                                     *)
THEOREM LastWordStays ==
  (Spec => []LastWordKept) /\ (PeopleSpec => []LastWordKept)
<1>1. Init => LastWordKept BY DEF Init, LastWordKept
<1>2. PeopleInit => Init BY DEF PeopleInit
<1>3. Init => Inv BY InitInv
<1>4. PeopleInit => PeopleInv BY PeopleInitInv
<1>5. Inv /\ LastWordKept /\ [Next]_vars => (Inv /\ LastWordKept)'
  BY NextInv, NextSorts, WordNext
<1>6. PeopleInv /\ LastWordKept /\ [PeopleNext]_<<vars, people>>
        => (PeopleInv /\ LastWordKept)'
  BY PeopleNextInv, PeopleSorts, WordNext DEF PeopleInv
<1>7. Spec => []LastWordKept BY <1>1, <1>3, <1>5, PTL DEF Spec
<1>8. PeopleSpec => []LastWordKept BY <1>1, <1>2, <1>4, <1>6, PTL DEF PeopleSpec
<1>9. QED BY <1>7, <1>8

(***************************************************************************)
(* Roles have the permissions last given. A role that is being replaced is *)
(* empty, but when two replacements of it have met.                        *)
(***************************************************************************)
GrantAt(c, r) ==
  /\ grants[c][r] # told.grants[c][r] =>
       \/ <<c, r>> \in incidents.torn
       \/ \E a \in Actor : Replacing(a) = <<c, r>>
  /\ \A a \in Actor : Replacing(a) = <<c, r>> =>
       grants[c][r] = {} \/ <<c, r>> \in incidents.torn
GrantInv == \A c \in Church, r \in Role : GrantAt(c, r)

LEMMA ReplacingKept ==
  ASSUME Inv, NEW b \in Actor, act'[b] = act[b], Grown
  PROVE  Replacing(b)' = Replacing(b)
<1> DEFINE o == act[b].order
<1>1. CASE act[b].step # "insert" BY <1>1 DEF Replacing
<1>2. CASE act[b].step = "insert" /\ o.op = "permit"
  <2>1. act[b].step # "idle" BY <1>2
  <2>2. b \in Request BY <1>2, <2>1, WhoRuns
  <2>3. PICK x : x = o.caller OBVIOUS
  <2>4. x \in Known BY <1>2, <2>1, <2>2, <2>3, WhoRuns DEF RequestFits, Carrying
  <2>5. Home(x)' = Home(x) BY <2>4 DEF Grown, Home
  <2>6. act'[b].order.caller = x BY <2>3
  <2>7. PICK p : p = <<Home(x), o.role>> OBVIOUS
  <2>8. Replacing(b) = p BY <1>2, <2>3, <2>7 DEF Replacing
  <2>9. Replacing(b)' = p BY <1>2, <2>5, <2>6, <2>7 DEF Replacing
  <2>10. QED BY <2>8, <2>9
<1>3. CASE act[b].step = "insert" /\ o.op # "permit" BY <1>3 DEF Replacing
<1>4. QED BY <1>1, <1>2, <1>3

LEMMA GrantKept ==
  ASSUME NEW c \in Church, NEW r \in Role, GrantAt(c, r),
         grants'[c][r] = grants[c][r], told'.grants[c][r] = told.grants[c][r],
         <<c, r>> \in incidents.torn => <<c, r>> \in incidents'.torn,
         \A a \in Actor :
           \/ Replacing(a)' = <<c, r>> <=> Replacing(a) = <<c, r>>
           \/ <<c, r>> \in incidents'.torn
  PROVE  GrantAt(c, r)'
BY DEF GrantAt

(* One actor moves, and replaces nothing before or after.                  *)
LEMMA GrantsElsewhere ==
  ASSUME Inv, GrantInv, NEW q \in Actor, NEW n, act' = [act EXCEPT ![q] = n],
         act[q].step # "insert", n.step # "insert", Grown, UNCHANGED grants,
         told'.grants = told.grants, incidents'.torn = incidents.torn
  PROVE  GrantInv'
<1>1. SUFFICES ASSUME NEW c \in Church, NEW r \in Role PROVE GrantAt(c, r)'
  BY DEF GrantInv
<1>2. GrantAt(c, r) BY DEF GrantInv
<1>3. Replacing(q) = Missing /\ Replacing(q)' = Missing
  <2>1. act'[q] = n BY DEF Inv, ActOK
  <2>2. QED BY <2>1 DEF Replacing
<1>4. ASSUME NEW a \in Actor PROVE Replacing(a)' = Replacing(a)
  <2>1. CASE a = q BY <1>3, <2>1
  <2>2. CASE a # q
    <3>1. act'[a] = act[a] BY <2>2 DEF Inv, ActOK
    <3>2. QED BY <3>1, ReplacingKept
  <2>3. QED BY <2>1, <2>2
<1>5. QED BY <1>2, <1>4, GrantKept

LEMMA GrantsEmptied ==
  ASSUME Inv, GrantInv, NEW q \in Actor, NEW n, act' = [act EXCEPT ![q] = n],
         Grown, NEW c \in Church, NEW r \in Role, Replacing(q) = Missing,
         grants' = Emptied(c, r), incidents'.torn = Untorn(q, c, r).torn,
         \/ Replacing(q)' = <<c, r>> /\ told' = told
         \/ Replacing(q)' = Missing /\ told' = Tell(c, r, {})
  PROVE  GrantInv'
<1>1. SUFFICES ASSUME NEW d \in Church, NEW s \in Role PROVE GrantAt(d, s)'
  BY DEF GrantInv
<1>2. GrantAt(d, s) BY DEF GrantInv
<1>3. CASE d = c /\ s = r
  <2>1. grants'[c][r] = {} BY DEF Emptied, Inv, StoreOK, TypeOK
  <2>2. CASE Replacing(q)' = <<c, r>> BY <1>3, <2>1, <2>2 DEF GrantAt
  <2>3. CASE told' = Tell(c, r, {})
    <3>1. told'.grants[c][r] = {} BY <2>3 DEF Tell, Inv, StoreOK
    <3>2. QED BY <1>3, <2>1, <3>1 DEF GrantAt
  <2>4. QED BY <2>2, <2>3
<1>4. CASE <<d, s>> # <<c, r>>
  <2>1. d # c \/ s # r BY <1>4
  <2>2. grants'[d][s] = grants[d][s]
    BY <2>1 DEF Emptied, Inv, StoreOK, TypeOK
  <2>3. told'.grants[d][s] = told.grants[d][s]
    BY <2>1 DEF Tell, Inv, StoreOK
  <2>4. incidents'.torn \in {incidents.torn, incidents.torn \ {<<c, r>>}}
    BY DEF Untorn, Inv, StoreOK
  <2>5. Replacing(q)' # <<d, s>> /\ Replacing(q) # <<d, s>>
    BY <1>4, MissingAssumption
  <2>6. ASSUME NEW a \in Actor
        PROVE  Replacing(a)' = <<d, s>> <=> Replacing(a) = <<d, s>>
    <3>1. CASE a = q BY <2>5, <3>1
    <3>2. CASE a # q
      <4>1. act'[a] = act[a] BY <3>2 DEF Inv, ActOK
      <4>2. Replacing(a)' = Replacing(a) BY <4>1, ReplacingKept
      <4>3. QED BY <4>2
    <3>3. QED BY <3>1, <3>2
  <2>7. <<d, s>> \in incidents.torn => <<d, s>> \in incidents'.torn
    BY <1>4, <2>4
  <2>8. QED BY <1>2, <2>2, <2>3, <2>6, <2>7, GrantKept
<1>5. QED BY <1>3, <1>4

LEMMA GrantsFilled ==
  ASSUME Inv, GrantInv, NEW q \in Actor, NEW n, act' = [act EXCEPT ![q] = n],
         Grown, NEW c \in Church, NEW r \in Role, NEW P,
         Replacing(q) = <<c, r>>, Replacing(q)' = Missing,
         grants' = Filled(c, r, P), told' = Tell(c, r, P),
         incidents'.torn = Torn(q, c, r).torn
  PROVE  GrantInv'
<1>1. SUFFICES ASSUME NEW d \in Church, NEW s \in Role PROVE GrantAt(d, s)'
  BY DEF GrantInv
<1>2. GrantAt(d, s) BY DEF GrantInv
<1>3. /\ incidents.torn \subseteq incidents'.torn
      /\ Others(q, c, r) # {} => <<c, r>> \in incidents'.torn
  BY DEF Torn, Inv, StoreOK
<1>4. ASSUME NEW a \in Actor, a # q PROVE Replacing(a)' = Replacing(a)
  <2>1. act'[a] = act[a] BY <1>4 DEF Inv, ActOK
  <2>2. QED BY <2>1, ReplacingKept
<1>5. CASE d = c /\ s = r
  <2>1. /\ grants'[c][r] = grants[c][r] \union P
        /\ told'.grants[c][r] = P
    BY DEF Filled, Tell, Inv, StoreOK, TypeOK
  <2>2. grants[c][r] = {} \/ <<c, r>> \in incidents'.torn
    BY <1>2, <1>3, <1>5 DEF GrantAt
  <2>3. ASSUME NEW a \in Actor, Replacing(a)' = <<c, r>>
        PROVE  <<c, r>> \in incidents'.torn
    <3>1. a # q BY <2>3, MissingAssumption
    <3>2. a \in Others(q, c, r) BY <1>4, <2>3, <3>1 DEF Others
    <3>3. QED BY <1>3, <3>2
  <2>4. QED BY <1>5, <2>1, <2>2, <2>3 DEF GrantAt
<1>6. CASE <<d, s>> # <<c, r>>
  <2>1. d # c \/ s # r BY <1>6
  <2>2. grants'[d][s] = grants[d][s]
    BY <2>1 DEF Filled, Inv, StoreOK, TypeOK
  <2>3. told'.grants[d][s] = told.grants[d][s]
    BY <2>1 DEF Tell, Inv, StoreOK
  <2>4. Replacing(q)' # <<d, s>> /\ Replacing(q) # <<d, s>>
    BY <1>6, MissingAssumption
  <2>5. ASSUME NEW a \in Actor
        PROVE  Replacing(a)' = <<d, s>> <=> Replacing(a) = <<d, s>>
    <3>1. CASE a = q BY <2>4, <3>1
    <3>2. CASE a # q
      <4>1. Replacing(a)' = Replacing(a) BY <1>4, <3>2
      <4>2. QED BY <4>1
    <3>3. QED BY <3>1, <3>2
  <2>6. QED BY <1>2, <1>3, <2>2, <2>3, <2>5, GrantKept
<1>7. QED BY <1>5, <1>6

LEMMA GrantPermits ==
  ASSUME Inv, GrantInv, NEW q \in Actor, Permits(q)
  PROVE  GrantInv'
<1> DEFINE s == act[q]
           o == s.order
<1>1. UNCHANGED users BY PermitsAside
<1>2. Grown BY <1>1 DEF Grown, Known
<1>3. CASE /\ q \in Request /\ o.op = "permit"
           /\ o.caller \in Known
           /\ Home(o.caller) \in Church /\ o.role \in Role
           /\ EmptyRole(q) \/ FillRole(q)
  <2>1. PICK x, r, P : x = o.caller /\ r = o.role /\ P = o.permissions
    OBVIOUS
  <2>2. PICK c \in Church : c = Home(x) BY <1>3, <2>1
  <2>3. Home(x)' = c /\ r \in Role BY <1>1, <1>3, <2>1, <2>2 DEF Home
  <2>4. CASE EmptyRole(q)
    <3>1. Replacing(q) = Missing BY <1>3, <2>4, RoleEmptied DEF Replacing
    <3>2. CASE act' = [act EXCEPT ![q] = Idle] /\ UNCHANGED <<grants, told, incidents>>
      <4>1. PICK n : n = Idle OBVIOUS
      <4>2. act' = [act EXCEPT ![q] = n] /\ n.step = "idle"
        BY <3>2, <4>1 DEF Idle
      <4>3. s.step = "do" BY <1>3, <2>4, RoleEmptied
      <4>4. QED BY <1>2, <3>2, <4>2, <4>3, GrantsElsewhere
    <3>3. CASE ~(act' = [act EXCEPT ![q] = Idle] /\ UNCHANGED <<grants, told, incidents>>)
      <4>1. /\ grants' = Emptied(c, r) /\ incidents' = Untorn(q, c, r)
            /\ \E n : /\ act' = [act EXCEPT ![q] = n] /\ n.order = o
                      /\ \/ n.step = "insert" /\ told' = told
                         \/ n.step = "holders" /\ told' = Tell(c, r, {})
        BY <1>3, <2>1, <2>2, <2>4, <3>3, RoleEmptied
      <4>2. PICK n : /\ act' = [act EXCEPT ![q] = n] /\ n.order = o
                     /\ \/ n.step = "insert" /\ told' = told
                        \/ n.step = "holders" /\ told' = Tell(c, r, {})
        BY <4>1
      <4>3. act'[q] = n BY <4>2 DEF Inv, ActOK
      <4>4. n.order.op = "permit" /\ n.order.caller = x /\ n.order.role = r
        BY <1>3, <2>1, <4>2
      <4>5. n.step = "insert" => Replacing(q)' = <<c, r>>
        BY <2>3, <4>3, <4>4 DEF Replacing
      <4>6. n.step = "holders" => Replacing(q)' = Missing
        BY <4>3 DEF Replacing
      <4>7. incidents'.torn = Untorn(q, c, r).torn BY <4>1
      <4>8. \/ Replacing(q)' = <<c, r>> /\ told' = told
            \/ Replacing(q)' = Missing /\ told' = Tell(c, r, {})
        BY <4>2, <4>5, <4>6
      <4>9. QED BY <1>2, <2>3, <3>1, <4>1, <4>2, <4>7, <4>8, GrantsEmptied
    <3>4. QED BY <3>2, <3>3
  <2>5. CASE FillRole(q)
    <3>1. /\ grants' = Filled(c, r, P) /\ told' = Tell(c, r, P)
          /\ incidents' = Torn(q, c, r) /\ s.step = "insert"
          /\ \E n : act' = [act EXCEPT ![q] = n] /\ n.step = "holders"
      BY <1>3, <2>1, <2>2, <2>5, RoleFilled
    <3>2. PICK n : act' = [act EXCEPT ![q] = n] /\ n.step = "holders" BY <3>1
    <3>3. act'[q] = n BY <3>2 DEF Inv, ActOK
    <3>4. Replacing(q)' = Missing BY <3>2, <3>3 DEF Replacing
    <3>5. Replacing(q) = <<c, r>> BY <1>3, <2>1, <2>2, <3>1 DEF Replacing
    <3>6. incidents'.torn = Torn(q, c, r).torn BY <3>1
    <3>7. QED BY <1>2, <2>3, <3>1, <3>2, <3>4, <3>5, <3>6, GrantsFilled
  <2>6. QED BY <1>3, <2>4, <2>5
<1>4. CASE /\ o.op \in Bootstraps
           /\ o.church \in Church
           /\ BaseRoles[s.at] \in Role
           /\ StoreBaseRole(q) \/ FillBaseRole(q)
  <2>1. PICK c \in Church, r \in Role : c = o.church /\ r = BaseRoles[s.at]
    BY <1>4
  <2>2. PICK n : /\ act' = [act EXCEPT ![q] = n] /\ n.order = o
                 /\ \/ /\ StoreBaseRole(q) /\ n.step = "insert"
                       /\ n.at = act[q].at /\ act[q].step \in {"do", "role"}
                       /\ grants' = Emptied(c, r) /\ told' = told
                       /\ incidents'.torn = Untorn(q, c, r).torn
                    \/ /\ FillBaseRole(q) /\ n.step \in {"role", "user", "assign"}
                       /\ act[q].step = "insert"
                       /\ grants' = Filled(c, r, Base[r])
                       /\ told' = Tell(c, r, Base[r])
                       /\ incidents'.torn = Torn(q, c, r).torn
    BY <1>4, <2>1, BaseRoleSet
  <2>3. act'[q] = n BY <2>2 DEF Inv, ActOK
  <2>4. o.op # "permit" BY <1>4 DEF Bootstraps
  <2>5. CASE n.step = "insert"
    <3>1. n.order.church = c /\ BaseRoles[n.at] = r /\ n.order.op # "permit"
      BY <2>1, <2>2, <2>4, <2>5
    <3>2. Replacing(q)' = <<c, r>> BY <2>3, <2>5, <3>1 DEF Replacing
    <3>3. Replacing(q) = Missing BY <2>2, <2>5 DEF Replacing
    <3>4. /\ grants' = Emptied(c, r) /\ told' = told
          /\ incidents'.torn = Untorn(q, c, r).torn
      BY <2>2, <2>5
    <3>5. QED BY <1>2, <2>2, <3>2, <3>3, <3>4, GrantsEmptied
  <2>6. CASE n.step # "insert"
    <3>1. Replacing(q)' = Missing BY <2>3, <2>6 DEF Replacing
    <3>2. /\ grants' = Filled(c, r, Base[r]) /\ told' = Tell(c, r, Base[r])
          /\ incidents'.torn = Torn(q, c, r).torn /\ s.step = "insert"
      BY <2>2, <2>6
    <3>3. Replacing(q) = <<c, r>> BY <2>1, <2>4, <3>2 DEF Replacing
    <3>4. QED BY <1>2, <2>2, <3>1, <3>2, <3>3, GrantsFilled
  <2>7. QED BY <2>5, <2>6
<1>5. QED BY <1>3, <1>4, Permitting

(* A replacement that is cut short leaves its role torn.                   *)
LEMMA GrantTrouble ==
  ASSUME Inv, GrantInv,
         \/ \E u \in User : Expire(u)
         \/ \E a \in Actor : Fail(a)
         \/ Crash
         \/ UNCHANGED vars
  PROVE  GrantInv'
<1>1. SUFFICES ASSUME NEW c \in Church, NEW r \in Role PROVE GrantAt(c, r)'
  BY DEF GrantInv
<1>2. GrantAt(c, r) BY DEF GrantInv
<1>3. UNCHANGED <<users, grants, told>> BY DEF Expire, Fail, Crash, vars
<1>4. Grown BY <1>3 DEF Grown, Known
<1>5. CASE UNCHANGED act /\ incidents'.torn = incidents.torn
  <2>1. \A a \in Actor : Replacing(a)' = Replacing(a) BY <1>4, <1>5, ReplacingKept
  <2>2. QED BY <1>2, <1>3, <1>5, <2>1, GrantKept
<1>6. CASE \E u \in User : Expire(u)
  BY <1>5, <1>6 DEF Expire, Inv, StoreOK
<1>7. CASE UNCHANGED vars BY <1>5, <1>7 DEF vars
<1>8. ASSUME NEW S \in SUBSET Actor,
             \A a \in Actor : act'[a] = IF a \in S THEN Idle ELSE act[a],
             incidents'.torn = Undone(S).torn
      PROVE  GrantAt(c, r)'
  <2>1. incidents'.torn = incidents.torn \union
          {Replacing(a) : a \in {b \in S : Replacing(b) # Missing}}
    BY <1>8, UndoneShape
  <2>2. <<c, r>> # Missing BY MissingAssumption
  <2>3. ASSUME NEW a \in Actor
        PROVE  \/ Replacing(a)' = <<c, r>> <=> Replacing(a) = <<c, r>>
               \/ <<c, r>> \in incidents'.torn
    <3>1. CASE a \in S
      <4>1. Replacing(a)' = Missing BY <1>8, <3>1 DEF Replacing, Idle
      <4>2. Replacing(a) = <<c, r>> => <<c, r>> \in incidents'.torn
        BY <2>1, <2>2, <3>1
      <4>3. QED BY <2>2, <4>1, <4>2
    <3>2. CASE a \notin S
      <4>1. act'[a] = act[a] BY <1>8, <3>2
      <4>2. Replacing(a)' = Replacing(a) BY <1>4, <4>1, ReplacingKept
      <4>3. QED BY <4>2
    <3>3. QED BY <3>1, <3>2
  <2>4. <<c, r>> \in incidents.torn => <<c, r>> \in incidents'.torn BY <2>1
  <2>5. QED BY <1>2, <1>3, <2>3, <2>4, GrantKept
<1>9. CASE \E a \in Actor : Fail(a)
  <2>1. PICK a \in Actor : Fail(a) BY <1>9
  <2>2. PICK S, I, L : S = {a} /\ I = Undone(S) /\ L = Lost(a) OBVIOUS
  <2>3. incidents' = [I EXCEPT !.orphans = @ \union L] BY <2>1, <2>2 DEF Fail
  <2>4. I = [overlooked |-> I.overlooked, torn |-> I.torn, stale |-> I.stale,
             careless |-> I.careless, orphans |-> I.orphans]
    BY <2>2, UndoneShape
  <2>5. incidents'.torn = Undone(S).torn BY <2>2, <2>3, <2>4
  <2>6. \A b \in Actor : act'[b] = IF b \in S THEN Idle ELSE act[b]
    BY <2>1, <2>2 DEF Fail, End, Go, Inv, ActOK
  <2>7. S \in SUBSET Actor BY <2>2
  <2>8. QED BY <1>8, <2>5, <2>6, <2>7
<1>10. CASE Crash
  <2>1. PICK S : S = Actor OBVIOUS
  <2>2. incidents'.torn = Undone(S).torn BY <1>10, <2>1 DEF Crash
  <2>3. \A b \in Actor : act'[b] = IF b \in S THEN Idle ELSE act[b]
    BY <1>10, <2>1 DEF Crash
  <2>4. S \in SUBSET Actor BY <2>1
  <2>5. QED BY <1>8, <2>2, <2>3, <2>4
<1>11. QED BY <1>6, <1>7, <1>9, <1>10

LEMMA GrantNext ==
  ASSUME Inv, GrantInv, Sorted
  PROVE  GrantInv'
<1>1. ASSUME NEW q \in Actor, Plain(q) \/ Writes(q) \/ Assigns(q) \/ Caches(q)
      PROVE  GrantInv'
  <2>1. /\ Grown /\ UNCHANGED grants /\ told'.grants = told.grants
        /\ incidents'.torn = incidents.torn /\ act[q].step # "insert"
    <3>1. CASE Plain(q) BY <3>1 DEF Plain, Announcing, Grown, Known
    <3>2. CASE Writes(q) BY <3>2, WritesAside, WritesGrow DEF Aside, Announcing
    <3>3. CASE Assigns(q) BY <3>3, RolesAssigned DEF Grown, Known
    <3>4. CASE Caches(q) BY <3>4, CachesAside DEF Grown, Known
    <3>5. QED BY <1>1, <3>1, <3>2, <3>3, <3>4
  <2>2. \E n : act' = [act EXCEPT ![q] = n] /\ n.step # "insert"
    <3>1. CASE Plain(q) BY <3>1 DEF Plain
    <3>2. CASE Writes(q) BY <3>2, WritesAside DEF Aside
    <3>3. CASE Caches(q) BY <3>3, CachesAside
    <3>4. CASE Assigns(q)
      <4>1. PICK n : n = Idle OBVIOUS
      <4>2. n.step = "idle" BY <4>1 DEF Idle
      <4>3. \/ act' = [act EXCEPT ![q] = n]
            \/ \E m : act' = [act EXCEPT ![q] = m] /\ m.step = "invalidate"
        BY <3>4, <4>1, RolesAssigned
      <4>4. QED BY <4>2, <4>3
    <3>5. QED BY <1>1, <3>1, <3>2, <3>3, <3>4
  <2>3. PICK n : act' = [act EXCEPT ![q] = n] /\ n.step # "insert" BY <2>2
  <2>4. QED BY <2>1, <2>3, GrantsElsewhere
<1>2. QED BY <1>1, GrantPermits, GrantTrouble DEF Sorted

(* A role has the permissions last given to it, unless two replacements of *)
(* it met, or one is under way or was cut short.                           *)
THEOREM GrantsStayTrue ==
  (Spec => []GrantsFollow) /\ (PeopleSpec => []GrantsFollow)
<1>1. Init => GrantInv
  <2>1. ASSUME Init PROVE \A a \in Actor : Replacing(a) = Missing
    BY <2>1 DEF Init, Replacing, Idle
  <2>2. QED BY <2>1, MissingAssumption DEF Init, GrantInv, GrantAt
<1>2. PeopleInit => Init BY DEF PeopleInit
<1>3. Init => Inv BY InitInv
<1>4. PeopleInit => PeopleInv BY PeopleInitInv
<1>5. GrantInv => GrantsFollow BY Zenon DEF GrantInv, GrantAt, GrantsFollow
<1>6. Inv /\ GrantInv /\ [Next]_vars => (Inv /\ GrantInv)'
  BY NextInv, NextSorts, GrantNext
<1>7. PeopleInv /\ GrantInv /\ [PeopleNext]_<<vars, people>>
        => (PeopleInv /\ GrantInv)'
  BY PeopleNextInv, PeopleSorts, GrantNext DEF PeopleInv
<1>8. Spec => []GrantsFollow BY <1>1, <1>3, <1>5, <1>6, PTL DEF Spec
<1>9. PeopleSpec => []GrantsFollow
  BY <1>1, <1>2, <1>4, <1>5, <1>7, PTL DEF PeopleSpec
<1>10. QED BY <1>8, <1>9

(***************************************************************************)
(* One user to an address, and roles for the user of every member. The job *)
(* that makes a user has seen that nobody had the address, and nobody gets *)
(* it since but carelessly.                                                *)
(***************************************************************************)
Apart(u, v) ==
  u # v /\ users[u].email = users[v].email =>
    users[u].email \in incidents.careless \/ {u, v} \intersect incidents.stale # {}
Unseen(u) ==
  act[Joiner].step = "create" /\ users[u].email = act[Joiner].order.email =>
    users[u].email \in incidents.careless \/ u \in incidents.stale
Served(u) ==
  users[u].member /\ assigned[u] = Missing =>
    \/ u \in incidents.orphans
    \/ \E i \in DOMAIN jobs[Booter] : jobs[Booter][i].user = u
    \/ act[Joiner].step = "dispatch" /\ act[Joiner].of = u

AddressInv == \A u \in Known : Unseen(u) /\ \A v \in Known : Apart(u, v)
ServedInv == \A u \in Known : Served(u)

(* The job starts to make a user after a look at the address only.         *)
LEMMA Creating ==
  ASSUME Inv, Sorted, act'[Joiner].step = "create"
  PROVE  \/ act'[Joiner] = act[Joiner]
         \/ /\ UNCHANGED users
            /\ \A u \in Known : users[u].email # act'[Joiner].order.email
<1>1. Joiner \in Actor /\ Joiner \in Worker BY DEF Actor, Worker
<1>2. ASSUME NEW q \in Actor, NEW n, act' = [act EXCEPT ![q] = n], n.step # "create"
      PROVE  act'[Joiner] = act[Joiner]
  <2>1. CASE q = Joiner
    <3>1. act'[Joiner] = n BY <1>1, <1>2, <2>1 DEF Inv, ActOK
    <3>2. QED BY <1>2, <3>1
  <2>2. CASE q # Joiner BY <1>1, <1>2, <2>2 DEF Inv, ActOK
  <2>3. QED BY <2>1, <2>2
<1>3. CASE \E q \in Actor : Plain(q)
  <2>1. PICK q \in Actor : Plain(q) BY <1>3
  <2>2. PICK n : act' = [act EXCEPT ![q] = n] /\ (n.step = "create" => JoinCheck(q))
    BY <2>1 DEF Plain
  <2>3. CASE JoinCheck(q) /\ act'[q] # Idle
    <3>1. act[q].step = "do" /\ act[q].order.op = "join" BY <2>3 DEF JoinCheck, At
    <3>2. q = Joiner /\ IsRun(act[q]) BY <3>1, WhoRuns, Going DEF Inv
    <3>3. /\ act' = [act EXCEPT ![q] = [act[q] EXCEPT !.step = "create"]]
          /\ WithEmail(act[q].order.email) = {}
      BY <1>1, <2>3, <3>2 DEF JoinCheck, Step, Go, End, Inv, ActOK
    <3>4. PICK m : m = [act[q] EXCEPT !.step = "create"] OBVIOUS
    <3>5. m.order = act[q].order BY <3>2, <3>4, SetStep DEF Run
    <3>6. act'[Joiner].order = act[q].order
      BY <1>1, <3>2, <3>3, <3>4, <3>5 DEF Inv, ActOK
    <3>7. UNCHANGED users BY <2>1 DEF Plain
    <3>8. QED BY <3>3, <3>6, <3>7 DEF WithEmail
  <2>4. CASE JoinCheck(q) /\ act'[q] = Idle
    <3>1. act'[q].step = "idle" BY <2>4 DEF Idle
    <3>2. q # Joiner BY <3>1
    <3>3. QED BY <1>1, <2>2, <3>2 DEF Inv, ActOK
  <2>5. CASE n.step # "create" BY <1>2, <2>2, <2>5
  <2>6. QED BY <2>2, <2>3, <2>4, <2>5
<1>4. CASE \E q \in Actor : Writes(q) BY <1>2, <1>4, WritesAside DEF Aside
<1>5. CASE \E q \in Actor : Permits(q) BY <1>2, <1>5, PermitsAside
<1>6. CASE \E q \in Actor : Caches(q) BY <1>2, <1>6, CachesAside
<1>7. CASE \E q \in Actor : act' = [act EXCEPT ![q] = Idle]
  <2>1. PICK n : n = Idle OBVIOUS
  <2>2. n.step = "idle" BY <2>1 DEF Idle
  <2>3. QED BY <1>2, <1>7, <2>1, <2>2
<1>8. CASE \E q \in Actor : Assigns(q)
  <2>1. PICK q \in Actor : Assigns(q) BY <1>8
  <2>2. \/ act' = [act EXCEPT ![q] = Idle]
        \/ \E n : act' = [act EXCEPT ![q] = n] /\ n.step = "invalidate"
    BY <2>1, RolesAssigned
  <2>3. QED BY <1>2, <1>7, <2>2
<1>9. CASE (\E u \in User : Expire(u)) \/ UNCHANGED vars BY <1>9 DEF Expire, vars
<1>10. CASE \E a \in Actor : Fail(a) BY <1>7, <1>10 DEF Fail, End, Go
<1>11. CASE Crash
  <2>1. act'[Joiner].step = "idle" BY <1>1, <1>11 DEF Crash, Idle
  <2>2. QED BY <2>1
<1>12. QED BY <1>3, <1>4, <1>5, <1>6, <1>8, <1>9, <1>10, <1>11 DEF Sorted

LEMMA AddressNext ==
  ASSUME Inv, AddressInv, Sorted
  PROVE  AddressInv'
<1>1. CASE ~\E q \in Actor : Writes(q)
  <2>1. /\ UNCHANGED users /\ incidents'.stale = incidents.stale
        /\ incidents'.careless = incidents.careless
    BY <1>1, NobodyStored
  <2>2. Known' = Known BY <2>1 DEF Known
  <2>3. ASSUME NEW u \in Known PROVE Unseen(u)'
    BY <2>1, <2>3, Creating DEF Unseen, AddressInv
  <2>4. ASSUME NEW u \in Known, NEW v \in Known PROVE Apart(u, v)'
    BY <2>1, <2>4 DEF Apart, AddressInv
  <2>5. QED BY <2>2, <2>3, <2>4 DEF AddressInv
<1>2. CASE \E q \in Actor : Writes(q)
  <2>1. PICK q \in Actor : Writes(q) BY <1>2
  <2>2. /\ incidents.stale \subseteq incidents'.stale
        /\ incidents.careless \subseteq incidents'.careless
    BY <2>1, WritesAside DEF Aside
  <2>3. PICK n : act' = [act EXCEPT ![q] = n] /\ n.step # "create"
    BY <2>1, WritesAside DEF Aside
  <2>4. Joiner \in Actor BY DEF Actor, Worker
  <2>5. act'[Joiner].step = "create" => act'[Joiner] = act[Joiner]
    BY <2>3, <2>4 DEF Inv, ActOK
  <2>6. \E u, d, t :
          /\ Stored(u, d, t)
          /\ \/ u \in Known /\ d.email = users[u].email
             \/ d.email \in incidents'.careless
             \/ u \in incidents'.stale
             \/ /\ u \notin Known /\ act'[Joiner].step = "dispatch"
                /\ act[Joiner].step = "create"
                /\ d.email = act[Joiner].order.email
    <3>1. CASE q \in Request /\ (Upsert(q) \/ SetPassword(q))
      BY <3>1, Rewriting
    <3>2. CASE \/ q \in Request /\ CreateUser(q)
               \/ q = Joiner /\ JoinCreate(q)
               \/ q = Booter /\ CreateFounder(q)
      <4>1. PICK u \in Free, d \in UserDoc :
              /\ Stored(u, d, d)
              /\ q # Joiner => d.email \in incidents'.careless
              /\ q = Joiner =>
                   /\ act[Joiner].step = "create" /\ d.email = act[Joiner].order.email
                   /\ act'[Joiner].step = "dispatch"
        BY <3>2, Making
      <4>2. u \notin Known BY <4>1 DEF Free
      <4>3. QED BY <4>1, <4>2
    <3>3. QED BY <2>1, <3>1, <3>2 DEF Writes
  <2>7. PICK u, d, t :
          /\ Stored(u, d, t)
          /\ \/ u \in Known /\ d.email = users[u].email
             \/ d.email \in incidents'.careless
             \/ u \in incidents'.stale
             \/ /\ u \notin Known /\ act'[Joiner].step = "dispatch"
                /\ act[Joiner].step = "create"
                /\ d.email = act[Joiner].order.email
    BY <2>6
  <2>8. /\ users'[u] = d
        /\ \A v \in Known' : v # u => v \in Known /\ users'[v] = users[v]
    BY <2>7 DEF Stored, Known, Inv, StoreOK, TypeOK
  <2>9. ASSUME NEW v \in Known' PROVE Unseen(v)'
    <3>1. SUFFICES ASSUME act'[Joiner].step = "create",
                          users'[v].email = act'[Joiner].order.email
                   PROVE  \/ users'[v].email \in incidents'.careless
                          \/ v \in incidents'.stale
      BY DEF Unseen
    <3>2. act'[Joiner] = act[Joiner] BY <2>5, <3>1
    <3>3. CASE v # u
      <4>1. v \in Known /\ users'[v] = users[v] BY <2>8, <2>9, <3>3
      <4>2. QED BY <2>2, <3>1, <3>2, <4>1 DEF AddressInv, Unseen
    <3>4. CASE v = u /\ u \in Known /\ d.email = users[u].email
      BY <2>2, <2>8, <3>1, <3>2, <3>4 DEF AddressInv, Unseen
    <3>5. CASE v = u /\ (d.email \in incidents'.careless \/ u \in incidents'.stale)
      BY <2>8, <3>5
    <3>6. QED BY <2>7, <3>1, <3>3, <3>4, <3>5
  <2>10. ASSUME NEW v \in Known', v # u, users'[v].email = d.email
         PROVE  d.email \in incidents'.careless \/ {u, v} \intersect incidents'.stale # {}
    <3>1. v \in Known /\ users'[v] = users[v] BY <2>8, <2>10
    <3>2. CASE u \in Known /\ d.email = users[u].email
      <4>1. Apart(u, v) BY <3>1, <3>2 DEF AddressInv
      <4>2. QED BY <2>2, <2>10, <3>1, <3>2, <4>1 DEF Apart
    <3>3. CASE d.email \in incidents'.careless \/ u \in incidents'.stale BY <3>3
    <3>4. CASE act[Joiner].step = "create" /\ d.email = act[Joiner].order.email
      <4>1. Unseen(v) BY <3>1 DEF AddressInv
      <4>2. QED BY <2>2, <2>10, <3>1, <3>4, <4>1 DEF Unseen
    <3>5. QED BY <2>7, <3>2, <3>3, <3>4
  <2>11. ASSUME NEW v \in Known', NEW w \in Known' PROVE Apart(v, w)'
    <3>1. CASE v # u /\ w # u
      <4>1. v \in Known /\ w \in Known /\ users'[v] = users[v] /\ users'[w] = users[w]
        BY <2>8, <2>11, <3>1
      <4>2. Apart(v, w) BY <4>1 DEF AddressInv
      <4>3. QED BY <2>2, <4>1, <4>2 DEF Apart
    <3>2. CASE v = u BY <2>8, <2>10, <2>11, <3>2 DEF Apart
    <3>3. CASE w = u
      <4>1. SUFFICES ASSUME v # w, users'[v].email = users'[w].email
                     PROVE  \/ users'[v].email \in incidents'.careless
                            \/ {v, w} \intersect incidents'.stale # {}
        BY DEF Apart
      <4>2. users'[v].email = d.email /\ v # u BY <2>8, <3>3, <4>1
      <4>3. {u, v} = {v, w} BY <3>3
      <4>4. QED BY <2>10, <2>11, <4>2, <4>3
    <3>4. QED BY <3>1, <3>2, <3>3
  <2>12. QED BY <2>9, <2>11 DEF AddressInv
<1>3. QED BY <1>1, <1>2

LEMMA ServedKept ==
  ASSUME Inv, NEW u \in Known, Served(u), UNCHANGED users,
         assigned[u] # Missing => assigned'[u] # Missing,
         incidents.orphans \subseteq incidents'.orphans, QueueKept(Booter),
         act[Joiner].step = "dispatch" /\ act[Joiner].of = u =>
           \/ act'[Joiner] = act[Joiner]
           \/ u \in incidents'.orphans
           \/ \E i \in DOMAIN jobs'[Booter] : jobs'[Booter][i].user = u
  PROVE  Served(u)'
<1>1. ASSUME NEW i \in DOMAIN jobs[Booter], jobs[Booter][i].user = u
      PROVE  \E j \in DOMAIN jobs'[Booter] : jobs'[Booter][j].user = u
  <2>1. PICK j \in DOMAIN jobs'[Booter] : jobs'[Booter][j] = jobs[Booter][i]
    BY <1>1 DEF QueueKept
  <2>2. QED BY <1>1, <2>1
<1>2. QED BY <1>1 DEF Served

(* The job that made a user is queued for its roles, or lost.              *)
LEMMA ServedDispatch ==
  ASSUME Inv, JoinDispatch(Joiner)
  PROVE  LET u == act[Joiner].of IN
         \/ u \in incidents'.orphans
         \/ \E i \in DOMAIN jobs'[Booter] : jobs'[Booter][i].user = u
<1>1. PICK o, u : o = act[Joiner].order /\ u = act[Joiner].of OBVIOUS
<1>2. PICK E, m : E = EndJobs(Joiner) /\ m = MemberJob(o, u) OBVIOUS
<1>3. Booter \in Worker /\ Booter # Joiner BY DEF Worker, Booter, Joiner
<1>4. E[Booter] = jobs[Booter] /\ E = [w \in Worker |-> E[w]]
  BY <1>2, <1>3 DEF EndJobs, Inv, JobsOK
<1>5. jobs[Booter] \in Seq(BootJobs) BY DEF Inv, JobsOK
<1>6. CASE jobs' = [E EXCEPT ![Booter] = Append(@, m)]
  <2>1. jobs'[Booter] = Append(jobs[Booter], m) BY <1>3, <1>4, <1>6
  <2>2. PICK k : k = Len(jobs[Booter]) + 1 OBVIOUS
  <2>3. k \in DOMAIN jobs'[Booter] /\ jobs'[Booter][k] = m
    BY <1>5, <2>1, <2>2
  <2>4. m.user = u BY <1>2 DEF MemberJob
  <2>5. QED BY <1>1, <2>3, <2>4
<1>7. CASE incidents' = Orphan(u)
  BY <1>1, <1>7 DEF Orphan, Inv, StoreOK
<1>8. QED BY <1>1, <1>2, <1>6, <1>7 DEF JoinDispatch

LEMMA ServedPlain ==
  ASSUME Inv, ServedInv, NEW q \in Actor, Plain(q)
  PROVE  ServedInv'
<1>1. UNCHANGED <<users, assigned>> /\ QueueKept(Booter)
      /\ incidents.orphans \subseteq incidents'.orphans
  BY DEF Plain
<1>2. Joiner \in Actor BY DEF Actor, Worker
<1>3. PICK n : act' = [act EXCEPT ![q] = n] BY DEF Plain
<1>4. ASSUME NEW u \in Known PROVE Served(u)'
  <2>1. Served(u) BY DEF ServedInv
  <2>2. act[Joiner].step = "dispatch" /\ act[Joiner].of = u =>
          \/ act'[Joiner] = act[Joiner]
          \/ u \in incidents'.orphans
          \/ \E i \in DOMAIN jobs'[Booter] : jobs'[Booter][i].user = u
    <3>1. CASE q # Joiner BY <1>2, <1>3, <3>1 DEF Inv, ActOK
    <3>2. CASE q = Joiner BY <3>2, ServedDispatch DEF Plain
    <3>3. QED BY <3>1, <3>2
  <2>3. QED BY <1>1, <2>1, <2>2, ServedKept
<1>5. Known' = Known BY <1>1 DEF Known
<1>6. QED BY <1>4, <1>5 DEF ServedInv

LEMMA ServedWrites ==
  ASSUME Inv, ServedInv, NEW q \in Actor, Writes(q)
  PROVE  ServedInv'
<1>1. /\ UNCHANGED <<assigned, jobs>> /\ incidents'.orphans = incidents.orphans
  BY WritesAside DEF Aside
<1>2. PICK n : act' = [act EXCEPT ![q] = n] BY WritesAside DEF Aside
<1>3. Joiner \in Actor BY DEF Actor, Worker
<1>4. ASSUME NEW v \in Known, users'[v].member = users[v].member PROVE Served(v)'
  <2>1. Served(v) BY DEF ServedInv
  <2>2. act[Joiner].step = "dispatch" => act'[Joiner] = act[Joiner]
    <3>1. CASE q = Joiner
      <4>1. JoinCreate(q) BY <3>1, SlotAssumption DEF Writes, Worker, Booter, Joiner
      <4>2. QED BY <3>1, <4>1 DEF JoinCreate, At
    <3>2. CASE q # Joiner BY <1>2, <1>3, <3>2 DEF Inv, ActOK
    <3>3. QED BY <3>1, <3>2
  <2>3. QED BY <1>1, <1>4, <2>1, <2>2 DEF Served
<1>5. \E u, d, t :
        /\ Stored(u, d, t)
        /\ \/ u \in Known /\ d.member = users[u].member
           \/ u \notin Known /\ d.member = FALSE
           \/ /\ u \notin Known
              /\ act'[Joiner].step = "dispatch" /\ act'[Joiner].of = u
  <2>1. CASE q \in Request /\ (Upsert(q) \/ SetPassword(q))
    BY <2>1, Rewriting
  <2>2. CASE \/ q \in Request /\ CreateUser(q)
             \/ q = Joiner /\ JoinCreate(q)
             \/ q = Booter /\ CreateFounder(q)
    <3>1. PICK u \in Free, d \in UserDoc :
            /\ Stored(u, d, d)
            /\ q # Joiner => d.member = FALSE
            /\ q = Joiner => act'[Joiner].step = "dispatch" /\ act'[Joiner].of = u
      BY <2>2, Making
    <3>2. u \notin Known BY <3>1 DEF Free
    <3>3. QED BY <3>1, <3>2
  <2>3. QED BY <2>1, <2>2 DEF Writes
<1>6. PICK u, d, t :
        /\ Stored(u, d, t)
        /\ \/ u \in Known /\ d.member = users[u].member
           \/ u \notin Known /\ d.member = FALSE
           \/ /\ u \notin Known
              /\ act'[Joiner].step = "dispatch" /\ act'[Joiner].of = u
  BY <1>5
<1>7. /\ users'[u] = d
      /\ \A v \in Known' : v # u => v \in Known /\ users'[v] = users[v]
  BY <1>6 DEF Stored, Known, Inv, StoreOK, TypeOK
<1>8. ASSUME NEW v \in Known' PROVE Served(v)'
  <2>1. CASE v # u BY <1>4, <1>7, <1>8, <2>1
  <2>2. CASE v = u /\ u \in Known BY <1>4, <1>6, <1>7, <2>2
  <2>3. CASE v = u /\ u \notin Known BY <1>6, <1>7, <2>3 DEF Served
  <2>4. QED BY <2>1, <2>2, <2>3
<1>9. QED BY <1>8 DEF ServedInv

(* The job gives the roles it was queued for.                              *)
LEMMA ServedAssigns ==
  ASSUME Inv, ServedInv, NEW q \in Actor, Assigns(q)
  PROVE  ServedInv'
<1>1. UNCHANGED users /\ incidents'.orphans = incidents.orphans
      /\ act[q].step \in {"do", "assign"}
  BY RolesAssigned
<1>2. Known' = Known BY <1>1 DEF Known
<1>3. Joiner \in Actor /\ Booter \in Worker /\ Booter \in Actor
  BY DEF Actor, Worker
<1>4. SUFFICES ASSUME NEW v \in Known PROVE Served(v)'
  BY <1>2 DEF ServedInv
<1>5. Served(v) BY DEF ServedInv
<1>6. ASSUME NEW n, act' = [act EXCEPT ![q] = n], act[Joiner].step = "dispatch"
      PROVE  act'[Joiner] = act[Joiner]
  <2>1. q # Joiner BY <1>1, <1>6
  <2>2. QED BY <1>3, <1>6, <2>1 DEF Inv, ActOK
<1>7. act[Joiner].step = "dispatch" => act'[Joiner] = act[Joiner]
  <2>1. PICK n : n = Idle OBVIOUS
  <2>2. \E m : act' = [act EXCEPT ![q] = m]
    <3>1. act' = [act EXCEPT ![q] = n] \/ \E m : act' = [act EXCEPT ![q] = m]
      BY <2>1, RolesAssigned
    <3>2. QED BY <3>1
  <2>3. QED BY <1>6, <2>2
<1>8. CASE UNCHANGED <<assigned, jobs>> BY <1>1, <1>5, <1>7, <1>8 DEF Served
<1>9. ASSUME NEW u \in Known, NEW R \in SUBSET Role,
             assigned' = [assigned EXCEPT ![u] = R],
             \/ UNCHANGED jobs
             \/ /\ q = Booter /\ act[q].order.op = "boot" /\ jobs' = EndJobs(q)
                /\ act[q].order.user \in {Missing, u}
      PROVE  Served(v)'
  <2>1. R # Missing BY MissingAssumption
  <2>2. CASE v = u
    <3>1. assigned'[v] = R BY <1>9, <2>2, KnownDoc DEF Inv, StoreOK, TypeOK
    <3>2. QED BY <2>1, <3>1 DEF Served
  <2>3. CASE v # u
    <3>1. assigned'[v] = assigned[v] BY <1>9, <2>3 DEF Inv, StoreOK, TypeOK
    <3>2. CASE UNCHANGED jobs BY <1>1, <1>5, <1>7, <3>1, <3>2 DEF Served
    <3>3. CASE /\ q = Booter /\ jobs' = EndJobs(q)
               /\ act[q].order.user \in {Missing, u}
      <4>1. act[Booter].step # "idle" BY <1>1, <3>3
      <4>2. jobs[Booter] # <<>> /\ act[Booter].order = Head(jobs[Booter])
        BY <1>3, <4>1, WorkerOrder
      <4>3. jobs'[Booter] = Tail(jobs[Booter])
        BY <1>3, <3>3 DEF EndJobs, Inv, JobsOK
      <4>4. jobs[Booter] \in Seq(BootJobs) BY DEF Inv, JobsOK
      <4>5. ASSUME NEW i \in DOMAIN jobs[Booter], jobs[Booter][i].user = v
            PROVE  \E j \in DOMAIN jobs'[Booter] : jobs'[Booter][j].user = v
        <5>1. v # Missing BY KnownDoc
        <5>2. jobs[Booter][i] # Head(jobs[Booter])
          BY <2>3, <3>3, <4>2, <4>5, <5>1
        <5>3. PICK j \in DOMAIN Tail(jobs[Booter]) :
                Tail(jobs[Booter])[j] = jobs[Booter][i]
          BY <4>2, <4>4, <5>2, TailKept
        <5>4. QED BY <4>3, <4>5, <5>3
      <4>6. QED BY <1>1, <1>5, <1>7, <3>1, <4>5 DEF Served
    <3>4. QED BY <1>9, <3>2, <3>3
  <2>4. QED BY <2>2, <2>3
<1>10. QED BY <1>8, <1>9, RolesAssigned

LEMMA ServedTrouble ==
  ASSUME Inv, ServedInv,
         \/ \E q \in Actor : Permits(q) \/ Caches(q)
         \/ \E u \in User : Expire(u)
         \/ \E a \in Actor : Fail(a)
         \/ Crash
         \/ UNCHANGED vars
  PROVE  ServedInv'
<1>1. UNCHANGED <<users, assigned>>
  BY PermitsAside, CachesAside DEF Expire, Fail, Crash, vars
<1>2. Known' = Known BY <1>1 DEF Known
<1>3. Joiner \in Actor /\ Booter \in Worker /\ Joiner # Booter
  BY DEF Actor, Worker, Joiner, Booter
<1>4. SUFFICES ASSUME NEW v \in Known PROVE Served(v)'
  BY <1>2 DEF ServedInv
<1>5. Served(v) BY DEF ServedInv
<1>6. CASE \E q \in Actor : Permits(q) \/ Caches(q)
  <2>1. PICK q \in Actor : Permits(q) \/ Caches(q) BY <1>6
  <2>2. PICK n : act' = [act EXCEPT ![q] = n] BY <2>1, PermitsAside, CachesAside
  <2>3. /\ UNCHANGED jobs /\ incidents'.orphans = incidents.orphans
        /\ act[q].step # "dispatch"
    BY <2>1, PermitsAside, CachesAside
  <2>4. act[Joiner].step = "dispatch" => act'[Joiner] = act[Joiner]
    <3>1. CASE q = Joiner BY <2>3, <3>1
    <3>2. CASE q # Joiner BY <1>3, <2>2, <3>2 DEF Inv, ActOK
    <3>3. QED BY <3>1, <3>2
  <2>5. QED BY <1>1, <1>5, <2>3, <2>4 DEF Served
<1>7. CASE \E u \in User : Expire(u)
  <2>1. UNCHANGED <<jobs, act>> /\ incidents'.orphans = incidents.orphans
    BY <1>7 DEF Expire, Inv, StoreOK
  <2>2. QED BY <1>1, <1>5, <2>1 DEF Served
<1>8. CASE \E a \in Actor : Fail(a)
  <2>1. PICK a \in Actor : Fail(a) BY <1>8
  <2>2. PICK I, L : I = Undone({a}) /\ L = Lost(a) OBVIOUS
  <2>3. incidents' = [I EXCEPT !.orphans = @ \union L] BY <2>1, <2>2 DEF Fail
  <2>4. /\ I = [overlooked |-> I.overlooked, torn |-> I.torn, stale |-> I.stale,
                careless |-> I.careless, orphans |-> I.orphans]
        /\ incidents.orphans \subseteq I.orphans
    BY <2>2, UndoneShape
  <2>5. incidents'.orphans = I.orphans \union L BY <2>3, <2>4
  <2>6. act[Joiner].step = "dispatch" => act'[Joiner] = act[Joiner]
    <3>1. act' = [act EXCEPT ![a] = Idle] /\ act[a].step # "dispatch"
      BY <2>1 DEF Fail, End, Go
    <3>2. CASE a = Joiner BY <3>1, <3>2
    <3>3. CASE a # Joiner BY <1>3, <3>1, <3>3 DEF Inv, ActOK
    <3>4. QED BY <3>2, <3>3
  <2>7. jobs' = EndJobs(a) BY <2>1 DEF Fail
  <2>8. CASE a # Booter
    <3>1. QueueKept(Booter) BY <2>7, <2>8, BooterQueue
    <3>2. QED BY <1>1, <1>5, <2>4, <2>5, <2>6, <3>1, ServedKept
  <2>9. CASE a = Booter
    <3>1. act[Booter].step # "idle" BY <1>3, <2>1, <2>9 DEF Fail, Idle, Inv, ActOK, Fits
    <3>2. jobs[Booter] # <<>> /\ act[Booter].order = Head(jobs[Booter])
      BY <1>3, <3>1, WorkerOrder DEF Actor
    <3>3. jobs'[Booter] = Tail(jobs[Booter])
      BY <1>3, <2>7, <2>9 DEF EndJobs, Inv, JobsOK
    <3>4. jobs[Booter] \in Seq(BootJobs) BY DEF Inv, JobsOK
    <3>5. ASSUME NEW i \in DOMAIN jobs[Booter], jobs[Booter][i].user = v
          PROVE  \/ v \in incidents'.orphans
                 \/ \E j \in DOMAIN jobs'[Booter] : jobs'[Booter][j].user = v
      <4>1. v # Missing BY KnownDoc
      <4>2. CASE jobs[Booter][i] = Head(jobs[Booter])
        <5>1. act[Booter].order.user = v BY <3>2, <3>5, <4>2
        <5>2. v \in L BY <2>2, <2>9, <4>1, <5>1 DEF Lost
        <5>3. QED BY <2>5, <5>2
      <4>3. CASE jobs[Booter][i] # Head(jobs[Booter])
        <5>1. PICK j \in DOMAIN Tail(jobs[Booter]) :
                Tail(jobs[Booter])[j] = jobs[Booter][i]
          BY <3>2, <3>4, <4>3, TailKept
        <5>2. QED BY <3>3, <3>5, <5>1
      <4>4. QED BY <4>2, <4>3
    <3>6. QED BY <1>1, <1>5, <2>4, <2>5, <2>6, <3>5 DEF Served
  <2>10. QED BY <2>8, <2>9
<1>9. CASE Crash
  <2>1. PICK I : I = Undone(Actor) OBVIOUS
  <2>2. I.orphans = incidents.orphans \union
          {act[a].of : a \in {b \in Actor : act[b].step = "dispatch"}}
    BY <2>1, UndoneShape
  <2>3. UNCHANGED jobs /\ incidents' = I BY <1>9, <2>1 DEF Crash
  <2>4. act[Joiner].step = "dispatch" /\ act[Joiner].of = v => v \in incidents'.orphans
    BY <1>3, <2>2, <2>3
  <2>5. QED BY <1>1, <1>5, <2>2, <2>3, <2>4 DEF Served
<1>10. CASE UNCHANGED vars BY <1>1, <1>5, <1>10 DEF vars, Served
<1>11. QED BY <1>6, <1>7, <1>8, <1>9, <1>10

LEMMA MembersNext ==
  ASSUME Inv, AddressInv, ServedInv, Sorted
  PROVE  AddressInv' /\ ServedInv'
<1>1. AddressInv' BY AddressNext
<1>2. ServedInv'
  BY ServedPlain, ServedWrites, ServedAssigns, ServedTrouble DEF Sorted
<1>3. QED BY <1>1, <1>2

LEMMA MembersInit ==
  ASSUME Init
  PROVE  AddressInv /\ ServedInv
<1>1. users = Staff /\ assigned = Held /\ act = [a \in Actor |-> Idle]
  BY DEF Init
<1>2. act[Joiner].step = "idle" BY <1>1 DEF Actor, Worker, Idle
<1>3. ASSUME NEW u \in Known
      PROVE  Unseen(u) /\ Served(u) /\ \A v \in Known : Apart(u, v)
  <2>1. Unseen(u) BY <1>2 DEF Unseen
  <2>2. Served(u) BY <1>1, StaffAssumption DEF Known, Served
  <2>3. ASSUME NEW v \in Known PROVE Apart(u, v)
    BY <1>1, StaffAssumption DEF Known, Apart
  <2>4. QED BY <2>1, <2>2, <2>3
<1>4. QED BY <1>3 DEF AddressInv, ServedInv

(* Two users share an address only by carelessness or a document written   *)
(* back, and the user of a member has roles, or a job that will give them. *)
THEOREM MembersStayServed ==
  (Spec => []MembersGetOneUser) /\ (PeopleSpec => []MembersGetOneUser)
<1> DEFINE J == AddressInv /\ ServedInv
<1>1. Init => Inv /\ J BY InitInv, MembersInit
<1>2. PeopleInit => PeopleInv /\ J
  BY PeopleInitInv, MembersInit DEF PeopleInit
<1>3. J => MembersGetOneUser
  BY DEF AddressInv, ServedInv, Apart, Served, MembersGetOneUser
<1>4. Inv /\ J /\ [Next]_vars => (Inv /\ J)'
  BY NextInv, NextSorts, MembersNext
<1>5. PeopleInv /\ J /\ [PeopleNext]_<<vars, people>> => (PeopleInv /\ J)'
  BY PeopleNextInv, PeopleSorts, MembersNext DEF PeopleInv
<1> HIDE DEF J
<1>6. Spec => []MembersGetOneUser BY <1>1, <1>3, <1>4, PTL DEF Spec
<1>7. PeopleSpec => []MembersGetOneUser BY <1>2, <1>3, <1>5, PTL DEF PeopleSpec
<1>8. QED BY <1>6, <1>7

(***************************************************************************)
(* The church of a completed customer has an administrator, or will.       *)
(***************************************************************************)
Manned(t) == \E u \in Known : Home(u) = t /\ assigned[u] # Missing
Booting(t) == \E i \in DOMAIN jobs[Booter] : jobs[Booter][i].church = t
Onboarding(k) == \E i \in DOMAIN jobs[Onboarder] : jobs[Onboarder][i].customer = k

Usable(k) ==
  customers[k].status = "COMPLETED" =>
    \/ k \in broken.unfounded
    \/ Manned(customers[k].tenant)
    \/ Booting(customers[k].tenant)
    \/ Onboarding(k)
UsableInv == \A k \in Present(customers) : Usable(k)

(* Nobody loses all roles: they are replaced, never taken away.            *)
RolesKept == \A u \in Known : assigned[u] # Missing => assigned'[u] # Missing

LEMMA UsableKept ==
  ASSUME NEW k \in Present(customers), Usable(k), customers'[k] = customers[k],
         broken.unfounded \subseteq broken'.unfounded, Grown, RolesKept,
         NEW t, t = customers[k].tenant,
         Booting(t) => k \in broken'.unfounded \/ Manned(t)' \/ Booting(t)',
         Onboarding(k) => k \in broken'.unfounded \/ Booting(t)' \/ Onboarding(k)'
  PROVE  Usable(k)'
<1>1. Manned(t) => Manned(t)' BY DEF Manned, Grown, RolesKept, Home
<1>2. t = customers'[k].tenant OBVIOUS
<1>3. Usable(k)' <=> (customers[k].status = "COMPLETED" =>
                        \/ k \in broken'.unfounded
                        \/ Manned(t)' \/ Booting(t)' \/ Onboarding(k)')
  BY <1>2 DEF Usable, Booting, Manned, Onboarding, Home
<1>4. customers[k].status = "COMPLETED" =>
        k \in broken.unfounded \/ Manned(t) \/ Booting(t) \/ Onboarding(k)
  BY DEF Usable
<1>5. QED BY <1>1, <1>3, <1>4

LEMMA QueuesGoOn ==
  /\ QueueKept(Booter) => \A t : Booting(t) => Booting(t)'
  /\ QueueKept(Onboarder) => \A k : Onboarding(k) => Onboarding(k)'
<1>1. ASSUME QueueKept(Booter), NEW t, NEW i \in DOMAIN jobs[Booter],
             jobs[Booter][i].church = t
      PROVE  \E j \in DOMAIN jobs'[Booter] : jobs'[Booter][j].church = t
  <2>1. PICK j \in DOMAIN jobs'[Booter] : jobs'[Booter][j] = jobs[Booter][i]
    BY <1>1 DEF QueueKept
  <2>2. QED BY <1>1, <2>1
<1>2. ASSUME QueueKept(Onboarder), NEW k, NEW i \in DOMAIN jobs[Onboarder],
             jobs[Onboarder][i].customer = k
      PROVE  \E j \in DOMAIN jobs'[Onboarder] : jobs'[Onboarder][j].customer = k
  <2>1. PICK j \in DOMAIN jobs'[Onboarder] : jobs'[Onboarder][j] = jobs[Onboarder][i]
    BY <1>2 DEF QueueKept
  <2>2. QED BY <1>2, <2>1
<1>3. QED BY <1>1, <1>2 DEF Booting, Onboarding

(* A job that leaves its queue was at the head of it.                      *)
LEMMA QueuePopped ==
  ASSUME Inv, NEW a \in Worker, act[a].step # "idle", jobs'[a] = Tail(jobs[a])
  PROVE  /\ a = Booter => \A t : Booting(t) =>
                            act[a].order.church = t \/ Booting(t)'
         /\ a = Onboarder => \A k : Onboarding(k) =>
                            act[a].order.customer = k \/ Onboarding(k)'
<1>1. jobs[a] # <<>> /\ act[a].order = Head(jobs[a]) BY WorkerOrder
<1>2. \E S : jobs[a] \in Seq(S) BY DEF Worker, Inv, JobsOK
<1>3. \A i \in DOMAIN jobs[a] :
        jobs[a][i] = act[a].order \/ \E j \in DOMAIN jobs'[a] : jobs'[a][j] = jobs[a][i]
  BY <1>1, <1>2, TailKept
<1>4. QED BY <1>3 DEF Booting, Onboarding

LEMMA UsableAccounts ==
  ASSUME PeopleInv, UsableInv, NEW q \in Actor, Accounting(q), UNCHANGED people
  PROVE  UsableInv'
<1>1. jobs'[Onboarder] = jobs[Onboarder] BY AccountingMoves DEF PeopleInv
<1>2. QueueKept(Onboarder) BY <1>1 DEF QueueKept
<1>3. UNCHANGED <<customers, broken>> BY DEF people
<1>4. SUFFICES ASSUME NEW k \in Present(customers) PROVE Usable(k)'
  BY <1>3 DEF UsableInv, Present
<1>5. Usable(k) BY DEF UsableInv
<1>6. PICK t : t = customers[k].tenant OBVIOUS
<1>7. CASE Grown /\ RolesKept /\ QueueKept(Booter)
  BY <1>2, <1>3, <1>5, <1>6, <1>7, QueuesGoOn, UsableKept
<1>8. CASE Plain(q) BY <1>7, <1>8 DEF Plain, Grown, Known, RolesKept
<1>9. CASE Writes(q)
  <2>1. UNCHANGED <<assigned, jobs>> /\ Grown
    BY <1>9, WritesAside, WritesGrow DEF Aside, PeopleInv
  <2>2. QED BY <1>7, <2>1 DEF RolesKept, QueueKept
<1>10. CASE Permits(q) \/ Caches(q)
  <2>1. UNCHANGED <<users, assigned, jobs>>
    BY <1>10, PermitsAside, CachesAside DEF PeopleInv
  <2>2. QED BY <1>7, <2>1 DEF Grown, Known, RolesKept, QueueKept
<1>11. CASE Assigns(q)
  <2>1. UNCHANGED users BY <1>11, RolesAssigned DEF PeopleInv
  <2>2. Grown BY <2>1 DEF Grown, Known
  <2>3. CASE UNCHANGED <<assigned, jobs>>
    BY <1>7, <2>2, <2>3 DEF RolesKept, QueueKept
  <2>4. ASSUME NEW u \in Known, NEW R \in SUBSET Role,
               assigned' = [assigned EXCEPT ![u] = R],
               \/ UNCHANGED jobs
               \/ /\ q = Booter /\ act[q].order.op = "boot" /\ jobs' = EndJobs(q)
                  /\ Home(u) = act[q].order.church
        PROVE  Usable(k)'
    <3>1. assigned'[u] # Missing /\ RolesKept
      BY <2>4, MissingAssumption DEF RolesKept, PeopleInv, Inv, StoreOK, TypeOK, Known
    <3>2. CASE UNCHANGED jobs BY <1>7, <2>2, <3>1, <3>2 DEF QueueKept
    <3>3. CASE q = Booter /\ jobs' = EndJobs(q) /\ Home(u) = act[q].order.church
      <4>1. q \in Worker /\ act[q].step # "idle"
        BY <1>11, <3>3, RolesAssigned DEF Worker, PeopleInv
      <4>2. jobs'[q] = Tail(jobs[q])
        BY <3>3, <4>1 DEF EndJobs, PeopleInv, Inv, JobsOK
      <4>3. Booting(t) => act[q].order.church = t \/ Booting(t)'
        BY <3>3, <4>1, <4>2, QueuePopped DEF PeopleInv
      <4>4. act[q].order.church = t => Manned(t)'
        BY <2>1, <2>4, <3>1, <3>3 DEF Manned, Known, Home
      <4>5. QED
        BY <1>2, <1>3, <1>5, <1>6, <2>2, <3>1, <4>3, <4>4, QueuesGoOn, UsableKept
    <3>4. QED BY <2>4, <3>2, <3>3
  <2>5. QED BY <1>11, <2>3, <2>4, RolesAssigned DEF PeopleInv
<1>12. QED BY <1>8, <1>9, <1>10, <1>11, AccountingSorts DEF PeopleInv

(* What the requests on people change of customers and onboardings.        *)
LEMMA ChurchCustomers ==
  ASSUME PeopleInv, NEW q \in Request, ChurchStep(q)
  PROVE  /\ broken'.unfounded = broken.unfounded
         /\ \/ UNCHANGED customers
            \/ \E k \in Customer \ Present(customers) :
                 customers' = [customers EXCEPT ![k] = Waiting(act[q].order.email)]
<1>1. CASE WriteChurch(q) \/ WriteMinister(q) \/ WriteEditedChurch(q)
           \/ WriteSavedMinister(q)
  <2>1. UNCHANGED customers
    BY <1>1 DEF WriteChurch, WriteMinister, WriteEditedChurch, WriteSavedMinister
  <2>2. \E b \in BOOLEAN : \E x : broken' = Split(b, x)
    BY <1>1 DEF WriteChurch, WriteMinister, WriteEditedChurch, WriteSavedMinister
  <2>3. QED BY <2>1, <2>2, SplitShape DEF PeopleInv
<1>2. CASE Apply(q) BY <1>2 DEF Apply
<1>3. CASE /\ ~WriteChurch(q) /\ ~WriteMinister(q) /\ ~WriteEditedChurch(q)
           /\ ~WriteSavedMinister(q) /\ ~Apply(q)
  BY <1>3, ChurchReads
<1>4. QED BY <1>1, <1>2, <1>3

LEMMA UsableRequests ==
  ASSUME PeopleInv, UsableInv, NEW q \in Request, ChurchStep(q)
  PROVE  UsableInv'
<1>1. q \in Actor /\ q # Booter BY SlotAssumption DEF Actor, Worker
<1>2. UNCHANGED rbac BY ChurchMoves DEF PeopleInv
<1>3. Grown /\ RolesKept BY <1>2 DEF rbac, Grown, Known, RolesKept
<1>4. Joiner \in Worker /\ Onboarder \in Worker /\ Onboarder # Joiner
  BY DEF Worker, Joiner, Onboarder
<1>5. QueueKept(Booter)
  <2>1. \/ UNCHANGED jobs
        \/ \E w \in Worker : \E j : jobs' = [jobs EXCEPT ![w] = Append(@, j)]
    BY <1>4, ChurchJobs DEF PeopleInv
  <2>2. QED BY <1>1, <2>1, BooterQueue DEF PeopleInv
<1>6. QueueKept(Onboarder)
  <2>1. \/ jobs'[Onboarder] = jobs[Onboarder]
        \/ \E j : jobs'[Onboarder] = Append(jobs[Onboarder], j)
    BY <1>4, ChurchJobs DEF PeopleInv, Inv, JobsOK
  <2>2. jobs[Onboarder] \in Seq(OnboardJobs) BY DEF PeopleInv, Inv, JobsOK
  <2>3. CASE jobs'[Onboarder] = jobs[Onboarder] BY <2>3 DEF QueueKept
  <2>4. CASE \E j : jobs'[Onboarder] = Append(jobs[Onboarder], j)
    BY <2>2, <2>4, AppendKept DEF QueueKept
  <2>5. QED BY <2>1, <2>3, <2>4
<1>7. broken'.unfounded = broken.unfounded BY ChurchCustomers
<1>8. ASSUME NEW k \in Present(customers), customers'[k] = customers[k]
      PROVE  Usable(k)'
  <2>1. Usable(k) BY DEF UsableInv
  <2>2. PICK t : t = customers[k].tenant OBVIOUS
  <2>3. QED
    BY <1>3, <1>5, <1>6, <1>7, <1>8, <2>1, <2>2, QueuesGoOn, UsableKept
<1>9. CASE UNCHANGED customers BY <1>8, <1>9 DEF UsableInv, Present
<1>10. CASE \E k \in Customer \ Present(customers) :
              customers' = [customers EXCEPT ![k] = Waiting(act[q].order.email)]
  <2>1. PICK k \in Customer \ Present(customers) :
          customers' = [customers EXCEPT ![k] = Waiting(act[q].order.email)]
    BY <1>10
  <2>2. customers'[k].status = "PENDING" /\ DOMAIN customers = Customer
    BY <2>1 DEF Waiting, PeopleInv, PeopleOK
  <2>3. ASSUME NEW j \in Present(customers') PROVE Usable(j)'
    <3>1. CASE j = k BY <2>2, <3>1 DEF Usable
    <3>2. CASE j # k
      <4>1. j \in Present(customers) /\ customers'[j] = customers[j]
        BY <2>1, <2>2, <3>2 DEF Present
      <4>2. QED BY <1>8, <4>1
    <3>3. QED BY <3>1, <3>2
  <2>4. QED BY <2>3 DEF UsableInv
<1>11. QED BY <1>9, <1>10, ChurchCustomers

LEMMA UsableOnboards ==
  ASSUME PeopleInv, UsableInv, OnboardStep(Onboarder)
  PROVE  UsableInv'
<1>1. PICK s : s = act[Onboarder] OBVIOUS
<1>2. PICK h, c : h = s.order.customer /\ c = s.of OBVIOUS
<1>3. /\ Onboarder \in Actor /\ Onboarder \in Worker
      /\ s.step \in {"do", "tenant", "furnish"}
      /\ UNCHANGED rbac
      /\ h \in Present(customers) /\ jobs[Onboarder] # <<>>
      /\ s.order = Head(jobs[Onboarder])
  BY <1>1, <1>2, OnboardMoves
<1>4. Grown /\ RolesKept BY <1>3 DEF rbac, Grown, Known, RolesKept
<1>5. Booter \in Worker /\ Booter # Onboarder BY DEF Worker, Booter, Onboarder
<1>6. ASSUME NEW k \in Present(customers), customers'[k] = customers[k],
             broken.unfounded \subseteq broken'.unfounded, QueueKept(Booter),
             Onboarding(k) => \/ k \in broken'.unfounded \/ Onboarding(k)'
                              \/ Booting(customers[k].tenant)'
      PROVE  Usable(k)'
  <2>1. PICK t : t = customers[k].tenant OBVIOUS
  <2>2. Usable(k) BY DEF UsableInv
  <2>3. customers'[k].tenant = t BY <1>6, <2>1
  <2>4. Booting(customers[k].tenant)' <=> Booting(t)' BY <2>3 DEF Booting
  <2>5. QED BY <1>4, <1>6, <2>1, <2>2, <2>4, QueuesGoOn, UsableKept
<1>7. CASE FoundChurch(Onboarder)
  <2>1. UNCHANGED <<jobs, customers, broken>> BY <1>7 DEF FoundChurch
  <2>2. QueueKept(Booter) /\ QueueKept(Onboarder) BY <2>1 DEF QueueKept
  <2>3. ASSUME NEW k \in Present(customers) PROVE Usable(k)'
    BY <1>6, <2>1, <2>2, QueuesGoOn
  <2>4. QED BY <2>1, <2>3 DEF UsableInv, Present
<1>8. CASE CompleteCustomer(Onboarder)
  <2>1. /\ UNCHANGED <<jobs, broken>>
        /\ customers' = [customers EXCEPT ![h] =
                           [@ EXCEPT !.tenant = c, !.status = "COMPLETED"]]
    BY <1>1, <1>2, <1>8 DEF CompleteCustomer
  <2>2. QueueKept(Booter) /\ QueueKept(Onboarder) BY <2>1 DEF QueueKept
  <2>3. Onboarding(h)'
    <3>1. jobs[Onboarder] \in Seq(OnboardJobs) BY DEF PeopleInv, Inv, JobsOK
    <3>2. 1 \in DOMAIN jobs[Onboarder] /\ jobs[Onboarder][1] = s.order
      BY <1>3, <3>1
    <3>3. QED BY <1>2, <2>1, <3>2 DEF Onboarding
  <2>4. Usable(h)' BY <2>3 DEF Usable
  <2>5. DOMAIN customers' = DOMAIN customers
    BY <2>1 DEF PeopleInv, PeopleOK
  <2>6. ASSUME NEW k \in Present(customers') PROVE Usable(k)'
    <3>1. CASE k = h BY <2>4, <3>1
    <3>2. CASE k # h
      <4>1. customers'[k] = customers[k] BY <2>1, <3>2
      <4>2. k \in Present(customers) BY <2>5, <4>1 DEF Present
      <4>3. QED BY <1>6, <2>1, <2>2, <4>1, <4>2, QueuesGoOn
    <3>3. QED BY <3>1, <3>2
  <2>7. QED BY <2>6 DEF UsableInv
<1>9. CASE DispatchFounder(Onboarder)
  <2>1. s.step = "furnish" /\ UNCHANGED customers
    BY <1>1, <1>9 DEF DispatchFounder, At
  <2>2. customers[h].tenant = c
    BY <1>1, <1>2, <2>1 DEF PeopleInv, PeopleOK, Founding
  <2>3. PICK E, j : E = EndJobs(Onboarder) /\ j = FounderJob(h, c) OBVIOUS
  <2>4. /\ E = [w \in Worker |-> E[w]] /\ E[Onboarder] = Tail(jobs[Onboarder])
        /\ E[Booter] = jobs[Booter]
    BY <1>3, <1>5, <2>3 DEF EndJobs, PeopleInv, Inv, JobsOK
  <2>5. \/ jobs' = [E EXCEPT ![Booter] = Append(@, j)] /\ UNCHANGED broken
        \/ jobs' = E /\ broken' = Unfounded(h)
    BY <1>1, <1>2, <1>9, <2>3 DEF DispatchFounder
  <2>6. jobs'[Onboarder] = Tail(jobs[Onboarder]) BY <1>3, <1>5, <2>4, <2>5
  <2>7. QueueKept(Booter)
    <3>1. \/ jobs' = EndJobs(Onboarder)
          \/ \E x : jobs' = [EndJobs(Onboarder) EXCEPT ![Booter] = Append(@, x)]
      BY <2>3, <2>5
    <3>2. QED BY <1>3, <1>5, <3>1, BooterQueue DEF PeopleInv
  <2>8. h \in broken'.unfounded \/ Booting(c)'
    <3>1. CASE jobs' = [E EXCEPT ![Booter] = Append(@, j)]
      <4>1. jobs'[Booter] = Append(jobs[Booter], j) BY <1>5, <2>4, <3>1
      <4>2. jobs[Booter] \in Seq(BootJobs) BY DEF PeopleInv, Inv, JobsOK
      <4>3. PICK i : i = Len(jobs[Booter]) + 1 OBVIOUS
      <4>4. i \in DOMAIN jobs'[Booter] /\ jobs'[Booter][i] = j
        BY <4>1, <4>2, <4>3
      <4>5. j.church = c BY <2>3 DEF FounderJob
      <4>6. QED BY <4>4, <4>5 DEF Booting
    <3>2. CASE broken' = Unfounded(h)
      BY <3>2 DEF Unfounded, PeopleInv, PeopleOK
    <3>3. QED BY <2>5, <3>1, <3>2
  <2>9. broken.unfounded \subseteq broken'.unfounded
    BY <2>5 DEF Unfounded, PeopleInv, PeopleOK
  <2>10. \A k : Onboarding(k) => h = k \/ Onboarding(k)'
    <3>1. s.step # "idle" BY <2>1
    <3>2. QED BY <1>1, <1>2, <1>3, <2>6, <3>1, QueuePopped DEF PeopleInv
  <2>11. ASSUME NEW k \in Present(customers) PROVE Usable(k)'
    <3>1. customers'[k] = customers[k] BY <2>1
    <3>2. k = h => Booting(c)' = Booting(customers[k].tenant)'
      BY <2>2, <3>1 DEF Booting
    <3>3. Onboarding(k) => \/ k \in broken'.unfounded \/ Onboarding(k)'
                           \/ Booting(customers[k].tenant)'
      BY <2>8, <2>10, <3>2
    <3>4. QED BY <1>6, <2>7, <2>9, <3>1, <3>3
  <2>12. QED BY <2>1, <2>11 DEF UsableInv, Present
<1>10. QED BY <1>7, <1>8, <1>9 DEF OnboardStep

(* What failed leaves the customer of the church unfounded.                *)
LEMMA UsableTrouble ==
  ASSUME PeopleInv, UsableInv,
         \/ (\E u \in User : Expire(u)) /\ UNCHANGED people
         \/ \E a \in Actor : /\ Fail(a) /\ broken' = Stopped({a}, {a})
                             /\ UNCHANGED <<members, churches, ministers, customers>>
         \/ /\ Crash /\ broken' = Stopped(Actor, {})
            /\ UNCHANGED <<members, churches, ministers, customers>>
         \/ UNCHANGED <<vars, people>>
  PROVE  UsableInv'
<1>1. UNCHANGED <<users, assigned, customers>>
  BY DEF Expire, Fail, Crash, vars, people
<1>2. Grown /\ RolesKept BY <1>1 DEF Grown, Known, RolesKept
<1>3. SUFFICES ASSUME NEW k \in Present(customers) PROVE Usable(k)'
  BY <1>1 DEF UsableInv, Present
<1>4. Usable(k) BY DEF UsableInv
<1>5. PICK t : t = customers[k].tenant OBVIOUS
<1>6. CASE UNCHANGED jobs /\ broken.unfounded \subseteq broken'.unfounded
  <2>1. QueueKept(Booter) /\ QueueKept(Onboarder) BY <1>6 DEF QueueKept
  <2>2. QED BY <1>1, <1>2, <1>4, <1>5, <1>6, <2>1, QueuesGoOn, UsableKept
<1>7. CASE (\E u \in User : Expire(u)) /\ UNCHANGED people
  BY <1>6, <1>7 DEF Expire, people
<1>8. CASE UNCHANGED <<vars, people>> BY <1>6, <1>8 DEF vars, people
<1>9. CASE Crash /\ broken' = Stopped(Actor, {})
  BY <1>6, <1>9 DEF Crash, Stopped
<1>10. ASSUME NEW a \in Actor, Fail(a), broken' = Stopped({a}, {a})
       PROVE  Usable(k)'
  <2>1. broken'.unfounded = broken.unfounded \union
          {j \in Present(customers) :
             \E w \in {a} \intersect Worker :
               \/ w = Onboarder /\ act[w].order.customer = j
               \/ w = Booter /\ act[w].order.church = customers[j].tenant}
    BY <1>10 DEF Stopped
  <2>2. act[a].step # "idle" /\ (\A w \in Worker \ {a} : jobs'[w] = jobs[w])
        /\ (a \in Worker => jobs'[a] = Tail(jobs[a]))
    BY <1>10, FailQueue DEF PeopleInv
  <2>3. Booter \in Worker /\ Onboarder \in Worker /\ Booter # Onboarder
    BY DEF Worker, Booter, Onboarder
  <2>4. Booting(t) => k \in broken'.unfounded \/ Booting(t)'
    <3>1. CASE a = Booter
      <4>1. Booting(t) => act[a].order.church = t \/ Booting(t)'
        BY <2>2, <2>3, <3>1, QueuePopped DEF PeopleInv
      <4>2. act[a].order.church = t => k \in broken'.unfounded
        BY <1>5, <2>1, <2>3, <3>1
      <4>3. QED BY <4>1, <4>2
    <3>2. CASE a # Booter
      <4>1. QueueKept(Booter) BY <2>2, <2>3, <3>2 DEF QueueKept
      <4>2. QED BY <4>1, QueuesGoOn
    <3>3. QED BY <3>1, <3>2
  <2>5. Onboarding(k) => k \in broken'.unfounded \/ Onboarding(k)'
    <3>1. CASE a = Onboarder
      <4>1. Onboarding(k) => act[a].order.customer = k \/ Onboarding(k)'
        BY <2>2, <2>3, <3>1, QueuePopped DEF PeopleInv
      <4>2. act[a].order.customer = k => k \in broken'.unfounded
        BY <2>1, <2>3, <3>1
      <4>3. QED BY <4>1, <4>2
    <3>2. CASE a # Onboarder
      <4>1. QueueKept(Onboarder) BY <2>2, <2>3, <3>2 DEF QueueKept
      <4>2. QED BY <4>1, QueuesGoOn
    <3>3. QED BY <3>1, <3>2
  <2>6. QED BY <1>1, <1>2, <1>4, <1>5, <2>1, <2>4, <2>5, UsableKept
<1>11. QED BY <1>7, <1>8, <1>9, <1>10

LEMMA UsableNext ==
  ASSUME PeopleInv, UsableInv, [PeopleNext]_<<vars, people>>
  PROVE  UsableInv'
<1>1. CASE UNCHANGED <<vars, people>> BY <1>1, UsableTrouble
<1>2. CASE PeopleNext
  BY <1>2, PeopleCases, UsableAccounts, UsableRequests, UsableOnboards, UsableTrouble
<1>3. QED BY <1>1, <1>2

(* The church of a completed customer has an administrator, or a job that  *)
(* will make one, unless that job failed or its dispatch was lost.         *)
THEOREM CustomersStayUsable ==
  PeopleSpec => []CompletedIsUsable
<1>1. UsableInv => CompletedIsUsable
  BY DEF UsableInv, Usable, Manned, Booting, Onboarding, CompletedIsUsable
<1>2. PeopleInit => UsableInv
  <2>1. ASSUME PeopleInit, NEW k \in Present(customers)
        PROVE  customers[k].status = "PENDING"
    <3>1. k \in Customer /\ customers[k] = Waiting(Applicant[k])
      BY <2>1 DEF PeopleInit, Present
    <3>2. QED BY <3>1 DEF Waiting
  <2>2. QED BY <2>1 DEF UsableInv, Usable
<1>3. PeopleInit => PeopleInv BY PeopleInitInv
<1>4. PeopleInv /\ UsableInv /\ [PeopleNext]_<<vars, people>>
        => (PeopleInv /\ UsableInv)'
  BY PeopleNextInv, UsableNext
<1>5. QED BY <1>1, <1>2, <1>3, <1>4, PTL DEF PeopleSpec
===============================================================================
