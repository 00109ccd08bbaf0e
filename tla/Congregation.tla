----------------------------- MODULE Congregation -----------------------------
(***************************************************************************)
(* The people of the churches: members, whose registration has a user made *)
(* for them; ministers and the church each serves, linked from both sides; *)
(* customers, whose onboarding founds a church and its administrator. It   *)
(* runs with the users and the workers of Access.                          *)
(*                                                                         *)
(* Abstractions: names, addresses and dates are left out, so an edit of a  *)
(* church or of a minister writes back what it read; a minister is known   *)
(* by its document number.                                                 *)
(***************************************************************************)
EXTENDS Access

CONSTANTS
  Member,    \* members to be registered
  Dni,       \* their document numbers, from which passwords are made
  Minister,  \* ministers
  Clergy,    \* the ministers registered at the start
  Customer,  \* customers
  Applicant  \* [Customer -> email or Missing]: those waiting at the start

MemberDoc   == [dni : Dni, email : Email, church : Church]
ChurchDoc   == [minister : Maybe(Minister)]
MinisterDoc == [church : Maybe(Church)]
CustomerDoc == [email : Email, tenant : Maybe(Church),
                status : {"PENDING", "COMPLETED"}]

PeopleRequest ==
  [op : {"addMember"}, caller : User, dni : Dni, email : Email, church : Church]
  \union [op : {"editMember"}, caller : User, member : Member, dni : Dni,
          email : Email]
  \union [op : {"assignChurch"}, caller : User, minister : Minister,
          church : Church]
  \union [op : {"removeMinister", "editChurch"}, caller : User, church : Church]
  \union [op : {"saveMinister"}, caller : User, minister : Minister]
  \union [op : {"apply"}, email : Email]
  \union [op : {"complete"}, customer : Customer]

ASSUME PeopleAssumption ==
  /\ Dni \subseteq Password /\ Clergy \subseteq Minister
  /\ Applicant \in [Customer -> Maybe(Email)]
  /\ \A o \in Order : o.op \notin AccountOps => o \in PeopleRequest
  /\ Missing \notin Church \union Minister
  /\ Missing \notin ChurchDoc \union MinisterDoc \union MemberDoc \union CustomerDoc

VARIABLES
  members,    \* the collection members
  churches,   \* the collection churches
  ministers,  \* the collection ministers
  customers,  \* the collection customers
  broken      \* history: links and onboardings left half done

people == <<members, churches, ministers, customers, broken>>
rbac == <<users, roles, grants, assigned, cache, told, incidents>>

Waiting(e) == [email |-> e, tenant |-> Missing, status |-> "PENDING"]

PeopleInit ==
  /\ Init
  /\ members = [m \in Member |-> Missing]
  /\ churches = [c \in Church |->
                   IF c \in SetUp THEN [minister |-> Missing] ELSE Missing]
  /\ ministers = [m \in Minister |->
                    IF m \in Clergy THEN [church |-> Missing] ELSE Missing]
  /\ customers = [k \in Customer |-> IF Applicant[k] = Missing THEN Missing
                                     ELSE Waiting(Applicant[k])]
  /\ broken = [split |-> {}, unfounded |-> {}]
-----------------------------------------------------------------------------
Present(docs) == {d \in DOMAIN docs : docs[d] # Missing}
WithDni(d) == {m \in Present(members) : members[m].dni = d}

(* What an actor does without touching users, roles or the cache.          *)
Stays == UNCHANGED rbac /\ UNCHANGED used
Quiet(a) == Stays /\ jobs' = EndJobs(a)

(* CreateMember: the number is not taken and the church exists.            *)
FindMember(q) ==
  LET o == act[q].order
  IN /\ At(q, "do", {"addMember"})
     /\ IF WithDni(o.dni) # {} \/ churches[o.church] = Missing THEN End(q)
        ELSE Step(q, "member")
     /\ Quiet(q) /\ UNCHANGED people

(* The member is stored, unless the unique index of the number refuses.    *)
StoreMember(q) ==
  LET o == act[q].order
  IN /\ act[q].step = "member"
     /\ IF WithDni(o.dni) # {} THEN End(q) /\ UNCHANGED members
        ELSE \E m \in Member \ Present(members) :
               /\ members' = [members EXCEPT ![m] =
                    [dni |-> o.dni, email |-> Lower[o.email], church |-> o.church]]
               /\ Go(q, [act[q] EXCEPT !.step = "dispatch", !.of = m])
     /\ Quiet(q) /\ UNCHANGED <<churches, ministers, customers, broken>>

JoinJob(o) ==
  [op |-> "join", email |-> Lower[o.email], password |-> o.dni,
   church |-> o.church]

DispatchJoin(q) ==
  /\ At(q, "dispatch", {"addMember"})
  /\ End(q)
  /\ \/ /\ jobs' = [jobs EXCEPT ![Joiner] = Append(@, JoinJob(act[q].order))]
        /\ UNCHANGED used
     \/ used.troubles < MaxTroubles /\ Spend /\ UNCHANGED jobs
  /\ UNCHANGED rbac /\ UNCHANGED people

(* UpdateMember reads the member, then writes all of it. The user keeps    *)
(* the address it was given. (A body without `params' fails before.)       *)
ReadMember(q) ==
  LET o == act[q].order
  IN /\ At(q, "do", {"editMember"})
     /\ IF members[o.member] = Missing THEN End(q)
        ELSE Go(q, [act[q] EXCEPT !.step = "rewrite", !.copy = members[o.member]])
     /\ Quiet(q) /\ UNCHANGED people

WriteMember(q) ==
  LET o == act[q].order
  IN /\ At(q, "rewrite", {"editMember"})
     /\ End(q)
     /\ members' = IF WithDni(o.dni) \subseteq {o.member}
                   THEN [members EXCEPT ![o.member] =
                           [act[q].copy EXCEPT !.dni = o.dni, !.email = o.email]]
                   ELSE members
     /\ Quiet(q) /\ UNCHANGED <<churches, ministers, customers, broken>>
-----------------------------------------------------------------------------
(* A link written over a change the request has not read, or while another *)
(* request has written one side of the church's link, is left in doubt. So *)
(* is that of a minister who is released by a church read long before, and *)
(* serves another by now.                                                  *)
Split(stale, id) ==
  [broken EXCEPT !.split = IF stale THEN @ \union {id} ELSE @]
Between(q) ==
  \E r \in Request \ {q} :
    act[r].step = "second" /\ act[r].order.church = act[q].order.church

(* AssignChurch: a church without minister, then a minister without church.*)
FindFreeChurch(q) ==
  LET c == act[q].order.church
  IN /\ At(q, "do", {"assignChurch"})
     /\ IF churches[c] \in {Missing} \/ churches[c].minister # Missing THEN End(q)
        ELSE Go(q, [act[q] EXCEPT !.step = "minister", !.copy = <<churches[c]>>])
     /\ Quiet(q) /\ UNCHANGED people

FindFreeMinister(q) ==
  LET m == act[q].order.minister
  IN /\ At(q, "minister", {"assignChurch"})
     /\ IF ministers[m] \in {Missing} \/ ministers[m].church # Missing THEN End(q)
        ELSE Go(q, [act[q] EXCEPT !.step = "first",
                                  !.copy = Append(@, ministers[m])])
     /\ Quiet(q) /\ UNCHANGED people

(* RemoveMinister: the church, and the minister it names.                  *)
FindServedChurch(q) ==
  LET c == act[q].order.church
  IN /\ At(q, "do", {"removeMinister"})
     /\ IF churches[c] = Missing \/ churches[c].minister = Missing THEN End(q)
        ELSE Go(q, [act[q] EXCEPT !.step = "minister", !.copy = <<churches[c]>>])
     /\ Quiet(q) /\ UNCHANGED people

FindItsMinister(q) ==
  /\ At(q, "minister", {"removeMinister"})
  /\ Go(q, [act[q] EXCEPT !.step = "first",
              !.copy = Append(@, ministers[act[q].copy[1].minister])])
  /\ Quiet(q) /\ UNCHANGED people

(* The church is written first when linked, second when unlinked.          *)
Linked(q) == act[q].order.op = "assignChurch"
Pastor(q) == IF Linked(q) THEN act[q].order.minister ELSE act[q].copy[1].minister
Elsewhere(q) ==
  ~Linked(q) /\ ministers[Pastor(q)].church \notin {act[q].order.church, Missing}

WriteChurch(q) ==
  LET c == act[q].order.church
  IN /\ At(q, "first", {"assignChurch"}) \/ At(q, "second", {"removeMinister"})
     /\ churches' = [churches EXCEPT ![c] =
          [minister |-> IF Linked(q) THEN Pastor(q) ELSE Missing]]
     /\ broken' = Split(churches[c] # act[q].copy[1] \/ Between(q), c)
     /\ IF Linked(q) THEN Step(q, "second") ELSE End(q)
     /\ Quiet(q) /\ UNCHANGED <<members, ministers, customers>>

(* Variant with a bug: a minister who is removed keeps the church.         *)
WriteMinisterOnce(q) ==
  LET m == Pastor(q)
  IN /\ At(q, "second", {"assignChurch"}) \/ At(q, "first", {"removeMinister"})
     /\ ministers' = IF Linked(q)
          THEN [ministers EXCEPT ![m] = [church |-> act[q].order.church]]
          ELSE ministers
     /\ broken' = Split(ministers[m] # act[q].copy[2] \/ Between(q) \/ Elsewhere(q), m)
     /\ IF Linked(q) THEN End(q) ELSE Step(q, "second")
     /\ Quiet(q) /\ UNCHANGED <<members, churches, customers>>

WriteMinister(q) ==
  LET m == Pastor(q)
  IN /\ At(q, "second", {"assignChurch"}) \/ At(q, "first", {"removeMinister"})
     /\ ministers' = [ministers EXCEPT ![m] =
          [church |-> IF Linked(q) THEN act[q].order.church ELSE Missing]]
     /\ broken' = Split(ministers[m] # act[q].copy[2] \/ Between(q) \/ Elsewhere(q), m)
     /\ IF Linked(q) THEN End(q) ELSE Step(q, "second")
     /\ Quiet(q) /\ UNCHANGED <<members, churches, customers>>

(* CreateOrUpdateChurch with an id, and RegisterOrUpdateMinister, write a  *)
(* whole document too, with the link they read.                            *)
ReadEdited(q) ==
  LET o == act[q].order
      doc == IF o.op = "editChurch" THEN churches[o.church] ELSE ministers[o.minister]
  IN /\ At(q, "do", {"editChurch", "saveMinister"})
     /\ IF doc = Missing /\ o.op = "editChurch" THEN End(q)
        ELSE Go(q, [act[q] EXCEPT !.step = "rewrite",
                      !.copy = IF doc = Missing THEN [church |-> Missing] ELSE doc])
     /\ Quiet(q) /\ UNCHANGED people

WriteEditedChurch(q) ==
  LET c == act[q].order.church
  IN /\ At(q, "rewrite", {"editChurch"})
     /\ End(q)
     /\ churches' = [churches EXCEPT ![c] = act[q].copy]
     /\ broken' = Split(churches[c] # act[q].copy, c)
     /\ Quiet(q) /\ UNCHANGED <<members, ministers, customers>>

WriteSavedMinister(q) ==
  LET m == act[q].order.minister
  IN /\ At(q, "rewrite", {"saveMinister"})
     /\ End(q)
     /\ ministers' = [ministers EXCEPT ![m] = act[q].copy]
     /\ broken' = Split(ministers[m] \notin {Missing, act[q].copy}, m)
     /\ Quiet(q) /\ UNCHANGED <<members, churches, customers>>
-----------------------------------------------------------------------------
(* POST /onboarding: a customer who waits. Nobody has to be logged in.     *)
Apply(q) ==
  /\ At(q, "do", {"apply"})
  /\ End(q)
  /\ \E k \in Customer \ Present(customers) :
       customers' = [customers EXCEPT ![k] = Waiting(act[q].order.email)]
  /\ Quiet(q) /\ UNCHANGED <<members, churches, ministers, broken>>

(* PATCH /onboarding dispatches the job, whatever the customer's status,   *)
(* and answers as well when the dispatch is lost.                          *)
Complete(q) ==
  LET k == act[q].order.customer
  IN /\ At(q, "do", {"complete"})
     /\ End(q)
     /\ \/ /\ customers[k] # Missing
           /\ jobs' = [jobs EXCEPT ![Onboarder] =
                         Append(@, [op |-> "onboard", customer |-> k])]
           /\ UNCHANGED used
        \/ customers[k] = Missing /\ UNCHANGED <<jobs, used>>
        \/ used.troubles < MaxTroubles /\ Spend /\ UNCHANGED jobs
     /\ UNCHANGED rbac /\ UNCHANGED people

(* OnboardingCustomerJob founds a church, on a rerun another one.          *)
FoundChurch(w) ==
  /\ At(w, "do", {"onboard"})
  /\ \E c \in Church \ Present(churches) :
       /\ churches' = [churches EXCEPT ![c] = [minister |-> Missing]]
       /\ Go(w, [act[w] EXCEPT !.step = "tenant", !.of = c])
  /\ Stays /\ UNCHANGED <<jobs, members, ministers, customers, broken>>

(* The customer is completed; concepts and months are made after that.     *)
CompleteCustomer(w) ==
  LET k == act[w].order.customer
  IN /\ At(w, "tenant", {"onboard"})
     /\ customers' = [customers EXCEPT ![k] =
                        [@ EXCEPT !.tenant = act[w].of, !.status = "COMPLETED"]]
     /\ Step(w, "furnish")
     /\ Stays /\ UNCHANGED <<jobs, members, churches, ministers, broken>>

(* Variant with a bug: the founder is left out when the church had one.    *)
FounderJobOnce(k, c) ==
  [op |-> "boot", church |-> c, email |-> customers[k].email,
   password |-> Temporal, roles |-> {"ADMIN"},
   user |-> IF WithEmail(customers[k].email) = {} THEN Missing
            ELSE CHOOSE u \in WithEmail(customers[k].email) : TRUE]

FounderJob(k, c) ==
  [op |-> "boot", church |-> c, user |-> Missing, email |-> customers[k].email,
   password |-> Temporal, roles |-> {"ADMIN"}]

Unfounded(k) == [broken EXCEPT !.unfounded = @ \union {k}]

DispatchFounder(w) ==
  LET k == act[w].order.customer
  IN /\ At(w, "furnish", {"onboard"})
     /\ End(w)
     /\ \/ /\ jobs' = [EndJobs(w) EXCEPT ![Booter] =
                         Append(@, FounderJob(k, act[w].of))]
           /\ UNCHANGED <<used, broken>>
        \/ /\ used.troubles < MaxTroubles
           /\ Spend /\ jobs' = EndJobs(w) /\ broken' = Unfounded(k)
     /\ UNCHANGED rbac /\ UNCHANGED <<members, churches, ministers, customers>>
-----------------------------------------------------------------------------
(* What stays half done when the actors of S stop.                         *)
Halfway(S) == {q \in S \intersect Request : act[q].step = "second"}

Stopped(S, failed) ==
  [split |-> broken.split \union {act[q].order.church : q \in Halfway(S)},
   unfounded |-> broken.unfounded \union
     {k \in Present(customers) :
        \E w \in failed \intersect Worker :
          \/ w = Onboarder /\ act[w].order.customer = k
          \/ w = Booter /\ act[w].order.church = customers[k].tenant}]

Trouble ==
  /\ \/ \E a \in Actor : Fail(a) /\ broken' = Stopped({a}, {a})
     \/ Crash /\ broken' = Stopped(Actor, {})
  /\ UNCHANGED <<members, churches, ministers, customers>>

ChurchStep(q) ==
  \/ FindMember(q) \/ StoreMember(q) \/ DispatchJoin(q)
  \/ ReadMember(q) \/ WriteMember(q)
  \/ FindFreeChurch(q) \/ FindFreeMinister(q)
  \/ FindServedChurch(q) \/ FindItsMinister(q)
  \/ WriteChurch(q) \/ WriteMinister(q)
  \/ ReadEdited(q) \/ WriteEditedChurch(q) \/ WriteSavedMinister(q)
  \/ Apply(q) \/ Complete(q)

OnboardStep(w) == FoundChurch(w) \/ CompleteCustomer(w) \/ DispatchFounder(w)

(* The steps of Access, beside which the collections of people stay.       *)
AccountStep(q) ==
  \/ FindUser(q) /\ UNCHANGED people
  \/ Upsert(q) /\ UNCHANGED people
  \/ FindAgain(q) /\ UNCHANGED people
  \/ SetPassword(q) /\ UNCHANGED people
  \/ CreateUser(q) /\ UNCHANGED people

WorkerStep ==
  \/ \E w \in Worker : Take(w) /\ UNCHANGED people
  \/ JoinCheck(Joiner) /\ UNCHANGED people
  \/ JoinCreate(Joiner) /\ UNCHANGED people
  \/ JoinDispatch(Joiner) /\ UNCHANGED people
  \/ CreateFounder(Booter) /\ UNCHANGED people
  \/ BootstrapStep(Booter) /\ UNCHANGED people

PeopleNext ==
  \/ \E q \in Request : RequestStep(q) /\ UNCHANGED people
  \/ \E u \in User : Expire(u) /\ UNCHANGED people
  \/ \E q \in Request : AccountStep(q)
  \/ WorkerStep
  \/ \E q \in Request : ChurchStep(q)
  \/ OnboardStep(Onboarder)
  \/ Trouble

PeopleSpec == PeopleInit /\ [][PeopleNext]_<<vars, people>>
-----------------------------------------------------------------------------
(* The church names the minister who names it, and the other way round,    *)
(* unless one of them was written over a change, a request is between its  *)
(* two writes, or it stopped there. Two administrators may appoint and     *)
(* remove at once, and an edit of either document writes its link back.    *)
LinksAgree ==
  \A c \in Present(churches), m \in Present(ministers) :
    (churches[c].minister = m) # (ministers[m].church = c) =>
      \/ {c, m} \intersect broken.split # {}
      \/ \E q \in Request : act[q].step = "second" /\ act[q].order.church = c

(* The church of a completed customer has an administrator, or will: the   *)
(* onboarding or the bootstrap is under way or queued. Otherwise one of    *)
(* them failed after the customer was completed, or a dispatch was lost.   *)
CompletedIsUsable ==
  \A k \in Present(customers) :
    customers[k].status = "COMPLETED" =>
      \/ k \in broken.unfounded
      \/ \E u \in Known : Home(u) = customers[k].tenant /\ assigned[u] # Missing
      \/ \E i \in DOMAIN jobs[Booter] : jobs[Booter][i].church = customers[k].tenant
      \/ \E i \in DOMAIN jobs[Onboarder] : jobs[Onboarder][i].customer = k

===============================================================================
