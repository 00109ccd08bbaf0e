------------------------------ MODULE MC_Access -------------------------------
(* Two users of one church, its administrator and a member. A permission    *)
(* to change the roles, and one to read; MEMBER may only read, at first.    *)
EXTENDS Access

CONSTANTS ana, rui, a1, r1, pass, c1, secretary, change, read

Account(e) == [email |-> e, password |-> pass, active |-> TRUE,
               policy |-> Missing, church |-> c1, member |-> FALSE]

MCStaff == (ana :> Account(a1)) @@ (rui :> Account(r1))
MCHeld  == (ana :> {"ADMIN", "MEMBER"}) @@ (rui :> {"MEMBER"})
MCLower == [e \in Email |-> e]
MCBase  == ("ADMIN" :> {change, read}) @@ ("MEMBER" :> {read}) @@
           (secretary :> {})
MCBaseRoles == <<"ADMIN", "MEMBER">>
MCNeeded == [op \in {"assign", "permit", "addRole", "bootstrap"} |-> change] @@
            [op \in {"look"} |-> read] @@
            [op \in {"accept", "edit", "create"} |-> Missing]

Alike == Permutations(Request)

Orders ==
  [op : {"look"}, caller : {rui}]
  \union [op : {"assign"}, caller : {ana}, user : {rui},
          roles : {{"ADMIN"}, {"MEMBER", secretary}}]
  \union [op : {"permit"}, caller : User, role : {"MEMBER"},
          permissions : {{}, {change}}]
  \union [op : {"addRole"}, caller : {ana}, name : Name]
  \union [op : {"bootstrap"}, caller : {ana}, user : {ana}, roles : {{"ADMIN"}}]
===============================================================================
