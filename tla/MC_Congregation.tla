---------------------------- MODULE MC_Congregation ----------------------------
(* One church with its administrator, two ministers and one customer.        *)
(* Every address is in lower case, but for the one typed with a capital.    *)
EXTENDS Congregation

CONSTANTS
  ana, eva, ivo, a1, b1, B1, d1, secret, other, first, c1, c2, m1, k1

Account(e) == [email |-> e, password |-> secret, active |-> TRUE,
               policy |-> Missing, church |-> c1, member |-> FALSE]

MCStaff == [u \in User |-> IF u = ana THEN Account(a1) ELSE Missing]
MCHeld  == [u \in User |-> IF u = ana THEN {"ADMIN"} ELSE Missing]
MCLower == [e \in Email |-> IF e = B1 THEN b1 ELSE e]
MCBase  == [r \in Role |-> IF r = "ADMIN" THEN {"all"} ELSE {}]
MCBaseRoles == <<"ADMIN", "MEMBER">>
MCApplicant == [k \in Customer |-> Missing]

Open == {"accept", "edit", "create"}
MCNeeded ==
  [op \in {"addMember", "editMember", "assignChurch", "removeMinister",
           "editChurch", "saveMinister"} |-> "all"] @@ [op \in Open |-> Missing]

Logins ==
  [op : {"login"}, email : {a1}, password : {secret}]
  \union [op : {"change"}, email : {a1}, password : {secret}, new : {other}]
  \union [op : {"recover"}, email : {a1}]
  \union [op : {"accept"}, caller : {ana}, policy : Policy]
  \union [op : {"edit"}, caller : {ana}, user : {ana}, email : {b1},
          active : {FALSE}]
  \union [op : {"create"}, caller : {ana}, email : {B1}, password : {other},
          church : {c1}]

Members ==
  [op : {"addMember"}, caller : {ana}, dni : {d1}, email : {B1}, church : {c1}]
  \union [op : {"editMember"}, caller : {ana}, member : Member, dni : {d1},
          email : {a1}]

Pastors ==
  [op : {"assignChurch"}, caller : {ana}, minister : Minister, church : {c1}]
  \union [op : {"removeMinister", "editChurch"}, caller : {ana}, church : {c1}]
  \union [op : {"saveMinister"}, caller : {ana}, minister : Minister]

Customers ==
  [op : {"apply"}, email : {b1}] \union [op : {"complete"}, customer : Customer]

Alike == Permutations(Request) \union Permutations(Minister)

Orders == Logins \union Members \union Pastors \union Customers
===============================================================================
