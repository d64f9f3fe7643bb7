------------------------------- MODULE MCUsers ------------------------------
(* Small instances of Users: an administrator and a customer, two more addresses. *)
EXTENDS Users, TLC

CONSTANTS admin, customer, adminMail, customerMail, newMail

TwoAccounts == {admin, customer}
TheirRows ==
  (admin :> [email |-> adminMail, role |-> "ADMIN", active |-> TRUE])
  @@ (customer :> [email |-> customerMail, role |-> "USER", active |-> TRUE])

Mails == {adminMail, customerMail, newMail}

UpdateOf(target, email, role, active) ==
  [op |-> "update", target |-> target, email |-> email, role |-> role, active |-> active]
Refund(secondFactor) ==
  [op |-> "guarded", permission |-> "payments:refund", secondFactor |-> secondFactor]

(* Registrations and changes of address that compete for one address, logins, a
   demotion, deactivations, a profile update by its owner, deletions, refunds. *)
ChosenJobs ==
  {[op |-> "register", email |-> newMail, role |-> "USER"],
   [op |-> "login", email |-> adminMail, right |-> TRUE],
   [op |-> "login", email |-> newMail, right |-> TRUE],
   [op |-> "login", email |-> customerMail, right |-> FALSE],
   UpdateOf(admin, Keep, "USER", Keep),
   UpdateOf(admin, Keep, Keep, FALSE),
   UpdateOf(customer, newMail, Keep, Keep),
   UpdateOf(customer, Keep, "ADMIN", FALSE),
   [op |-> "delete", target |-> customer],
   [op |-> "guarded", permission |-> "payments:create", secondFactor |-> FALSE],
   Refund(FALSE), Refund(TRUE)}

Alike == Permutations(Requests)
=============================================================================
