----------------------------- MODULE MCAccounts -----------------------------
(* An instance of Accounts for TLC.                                        *)
EXTENDS Accounts, TLC

CONSTANTS r1, r2, r3, u1, u2, a, b, e1, e2, e3, p

(* A role is created, renamed, emptied and deleted, and another created    *)
(* under its name; users exchange their emails, get and lose the role, and *)
(* one gives a new email to the other, who edits the role.                 *)
RoleMenu ==
  {Request("role.create", None, a, {p}, u1), Request("role.update", r2, b, {}, u1),
   Request("role.delete", r2, None, {}, u1)}
UserMenu ==
  {Request("user.create", None, e2, {a}, u1),
   Request("user.update", u1, e3, {a}, u2), Request("user.update", u1, e2, {}, u1),
   Request("user.update", u2, e1, {}, u2),
   Request("user.delete", u1, None, {}, u2), Request("user.delete", u2, None, {}, u1)}
Menu == RoleMenu \cup UserMenu

Symmetry == Permutations(Sessions)
=============================================================================
