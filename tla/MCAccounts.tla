----------------------------- MODULE MCAccounts -----------------------------
(* Accounts on a small instance: two emails and hence at most two users,   *)
(* two identities of one provider and one of another.                      *)
EXTENDS Accounts, TLC

CONSTANTS u1, u2, e1, e2, n1, n2, g1, g2, m1, r1, r2

ProviderOf == [i \in Identities |-> IF i = m1 THEN "MEZON" ELSE "GOOGLE"]

Symmetry ==
    Permutations(Users) \cup Permutations(Emails) \cup Permutations(Names)
      \cup Permutations(Requests) \cup Permutations({g1, g2})
=============================================================================
