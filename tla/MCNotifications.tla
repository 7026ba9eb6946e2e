-------------------------- MODULE MCNotifications --------------------------
(* Members and notifications of one group on a small instance: three       *)
(* users, so that a group can have two owners and a member, and two        *)
(* requests in flight.                                                     *)
EXTENDS Notifications, TLC

CONSTANTS u1, u2, u3, i1, i2, r1, r2

Symmetry == Permutations(Users) \cup Permutations(Invites) \cup Permutations(Requests)
=============================================================================
