----------------------------- MODULE MCUploads -----------------------------
(* Uploads on a small instance: three uploads for a group, a user and a      *)
(* settlement, and a clock that ticks once.                                  *)
EXTENDS Uploads

CONSTANTS u1, u2, u3, g, m, s
=============================================================================
