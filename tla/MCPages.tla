------------------------------ MODULE MCPages ------------------------------
(* Pages on a small instance: up to four rows, two on a page, so that a      *)
(* place between two pages is passed and rows come, go and move on either    *)
(* side of it, and two moves.                                                *)
EXTENDS Pages
=============================================================================
