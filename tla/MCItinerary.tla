---------------------------- MODULE MCItinerary ----------------------------
(* Itinerary on a small instance: two days of three hours.                  *)
EXTENDS Itinerary, TLC

CONSTANTS i1, i2, i3, i4, r1, r2

Does(d, k, s, e) == [day |-> d, order |-> k, start |-> s, end |-> e]

\* A full first day, one activity on each day; and answers that are refused:
\* none, overlapping, numbered against time, beyond the last day, a number
\* twice, a number missing, a time range that is none, too many for a block.
SomeAnswers ==
    {{Does(1, 1, 0, 1), Does(1, 2, 1, 2)},
     {Does(1, 1, 1, 2), Does(2, 1, 0, 1)},
     {},
     {Does(1, 1, 0, 2), Does(1, 2, 1, 2)},
     {Does(1, 1, 1, 2), Does(1, 2, 0, 1)},
     {Does(3, 1, 0, 1)},
     {Does(1, 1, 0, 1), Does(1, 1, 1, 2)},
     {Does(1, 2, 0, 1)},
     {Does(1, 1, 1, 1)},
     {Does(1, 3, 0, 1)}}

Symmetry == Permutations(Ids) \cup Permutations(Requests)
=============================================================================
