------------------------------ MODULE Ranking ------------------------------
(***************************************************************************)
(* Entries of a sequence picked out and put in order.  A place of an       *)
(* element is counted, so that what a filter or a stable sort gives is     *)
(* said without a recursion.                                               *)
(***************************************************************************)
EXTENDS Integers, FiniteSets

\* How many elements of S come before a in an order, a set of pairs.
Below(S, order, a) == Cardinality({b \in S : <<b, a>> \in order})

\* The n-th element of S.
Nth(S, order, n) == CHOOSE a \in S : Below(S, order, a) = n - 1

\* The entries of s at the places S, in that order of the places.
Arranged(s, S, order) == [n \in 1..Cardinality(S) |-> s[Nth(S, order, n)]]

\* The order that the places have in s.
InPlace(S) == {p \in S \X S : p[1] < p[2]}
Filtered(s, S) == Arranged(s, S, InPlace(S))
=============================================================================
