------------------------------ MODULE Sorting ------------------------------
(***************************************************************************)
(* The numbers of a set in their order, and the items of a sequence that   *)
(* are at the places of a set: what sorted() and the loops that keep some  *)
(* items of a list leave.                                                  *)
(***************************************************************************)
EXTENDS Integers, Sequences, FiniteSets

\* The numbers of a set in their order.
Rank(r, rs) == Cardinality({q \in rs : q < r})
Sorted(rs) == [i \in 1..Cardinality(rs) |->
                 CHOOSE r \in rs : Rank(r, rs) = i - 1]

\* The items of a sequence at some of its places, in their order.
AtPlaces(s, places) ==
    LET order == Sorted(places) IN [k \in DOMAIN order |-> s[order[k]]]
=============================================================================
