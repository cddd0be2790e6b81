----------------------------- MODULE Selections ------------------------------
(***************************************************************************)
(* Sets of numbers in ascending order, and the entries of a list at a set    *)
(* of places, in the order they had: what a comprehension with a condition,  *)
(* an index array or a sort of distinct numbers returns.                    *)
(***************************************************************************)
EXTENDS Integers, Sequences, FiniteSets

Below(S, x) == {y \in S : y < x}

(* The j-th smallest of a finite set of numbers. *)
Nth(S, j) == CHOOSE x \in S : Cardinality(Below(S, x)) = j - 1

InOrder(S) == [j \in 1..Cardinality(S) |-> Nth(S, j)]

(* The entries of s at the places S. *)
Selection(s, S) == [j \in 1..Cardinality(S) |-> s[Nth(S, j)]]

(* The entries of s that are in T. *)
Among(s, T) == Selection(s, {i \in DOMAIN s : s[i] \in T})
==============================================================================
