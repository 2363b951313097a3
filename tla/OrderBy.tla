------------------------------- MODULE OrderBy -------------------------------
(***************************************************************************)
(* What the stores' queries ask of SQLite: ORDER BY a number, with or       *)
(* without LIMIT.                                                           *)
(***************************************************************************)
EXTENDS Integers, FiniteSets

\* How many numbers of a set come before one.
Rank(a, set) == Cardinality({b \in set : b < a})

\* ORDER BY ... LIMIT n: the n smallest numbers of a set.
FirstOf(set, n) == {a \in set : Rank(a, set) < n}

\* ORDER BY: the numbers of a set in ascending order.
Ascending(set) ==
    [k \in 1 .. Cardinality(set) |-> CHOOSE a \in set : Rank(a, set) = k - 1]
=============================================================================
