----------------------------- MODULE MCFabricMail -----------------------------
(* A small instance of FabricMail: two sessions share the mailbox of an actor *)
(* and a third has its own.                                                   *)
EXTENDS FabricMail, TLC

CONSTANTS b1, b2, r1, r2, r3

MCMailboxOf == [r \in Readers |-> IF r = r3 THEN b2 ELSE b1]
Symmetry == Permutations(Messages) \cup Permutations({r1, r2})
=============================================================================
