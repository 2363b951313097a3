----------------------------- MODULE FencedLease -----------------------------
(***************************************************************************)
(* What the fabric store promises of anything held under a fence (a task,  *)
(* a work scope, a landing ref), without clocks, tokens, rows or retries:  *)
(* ownership passes to somebody only with a generation never used before,  *)
(* and ends without touching the generation.                               *)
(***************************************************************************)
EXTENDS Naturals

CONSTANTS Actors, NoActor

VARIABLES owner, generation

Init == owner = NoActor /\ generation = 0

\* A free resource, or one whose lease has lapsed, is granted to a.
Grant(a) == owner' = a /\ generation' = generation + 1

\* The owner gives the resource back.
GiveUp == owner # NoActor /\ owner' = NoActor /\ UNCHANGED generation

Next == GiveUp \/ \E a \in Actors : Grant(a)

Spec == Init /\ [][Next]_<<owner, generation>>
=============================================================================
