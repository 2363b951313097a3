-------------------------- MODULE MCAttemptCustody --------------------------
(* Small instances of AttemptCustody: one writer or one reader, and two writers. *)
EXTENDS AttemptCustody, TLC

CONSTANTS w1, w2, r1, p1

MCFleets == {{w1}, {r1}}
MCTwoWriters == {{w1, w2}}

\* The two writers are interchangeable: only safety is checked of them.
MCSymmetry == Permutations({w1, w2})

\* A stop request disables Launch and Admit and enables nothing, so what the
\* processes do after one they can also do without it: for two writers it is
\* left out.
MCNoStopRequest == \A a \in Attempts : ~cancel[a]
=============================================================================
