--------------------------- MODULE MCFabricLanding ---------------------------
(* A small instance of FabricLanding. *)
EXTENDS FabricLanding, TLC

CONSTANTS a1, a2, t1, p1, p2, o1, o2, c0, c1, c2, r1, r2

\* c0 is the common base of c1 and c2, which have diverged.
MCAncestor == {<<c0, c0>>, <<c1, c1>>, <<c2, c2>>, <<c0, c1>>, <<c0, c2>>}

\* The two ways to make a landing hard are explored one at a time: several
\* owners, processes and operations at one server, or one of each while the
\* clone's origin moves between two servers.
OneServer ==
    /\ origin = r1
    /\ remoteRef[r2] = c0 /\ held[r2] = {c0}
    /\ \A o \in OpIds : ops[o].remote # r2

OneOwner ==
    /\ counter <= 1
    /\ Cardinality({p \in Procs : pc[p] # "idle"}) <= 1
    /\ Cardinality({o \in OpIds : ops[o].phase # "none"}) <= 1
    /\ landing.expected \in {c0, NoOid} /\ landing.candidate \in {c1, NoOid}
    /\ \A r \in Remotes : c2 \notin held[r]

Focus == OneServer \/ OneOwner

Symmetry == Permutations(Actors) \cup Permutations(Procs) \cup Permutations(OpIds)

=============================================================================
