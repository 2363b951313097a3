--------------------------- MODULE MCFabricClaims ---------------------------
(* A small instance of FabricClaims for TLC. *)
EXTENDS FabricClaims, TLC

CONSTANTS tree, pair, leaf, a, b, c

\* tree is above the first path of pair, leaf below its second: only tree and leaf can
\* be held together.
MCPathsOf ==
    (tree :> {<<a>>}) @@ (pair :> {<<a, b>>, <<c>>}) @@ (leaf :> {<<c, b>>})

MCPaths == {<<a>>, <<a, b>>, <<c>>, <<c, b>>}

Symmetry == Permutations(Actors)
=============================================================================
