----------------------------- MODULE FabricClaims -----------------------------
(***************************************************************************)
(* Advisory work claims of one project (fabric-store, claims.rs): the      *)
(* claims rows, the counters that outlive them, and the claim_paths index  *)
(* that overlap detection reads.  Each operation is one immediate SQLite   *)
(* transaction.  A scope stands for its canonical form and for the claim   *)
(* id its counter keeps; a path is its sequence of components.             *)
(*                                                                         *)
(* Exclusion compares wall-clock readings of different moments, so here    *)
(* the clock only goes forward; fences do not need that (FabricTasks).     *)
(***************************************************************************)
EXTENDS Integers, Sequences, FiniteSets

CONSTANTS
    Actors, Tokens,
    Scopes,         \* canonical work scopes: issues, path sets, worktrees
    Components,     \* path components
    Paths,          \* canonical absolute paths, as sequences of components
    PathsOf,        \* WorkScope::paths of each scope, empty for an issue
    Leases,         \* lease lengths a caller may ask for
    MaxTime,        \* end of the modelled time
    MaxGen,         \* the i64 bound of next_generation
    PruneLimit,     \* released claims pruned by one acquisition (100)
    NoActor, NoToken

ASSUME ClaimConstants ==
    /\ NoActor \notin Actors
    /\ NoToken \notin Tokens
    /\ Paths \subseteq Seq(Components)
    /\ PathsOf \in [Scopes -> SUBSET Paths]
    /\ Leases \subseteq Nat \ {0}
    /\ MaxTime \in Nat
    /\ MaxGen \in Nat
    /\ PruneLimit \in Nat

VARIABLES
    now,        \* wall clock
    counters,   \* claim_counters.generation of each scope, 0 before the first
    rows,       \* claims row of each scope, NoRow when there is none
    index,      \* claim_paths: pairs <<scope, path>>
    issued      \* history: every fence returned by acquire_claim

vars == <<now, counters, rows, index, issued>>

Rows == [holder : Actors \cup {NoActor}, token : Tokens \cup {NoToken},
         gen : Nat, expires : Nat, stored : BOOLEAN]

NoRow == [holder |-> NoActor, token |-> NoToken, gen |-> 0, expires |-> 0,
          stored |-> FALSE]

Fences == [scope : Scopes, actor : Actors, token : Tokens, gen : Nat]

Init ==
    /\ now = 0
    /\ counters = [s \in Scopes |-> 0]
    /\ rows = [s \in Scopes |-> NoRow]
    /\ index = {}
    /\ issued = {}

-----------------------------------------------------------------------------
(* Reading the tables *)

\* A row with a holder and an expiry in the future.
Live(s) == rows[s].holder # NoActor /\ rows[s].expires > now

IsAncestor(p, q) == Len(p) <= Len(q) /\ SubSeq(q, 1, Len(p)) = p

(* Deliberately wrong variants of definitions below, each a bug the code could *)
(* have; substituting one must break the property named beside it.             *)
MutClashes(s, x) ==                                    \* NoOverlappingLiveClaims
    /\ Live(x)
    /\ \E p \in PathsOf[s], e \in index : e[1] = x /\ IsAncestor(e[2], p)
MutNextGeneration(s) == rows[s].gen + 1                          \* LeasePerScope

\* overlapping_path: an indexed path of a live claim x lies above, at or below a
\* path of s.
Clashes(s, x) ==
    /\ Live(x)
    /\ \E p \in PathsOf[s], e \in index :
          e[1] = x /\ (IsAncestor(p, e[2]) \/ IsAncestor(e[2], p))

\* by_fence, without the live argument.
Fenced(f) ==
    /\ rows[f.scope].holder = f.actor
    /\ rows[f.scope].gen = f.gen
    /\ rows[f.scope].token = f.token

\* next_generation counts from the counter, which survives the row.
NextGeneration(s) == counters[s] + 1

\* The released rows one acquisition drops: at most PruneLimit of them.
Prunable == {s \in Scopes : rows[s].stored /\ rows[s].holder = NoActor}

PruneChoices ==
    {g \in SUBSET Prunable :
        Cardinality(g) = IF Cardinality(Prunable) < PruneLimit
                           THEN Cardinality(Prunable) ELSE PruneLimit}

-----------------------------------------------------------------------------
(* Operations *)

\* acquire_claim.  A replay by the live holder with its own token returns the
\* same fence and changes nothing.  Pruning comes first: it may drop the very
\* row, and the indexed paths, that the acquisition then writes again.
AcquireClaim(a, t, s, lease) ==
    /\ ~ Live(s)
    /\ \A x \in Scopes : ~ Clashes(s, x)
    /\ counters[s] < MaxGen
    /\ \E gone \in PruneChoices :
          /\ rows' = [x \in Scopes |->
                IF x = s THEN [holder |-> a, token |-> t, gen |-> NextGeneration(s),
                               expires |-> now + lease, stored |-> TRUE]
                ELSE IF x \in gone THEN NoRow ELSE rows[x]]
          /\ index' = {e \in index : e[1] \notin gone} \cup ({s} \X PathsOf[s])
    /\ counters' = [counters EXCEPT ![s] = NextGeneration(s)]
    /\ issued' = issued \cup {[scope |-> s, actor |-> a, token |-> t,
                               gen |-> NextGeneration(s)]}
    /\ UNCHANGED now

\* change_claim with a lease; only a live fence renews, and overlap is not
\* asked again.
RenewClaim(f, lease) ==
    /\ Fenced(f)
    /\ Live(f.scope)
    /\ rows' = [rows EXCEPT ![f.scope].expires = now + lease]
    /\ UNCHANGED <<now, counters, index, issued>>

\* change_claim without one: the generation and the indexed paths stay.
Released(row) == [row EXCEPT !.holder = NoActor, !.token = NoToken, !.expires = 0]

\* An expired holder may still release, as long as nobody took over.
ReleaseClaim(f) ==
    /\ Fenced(f)
    /\ rows' = [rows EXCEPT ![f.scope] = Released(@)]
    /\ UNCHANGED <<now, counters, index, issued>>

Tick ==
    /\ now < MaxTime
    /\ now' = now + 1
    /\ UNCHANGED <<counters, rows, index, issued>>

\* Callers present proofs they were handed, under their own identity.
Presented == {[f EXCEPT !.actor = a] : f \in issued, a \in Actors}

Next ==
    \/ \E a \in Actors, t \in Tokens, s \in Scopes, l \in Leases : AcquireClaim(a, t, s, l)
    \/ \E f \in Presented, l \in Leases : RenewClaim(f, l)
    \/ \E f \in Presented : ReleaseClaim(f)
    \/ Tick

Spec == Init /\ [][Next]_vars

-----------------------------------------------------------------------------
(* Properties *)

\* Rows, counters, index and fences keep their types, and a row has a holder and
\* a token together or neither (its CHECK constraint).
TypeOK ==
    /\ now \in Nat
    /\ counters \in [Scopes -> Nat]
    /\ rows \in [Scopes -> Rows]
    /\ \A s \in Scopes : rows[s].holder = NoActor <=> rows[s].token = NoToken
    /\ index \subseteq Scopes \X Paths
    /\ issued \subseteq Fences

\* "Path and worktree scopes conflict in either prefix direction" (fabric-store
\* README): no two claims of overlapping paths are live at once, through
\* renewals, expiry, pruning of the index and re-acquisition.
NoOverlappingLiveClaims ==
    \A s, x \in Scopes : s # x /\ Live(s) /\ Live(x) =>
        \A p \in PathsOf[s], q \in PathsOf[x] : ~ IsAncestor(p, q) /\ ~ IsAncestor(q, p)

\* "Reacquiring never [...] reuses its generation" (fabric-store README): two
\* grants of a scope never carry the same generation, although pruning removed
\* the row in between.
FencesUnique ==
    \A f, g \in issued : f.scope = g.scope /\ f.gen = g.gen => f = g

\* "Reacquiring never revives an older fence" (fabric-store README): once a
\* fence no longer opens its claim it never does again.
DeadFencesStayDead ==
    [][\A f \in issued : ~ Fenced(f) => ~ Fenced(f)']_vars

\* Each scope is a fenced lease over its counter: the holder changes only with a
\* new generation.
LeaseOf(s) == INSTANCE FencedLease WITH owner <- rows[s].holder, generation <- counters[s]

LeasePerScope ==
    /\ \A s \in Scopes : LeaseOf(s)!Init
    /\ [][\A s \in Scopes : LeaseOf(s)!Next \/ UNCHANGED <<rows[s].holder, counters[s]>>]_vars
=============================================================================
