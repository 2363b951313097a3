-------------------------- MODULE FabricClaimsProofs --------------------------
(***************************************************************************)
(* Proofs about FabricClaims, for any scopes, paths, actors and leases.    *)
(*                                                                         *)
(* Exclusion is not inductive: an acquisition asks the index, so the       *)
(* invariant says that the index holds every path of every held row        *)
(* (pruning and release must not lose one).  Fences need that a held row   *)
(* carries its counter's generation and that no issued fence is ahead of   *)
(* its counter, whether or not the row was pruned since.                   *)
(***************************************************************************)
EXTENDS FabricClaims, TLAPS

Disjoint(s, x) ==
    \A p \in PathsOf[s], q \in PathsOf[x] : ~ IsAncestor(p, q) /\ ~ IsAncestor(q, p)

\* A held row carries its counter's generation and has its paths indexed.
HeldInv ==
    \A s \in Scopes : rows[s].holder # NoActor =>
        /\ rows[s].gen = counters[s]
        /\ \A p \in PathsOf[s] : <<s, p>> \in index

\* No fence is ahead of its scope's counter.
IssuedInv == \A f \in issued : f.gen <= counters[f.scope]

IInv ==
    /\ TypeOK
    /\ HeldInv
    /\ IssuedInv
    /\ FencesUnique
    /\ NoOverlappingLiveClaims

-----------------------------------------------------------------------------
\* A presented proof is a fence of this project.
LEMMA PresentedFence ==
    ASSUME TypeOK, NEW f \in Presented
    PROVE  f \in Fences
<1>1. PICK g \in issued, a \in Actors : f = [g EXCEPT !.actor = a]
    BY DEF Presented
<1>2. g \in Fences
    BY DEF TypeOK
<1> QED
    BY <1>1, <1>2 DEF Fences

\* The exclusion invariant, pair by pair.
LEMMA Exclusion ==
    NoOverlappingLiveClaims <=>
        \A s, x \in Scopes : s # x /\ Live(s) /\ Live(x) => Disjoint(s, x)
BY DEF NoOverlappingLiveClaims, Disjoint

LEMMA InitIInv ==
    ASSUME Init
    PROVE  IInv
<1> USE ClaimConstants
<1>1. TypeOK
    BY DEF Init, TypeOK, Rows, NoRow
<1>2. \A s \in Scopes : rows[s].holder = NoActor
    BY DEF Init, NoRow
<1> QED
    BY <1>1, <1>2 DEF Init, IInv, HeldInv, IssuedInv, FencesUnique,
       NoOverlappingLiveClaims, Live

-----------------------------------------------------------------------------
(* One lemma per action *)

LEMMA AcquireClaimIInv ==
    ASSUME IInv, NEW a \in Actors, NEW t \in Tokens, NEW s \in Scopes, NEW l \in Leases,
           AcquireClaim(a, t, s, l)
    PROVE  IInv'
<1> USE ClaimConstants
<1> DEFINE g == NextGeneration(s)
           new == [holder |-> a, token |-> t, gen |-> g, expires |-> now + l, stored |-> TRUE]
           fence == [scope |-> s, actor |-> a, token |-> t, gen |-> g]
<1>t. TypeOK /\ HeldInv /\ IssuedInv /\ FencesUnique /\ NoOverlappingLiveClaims
    BY DEF IInv
<1>c. /\ now' = now /\ now \in Nat
      /\ counters' = [counters EXCEPT ![s] = g]
      /\ issued' = issued \cup {fence}
      /\ counters \in [Scopes -> Nat] /\ g = counters[s] + 1 /\ g \in Nat
    BY <1>t DEF AcquireClaim, TypeOK, NextGeneration
<1>p. PICK gone \in PruneChoices :
         /\ rows' = [x \in Scopes |->
               IF x = s THEN new ELSE IF x \in gone THEN NoRow ELSE rows[x]]
         /\ index' = {e \in index : e[1] \notin gone} \cup ({s} \X PathsOf[s])
    BY DEF AcquireClaim, NextGeneration
<1>g. \A x \in gone : x \in Scopes /\ rows[x].holder = NoActor
    BY <1>p DEF PruneChoices, Prunable
<1>s. rows'[s] = new
    BY <1>p
<1>o. \A x \in Scopes : x # s => rows'[x] = rows[x] \/ rows'[x] = NoRow
    BY <1>p
<1>h. \A x \in Scopes : x # s /\ rows'[x].holder # NoActor => rows'[x] = rows[x] /\ x \notin gone
    BY <1>p DEF NoRow
<1>1. TypeOK'
    <2>1. new \in Rows /\ NoRow \in Rows /\ fence \in Fences
        BY <1>c DEF Rows, NoRow, Fences
    <2>2. rows' \in [Scopes -> Rows]
        BY <1>p, <1>t, <2>1 DEF TypeOK
    <2>3. \A x \in Scopes : rows'[x].holder = NoActor <=> rows'[x].token = NoToken
        <3>1. new.holder # NoActor /\ new.token # NoToken
            OBVIOUS
        <3>2. NoRow.holder = NoActor /\ NoRow.token = NoToken
            BY DEF NoRow
        <3> QED
            BY <1>s, <1>o, <1>t, <3>1, <3>2 DEF TypeOK
    <2>4. index' \subseteq Scopes \X Paths
        <3>1. {s} \X PathsOf[s] \subseteq Scopes \X Paths
            OBVIOUS
        <3>2. {e \in index : e[1] \notin gone} \subseteq Scopes \X Paths
            BY <1>t DEF TypeOK
        <3> QED
            BY <1>p, <3>1, <3>2
    <2> QED
        BY <2>1, <2>2, <2>3, <2>4, <1>c, <1>t DEF TypeOK
<1>2. HeldInv'
    <2> SUFFICES ASSUME NEW x \in Scopes, rows'[x].holder # NoActor
                 PROVE  /\ rows'[x].gen = counters'[x]
                        /\ \A p \in PathsOf[x] : <<x, p>> \in index'
        BY DEF HeldInv
    <2>1. CASE x = s
        <3>1. rows'[x].gen = counters'[x]
            BY <2>1, <1>s, <1>c
        <3>2. \A p \in PathsOf[x] : <<x, p>> \in index'
            BY <2>1, <1>p
        <3> QED
            BY <3>1, <3>2
    <2>2. CASE x # s
        <3>1. rows'[x] = rows[x] /\ x \notin gone
            BY <2>2, <1>h
        <3>2. rows[x].gen = counters[x] /\ \A p \in PathsOf[x] : <<x, p>> \in index
            BY <3>1, <1>t DEF HeldInv
        <3>3. \A p \in PathsOf[x] : <<x, p>> \in index'
            BY <3>1, <3>2, <1>p
        <3> QED
            BY <2>2, <3>1, <3>2, <3>3, <1>c
    <2> QED
        BY <2>1, <2>2
<1>3. IssuedInv'
    <2>1. \A f \in issued : f.scope \in Scopes /\ f.gen \in Nat
        BY <1>t DEF TypeOK, Fences
    <2>2. \A x \in Scopes : counters[x] <= counters'[x]
        BY <1>c
    <2>3. fence.gen <= counters'[fence.scope]
        BY <1>c
    <2>4. \A f \in issued : f.gen <= counters'[f.scope]
        BY <2>1, <2>2, <1>c, <1>t DEF IssuedInv
    <2> QED
        BY <2>3, <2>4, <1>c DEF IssuedInv
<1>4. FencesUnique'
    <2>1. \A f \in issued : f.gen \in Nat
        BY <1>t DEF TypeOK, Fences
    <2>2. \A f \in issued : f.scope = s => f.gen # g
        BY <2>1, <1>t, <1>c DEF IssuedInv
    <2>3. fence.scope = s /\ fence.gen = g
        OBVIOUS
    <2> QED
        BY <2>2, <2>3, <1>t, <1>c DEF FencesUnique
<1>5. NoOverlappingLiveClaims'
    <2>1. \A x \in Scopes : x # s /\ Live(x)' => Live(x) /\ rows[x].holder # NoActor
        BY <1>h, <1>c DEF Live
    <2>2. \A x \in Scopes : x # s /\ Live(x)' => Disjoint(s, x) /\ Disjoint(x, s)
        <3> SUFFICES ASSUME NEW x \in Scopes, x # s, Live(x)',
                            NEW p \in PathsOf[s], NEW q \in PathsOf[x]
                     PROVE  ~ IsAncestor(p, q) /\ ~ IsAncestor(q, p)
            BY DEF Disjoint
        <3>1. <<x, q>> \in index
            BY <2>1, <1>t DEF HeldInv
        <3>2. ~ Clashes(s, x) /\ Live(x)
            BY <2>1 DEF AcquireClaim
        <3> QED
            BY <3>1, <3>2 DEF Clashes
    <2>3. \A x, y \in Scopes : x # y /\ Live(x) /\ Live(y) => Disjoint(x, y)
        BY <1>t, Exclusion
    <2>4. \A x, y \in Scopes : x # y /\ Live(x)' /\ Live(y)' => Disjoint(x, y)
        BY <2>1, <2>2, <2>3
    <2> QED
        BY <2>4 DEF NoOverlappingLiveClaims, Disjoint, IsAncestor
<1> QED
    BY <1>1, <1>2, <1>3, <1>4, <1>5 DEF IInv

\* Renewing, releasing and waiting only shrink or prolong what is live.
LEMMA ShrinkExclusion ==
    ASSUME NoOverlappingLiveClaims, \A s \in Scopes : Live(s)' => Live(s)
    PROVE  NoOverlappingLiveClaims'
BY DEF NoOverlappingLiveClaims, IsAncestor

LEMMA RenewClaimIInv ==
    ASSUME IInv, NEW f \in Presented, NEW l \in Leases, RenewClaim(f, l)
    PROVE  IInv'
<1> USE ClaimConstants
<1>t. TypeOK /\ HeldInv /\ IssuedInv /\ FencesUnique /\ NoOverlappingLiveClaims
    BY DEF IInv
<1>f. f.scope \in Scopes
    BY <1>t, PresentedFence DEF Fences
<1>u. UNCHANGED <<now, counters, index, issued>>
    BY DEF RenewClaim
<1>r. /\ now + l \in Nat
      /\ rows \in [Scopes -> Rows]
      /\ rows' = [rows EXCEPT ![f.scope].expires = now + l]
    BY <1>t DEF RenewClaim, TypeOK
<1>e. \A s \in Scopes :
         /\ rows'[s].holder = rows[s].holder /\ rows'[s].token = rows[s].token
         /\ rows'[s].gen = rows[s].gen
         /\ s # f.scope => rows'[s] = rows[s]
    BY <1>r, <1>f DEF Rows
<1>1. TypeOK'
    <2>1. rows[f.scope] \in Rows
        BY <1>r, <1>f
    <2>2. [rows[f.scope] EXCEPT !.expires = now + l] \in Rows
        BY <1>r, <2>1 DEF Rows
    <2>3. rows' \in [Scopes -> Rows]
        BY <1>r, <1>f, <2>2
    <2> QED
        BY <2>3, <1>e, <1>t, <1>u DEF TypeOK
<1>2. HeldInv' /\ IssuedInv' /\ FencesUnique'
    BY <1>e, <1>t, <1>u DEF HeldInv, IssuedInv, FencesUnique
<1>3. \A s \in Scopes : Live(s)' => Live(s)
    BY <1>e, <1>u DEF Live, RenewClaim
<1> QED
    BY <1>1, <1>2, <1>3, <1>t, ShrinkExclusion DEF IInv

LEMMA ReleaseClaimIInv ==
    ASSUME IInv, NEW f \in Presented, ReleaseClaim(f)
    PROVE  IInv'
<1> USE ClaimConstants
<1>t. TypeOK /\ HeldInv /\ IssuedInv /\ FencesUnique /\ NoOverlappingLiveClaims
    BY DEF IInv
<1>f. f.scope \in Scopes
    BY <1>t, PresentedFence DEF Fences
<1>u. UNCHANGED <<now, counters, index, issued>>
    BY DEF ReleaseClaim
<1>r. /\ rows \in [Scopes -> Rows]
      /\ rows' = [rows EXCEPT ![f.scope] = Released(rows[f.scope])]
    BY <1>t DEF ReleaseClaim, TypeOK
<1>n. /\ rows'[f.scope] \in Rows
      /\ rows'[f.scope].holder = NoActor /\ rows'[f.scope].token = NoToken
    <2>1. rows[f.scope] \in Rows /\ rows'[f.scope] = Released(rows[f.scope])
        BY <1>r, <1>f
    <2>2. ASSUME NEW r \in Rows
          PROVE  Released(r) \in Rows /\ Released(r).holder = NoActor /\ Released(r).token = NoToken
        BY DEF Released, Rows
    <2> QED
        BY <2>1, <2>2
<1>e. \A s \in Scopes : s # f.scope => rows'[s] = rows[s]
    BY <1>r
<1>1. TypeOK'
    <2>1. rows' \in [Scopes -> Rows]
        BY <1>r, <1>n
    <2> QED
        BY <2>1, <1>n, <1>e, <1>t, <1>u DEF TypeOK
<1>2. HeldInv' /\ IssuedInv' /\ FencesUnique'
    BY <1>n, <1>e, <1>t, <1>u DEF HeldInv, IssuedInv, FencesUnique
<1>3. \A s \in Scopes : Live(s)' => Live(s)
    BY <1>n, <1>e, <1>u DEF Live
<1> QED
    BY <1>1, <1>2, <1>3, <1>t, ShrinkExclusion DEF IInv

LEMMA TickIInv ==
    ASSUME IInv, Tick
    PROVE  IInv'
<1>t. TypeOK /\ HeldInv /\ IssuedInv /\ FencesUnique /\ NoOverlappingLiveClaims
    BY DEF IInv
<1>1. TypeOK'
    BY <1>t DEF TypeOK, Tick
<1>2. HeldInv' /\ IssuedInv' /\ FencesUnique'
    BY <1>t DEF HeldInv, IssuedInv, FencesUnique, Tick
<1>3. \A s \in Scopes : Live(s)' => Live(s)
    <2>1. now' = now + 1 /\ rows' = rows /\ now \in Nat
        BY <1>t DEF Tick, TypeOK
    <2>2. \A s \in Scopes : rows[s].expires \in Nat
        BY <1>t DEF TypeOK, Rows
    <2> QED
        BY <2>1, <2>2 DEF Live
<1> QED
    BY <1>1, <1>2, <1>3, <1>t, ShrinkExclusion DEF IInv

LEMMA NextIInv ==
    ASSUME IInv, [Next]_vars
    PROVE  IInv'
<1>1. CASE UNCHANGED vars
    BY <1>1 DEF vars, IInv, TypeOK, HeldInv, IssuedInv, FencesUnique,
       NoOverlappingLiveClaims, Live
<1>2. CASE Next
    BY <1>2, AcquireClaimIInv, RenewClaimIInv, ReleaseClaimIInv, TickIInv DEF Next
<1> QED
    BY <1>1, <1>2

LEMMA Inductive == Spec => []IInv
BY InitIInv, NextIInv, PTL DEF Spec

-----------------------------------------------------------------------------
(* What a step does to the rows *)

\* Every step leaves a scope's holder and counter alone, grants the scope, or
\* frees it; and it opens a claim only to a fence that was open or is new.
LEMMA LeaseStep ==
    ASSUME IInv, [Next]_vars, NEW s \in Scopes
    PROVE  LeaseOf(s)!Next \/ UNCHANGED <<rows[s].holder, counters[s]>>
<1> USE ClaimConstants
<1>t. TypeOK
    BY DEF IInv
<1>1. CASE UNCHANGED vars
    BY <1>1 DEF vars
<1>2. CASE Tick
    BY <1>2 DEF Tick
<1>3. ASSUME NEW a \in Actors, NEW t \in Tokens, NEW x \in Scopes, NEW l \in Leases,
             AcquireClaim(a, t, x, l)
      PROVE  LeaseOf(s)!Next \/ UNCHANGED <<rows[s].holder, counters[s]>>
    <2>1. PICK gone \in PruneChoices :
             rows' = [y \in Scopes |->
                IF y = x THEN [holder |-> a, token |-> t, gen |-> NextGeneration(x),
                               expires |-> now + l, stored |-> TRUE]
                ELSE IF y \in gone THEN NoRow ELSE rows[y]]
        BY <1>3 DEF AcquireClaim
    <2>2. \A y \in gone : rows[y].holder = NoActor
        BY DEF PruneChoices, Prunable
    <2>3. counters' = [counters EXCEPT ![x] = counters[x] + 1] /\ counters \in [Scopes -> Nat]
        BY <1>3, <1>t DEF AcquireClaim, NextGeneration, TypeOK
    <2>4. CASE s = x
        <3>1. rows'[s].holder = a /\ counters'[s] = counters[s] + 1
            BY <2>1, <2>3, <2>4
        <3> QED
            BY <3>1 DEF LeaseOf!Next, LeaseOf!Grant
    <2>5. CASE s # x
        BY <2>1, <2>2, <2>3, <2>5 DEF NoRow
    <2> QED
        BY <2>4, <2>5
<1>4. ASSUME NEW f \in Presented, NEW l \in Leases, RenewClaim(f, l)
      PROVE  LeaseOf(s)!Next \/ UNCHANGED <<rows[s].holder, counters[s]>>
    <2>1. rows \in [Scopes -> Rows] /\ f.scope \in Scopes
        BY <1>t, PresentedFence DEF TypeOK, Fences
    <2> QED
        BY <1>4, <2>1 DEF RenewClaim, Rows
<1>5. ASSUME NEW f \in Presented, ReleaseClaim(f)
      PROVE  LeaseOf(s)!Next \/ UNCHANGED <<rows[s].holder, counters[s]>>
    <2>1. rows \in [Scopes -> Rows] /\ f.scope \in Scopes /\ f.actor \in Actors
        BY <1>t, PresentedFence DEF TypeOK, Fences
    <2>2. counters' = counters /\ rows' = [rows EXCEPT ![f.scope] = Released(rows[f.scope])]
        BY <1>5 DEF ReleaseClaim
    <2>3. CASE s = f.scope
        <3>1. rows[s].holder # NoActor
            BY <1>5, <2>1, <2>3 DEF ReleaseClaim, Fenced
        <3>2. rows'[s].holder = NoActor
            BY <2>1, <2>2, <2>3 DEF Released, Rows
        <3> QED
            BY <2>2, <3>1, <3>2 DEF LeaseOf!Next, LeaseOf!GiveUp
    <2>4. CASE s # f.scope
        BY <2>1, <2>2, <2>4
    <2> QED
        BY <2>3, <2>4
<1> QED
    BY <1>1, <1>2, <1>3, <1>4, <1>5 DEF Next

LEMMA DeadStep ==
    ASSUME IInv, [Next]_vars, NEW f \in issued, ~ Fenced(f)
    PROVE  ~ Fenced(f)'
<1> USE ClaimConstants
<1>t. TypeOK /\ IssuedInv
    BY DEF IInv
<1>f. f \in Fences /\ f.scope \in Scopes /\ f.actor \in Actors /\ f.gen \in Nat
      /\ f.gen <= counters[f.scope]
    BY <1>t DEF TypeOK, Fences, IssuedInv
<1>1. CASE UNCHANGED vars
    BY <1>1 DEF vars, Fenced
<1>2. CASE Tick
    BY <1>2 DEF Tick, Fenced
<1>3. ASSUME NEW a \in Actors, NEW t \in Tokens, NEW s \in Scopes, NEW l \in Leases,
             AcquireClaim(a, t, s, l)
      PROVE  ~ Fenced(f)'
    <2>1. PICK gone \in PruneChoices :
             rows' = [y \in Scopes |->
                IF y = s THEN [holder |-> a, token |-> t, gen |-> NextGeneration(s),
                               expires |-> now + l, stored |-> TRUE]
                ELSE IF y \in gone THEN NoRow ELSE rows[y]]
        BY <1>3 DEF AcquireClaim
    <2>2. CASE f.scope = s
        <3>1. rows'[f.scope].gen = counters[s] + 1
            BY <2>1, <2>2 DEF NextGeneration
        <3>2. counters[s] \in Nat
            BY <1>t DEF TypeOK
        <3>3. f.gen # counters[s] + 1
            BY <3>2, <1>f, <2>2
        <3> QED
            BY <3>1, <3>3 DEF Fenced
    <2>3. CASE f.scope # s
        BY <2>1, <2>3, <1>f DEF NoRow, Fenced
    <2> QED
        BY <2>2, <2>3
<1>4. ASSUME NEW p \in Presented, NEW l \in Leases, RenewClaim(p, l)
      PROVE  ~ Fenced(f)'
    <2>1. rows \in [Scopes -> Rows] /\ p.scope \in Scopes
        BY <1>t, PresentedFence DEF TypeOK, Fences
    <2>2. /\ rows'[f.scope].holder = rows[f.scope].holder
          /\ rows'[f.scope].gen = rows[f.scope].gen
          /\ rows'[f.scope].token = rows[f.scope].token
        BY <1>4, <1>f, <2>1 DEF RenewClaim, Rows
    <2> QED
        BY <2>2 DEF Fenced
<1>5. ASSUME NEW p \in Presented, ReleaseClaim(p)
      PROVE  ~ Fenced(f)'
    <2>1. rows \in [Scopes -> Rows] /\ p.scope \in Scopes
        BY <1>t, PresentedFence DEF TypeOK, Fences
    <2>2. CASE f.scope = p.scope
        <3>1. rows'[f.scope].holder = NoActor
            BY <1>5, <2>1, <2>2 DEF ReleaseClaim, Released, Rows
        <3> QED
            BY <3>1, <1>f DEF Fenced
    <2>3. CASE f.scope # p.scope
        BY <1>5, <2>1, <2>3 DEF ReleaseClaim, Fenced
    <2> QED
        BY <2>2, <2>3
<1> QED
    BY <1>1, <1>2, <1>3, <1>4, <1>5 DEF Next

-----------------------------------------------------------------------------
(* Theorems *)

\* Rows keep the shape the schema's CHECK constraint demands.
THEOREM TypeCorrect == Spec => []TypeOK
BY Inductive, PTL DEF IInv

\* No two claims of overlapping paths are ever live at once, however claims
\* expire, are renewed, released, pruned and acquired again.
THEOREM ClaimsExclude == Spec => []NoOverlappingLiveClaims
BY Inductive, PTL DEF IInv

\* No two grants of a scope share a generation, pruned rows included.
THEOREM GenerationsUnique == Spec => []FencesUnique
BY Inductive, PTL DEF IInv

\* A fence that stopped opening its claim never opens it again.
THEOREM NoRevival == Spec => DeadFencesStayDead
<1>1. IInv /\ [Next]_vars => [\A f \in issued : ~ Fenced(f) => ~ Fenced(f)']_vars
    BY DeadStep
<1> QED
    BY <1>1, Inductive, PTL DEF Spec, DeadFencesStayDead

\* Every scope implements the abstract fenced lease over its counter.
THEOREM ImplementsLease == Spec => LeasePerScope
<1>1. Init => \A s \in Scopes : LeaseOf(s)!Init
    BY DEF Init, NoRow, LeaseOf!Init
<1>2. IInv /\ [Next]_vars =>
        [\A s \in Scopes : LeaseOf(s)!Next \/ UNCHANGED <<rows[s].holder, counters[s]>>]_vars
    BY LeaseStep
<1> QED
    BY <1>1, <1>2, Inductive, PTL DEF Spec, LeasePerScope
=============================================================================
