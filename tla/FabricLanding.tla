---------------------------- MODULE FabricLanding ----------------------------
(***************************************************************************)
(* The fenced landing of one branch ref of one project: the durable        *)
(* landing row and its push operations (fabric-store, landing.rs and       *)
(* claims.rs), the per-ref OS lock, and the processes that drive a Git     *)
(* push or a reconciliation under that lock (fabric-runtime,               *)
(* git_transport.rs).  Git and the remote are the environment.             *)
(*                                                                         *)
(* Every store mutation is one immediate SQLite transaction, hence one     *)
(* atomic step; a process may die between any two steps.  The wall clock   *)
(* is SystemTime::now(), which may be stepped either way, so it moves      *)
(* freely.  The claim id is left out: claim_counters keeps one id per ref  *)
(* for ever, and this module is about one ref.                             *)
(***************************************************************************)
EXTENDS Integers, FiniteSets

CONSTANTS
    Actors,         \* inboxes that may hold the landing
    Tokens,         \* secret fence tokens
    Procs,          \* operating-system processes running `fabric landing'
    OpIds,          \* push operation ids
    Oids,           \* Git commits
    Remotes,        \* resolved origin URLs
    Ancestor,       \* pairs <<x, y>> with x an ancestor of y, or y itself
    Leases,         \* lease lengths a caller may ask for
    Times,          \* values of the wall clock
    MaxGen,         \* the i64 bound of next_generation
    NoActor, NoToken, NoOid, NoOp, NoProc, NoRemote

ASSUME AbsentAssumption ==
    /\ NoActor \notin Actors
    /\ NoToken \notin Tokens
    /\ NoOid \notin Oids
    /\ NoOp \notin OpIds
    /\ NoProc \notin Procs
    /\ NoRemote \notin Remotes

ASSUME TimeAssumption ==
    /\ Times \subseteq Nat
    /\ Leases \subseteq Nat \ {0}
    /\ MaxGen \in Nat

ASSUME AncestorAssumption == Ancestor \subseteq Oids \X Oids

VARIABLES
    now,        \* wall clock
    counter,    \* claim_counters.generation of this ref
    landing,    \* the claims row of kind 'landing', with its record
    ops,        \* the operations table: one push operation per id
    issued,     \* fences handed out by acquire_landing
    lock,       \* process holding the OS lock of this ref, or NoProc
    pc, req,    \* control point and locals of each process
    origin,     \* the clone's configured origin URL
    remoteRef,  \* what the ref points to at each remote, NoOid if absent
    orphans,    \* pushes whose local process is gone but which may still land
    held        \* history: commits each remote's ref has ever pointed to

store  == <<counter, landing, ops, issued>>
local  == <<lock, pc, req>>
remote == <<remoteRef, orphans, held>>
vars   == <<now, store, local, origin, remote>>

Phases == {"prepared", "pushing", "unknown", "committed", "retryable", "conflict"}

Fences == [actor : Actors, gen : Nat, token : Tokens]

\* What PushRequest freezes, with the phase and observation of PushOperation.
PushOperations ==
    [phase : Phases \cup {"none"}, actor : Actors \cup {NoActor}, gen : Nat,
     expected : Oids \cup {NoOid}, candidate : Oids \cup {NoOid},
     remote : Remotes \cup {NoRemote}, observed : Oids \cup {NoOid}]

NoOperation ==
    [phase |-> "none", actor |-> NoActor, gen |-> 0, expected |-> NoOid,
     candidate |-> NoOid, remote |-> NoRemote, observed |-> NoOid]

Landings ==
    [holder : Actors \cup {NoActor}, token : Tokens \cup {NoToken},
     expires : Nat, gen : Nat, expected : Oids \cup {NoOid},
     candidate : Oids \cup {NoOid}, operation : OpIds \cup {NoOp}]

\* No claims row: never acquired, or pruned after its release.
NoLanding ==
    [holder |-> NoActor, token |-> NoToken, expires |-> 0, gen |-> 0,
     expected |-> NoOid, candidate |-> NoOid, operation |-> NoOp]

PCs == {"idle", "check", "prepare", "observe", "begin", "spawn", "git", "served",
        "reconcile", "record"}

NoFence == [actor |-> NoActor, gen |-> 0, token |-> NoToken]

Requests ==
    [fence : Fences \cup {NoFence}, op : OpIds \cup {NoOp},
     expected : Oids \cup {NoOid}, candidate : Oids \cup {NoOid},
     remote : Remotes \cup {NoRemote}, seen : Oids \cup {NoOid}]

NoRequest ==
    [fence |-> NoFence, op |-> NoOp, expected |-> NoOid, candidate |-> NoOid,
     remote |-> NoRemote, seen |-> NoOid]

Init ==
    /\ now \in Times
    /\ counter = 0
    /\ landing = NoLanding
    /\ ops = [o \in OpIds |-> NoOperation]
    /\ issued = {}
    /\ lock = NoProc
    /\ pc = [p \in Procs |-> "idle"]
    /\ req = [p \in Procs |-> NoRequest]
    /\ origin \in Remotes
    /\ remoteRef \in [Remotes -> Oids]
    /\ orphans = {}
    /\ held = [r \in Remotes |-> {remoteRef[r]}]

-----------------------------------------------------------------------------
(* Deliberately wrong variants of definitions below, each a bug the code could *)
(* have; substituting one must break the property named beside it.             *)

MutNoUnresolvedPush ==                                     \* UnresolvedPinsOwner
    ~ \E o \in OpIds : ops[o].phase = "pushing"
MutLockFree == TRUE                                           \* PushUnderCustody
MutAskedRemote(op) == origin                              \* CommittedWasOnRemote
MutIsFastForward == landing.expected # landing.candidate     \* PushesFastForward

-----------------------------------------------------------------------------
(* Fences and the OS lock *)

\* lock_landing takes an exclusive file lock per (project, ref).
LockFree == lock = NoProc


\* by_fence: the exact holder, generation and token ...
Fenced(f) ==
    /\ landing.holder = f.actor
    /\ landing.gen = f.gen
    /\ landing.token = f.token

\* ... unexpired, for the calls that pass live = Some(at).
Live == landing.expires > now

FencedLive(f) == Fenced(f) /\ Live

Unresolved(o) == ops[o].phase \in {"pushing", "unknown"}

\* unresolved() = None for this ref's claim.
NoUnresolvedPush == ~ \E o \in OpIds : Unresolved(o)

\* A caller presents a proof it was handed; the actor is its own identity.
Presented == {[f EXCEPT !.actor = a] : f \in issued, a \in Actors}

-----------------------------------------------------------------------------
(* Store mutations made by `fabric landing acquire | renew | release'.  Each *)
(* takes the OS lock, runs one transaction and drops the lock.               *)

\* acquire_landing; a live replay by the same actor and token changes nothing.
AcquireLanding(a, t, expected, candidate, lease) ==
    /\ LockFree
    /\ expected # candidate
    /\ NoUnresolvedPush
    /\ landing.holder = NoActor \/ ~ Live
    /\ counter < MaxGen
    /\ counter' = counter + 1
    /\ landing' = [holder |-> a, token |-> t, expires |-> now + lease,
                   gen |-> counter + 1, expected |-> expected,
                   candidate |-> candidate, operation |-> NoOp]
    /\ issued' = issued \cup {[actor |-> a, gen |-> counter + 1, token |-> t]}
    /\ UNCHANGED <<now, ops, local, origin, remote>>

RenewLanding(f, lease) ==
    /\ LockFree
    /\ FencedLive(f)
    /\ landing' = [landing EXCEPT !.expires = now + lease]
    /\ UNCHANGED <<now, counter, ops, issued, local, origin, remote>>

\* change_landing without a lease clears holder, token and expiry together.
Released == [landing EXCEPT !.holder = NoActor, !.token = NoToken, !.expires = 0]

\* release_landing accepts an expired fence, but no unresolved push.
ReleaseLanding(f) ==
    /\ LockFree
    /\ Fenced(f)
    /\ NoUnresolvedPush
    /\ landing' = Released
    /\ UNCHANGED <<now, counter, ops, issued, local, origin, remote>>

\* prune_released, run by any acquire_claim of the project: it needs no landing
\* lock and spares claims that an operation references.
PruneReleased ==
    /\ landing # NoLanding
    /\ landing.holder = NoActor
    /\ \A o \in OpIds : ops[o].phase = "none"
    /\ landing' = NoLanding
    /\ UNCHANGED <<now, counter, ops, issued, local, origin, remote>>

-----------------------------------------------------------------------------
(* push_landing, a process that keeps the OS lock from start to end *)

Goto(p, l) == pc' = [pc EXCEPT ![p] = l]

\* Every return of push_landing or reconcile_landing drops the LandingGuard.
Return(p) ==
    /\ Goto(p, "idle")
    /\ lock' = NoProc
    /\ req' = [req EXCEPT ![p] = NoRequest]

\* landing_local: open the store, lock the ref, build the fence from the proof.
LockLanding(p, f, o, l) ==
    /\ pc[p] = "idle"
    /\ LockFree
    /\ lock' = p
    /\ Goto(p, l)
    /\ req' = [req EXCEPT ![p] = [NoRequest EXCEPT !.fence = f, !.op = o]]
    /\ UNCHANGED <<now, store, origin, remote>>

StartPush(p) == \E f \in Presented, o \in OpIds : LockLanding(p, f, o, "check")

StartReconcile(p) == \E f \in Presented, o \in OpIds : LockLanding(p, f, o, "reconcile")

\* is_ancestor(expected, candidate)
IsFastForward == <<landing.expected, landing.candidate>> \in Ancestor

\* The prior operation must be this fence's and open, the fence live, and the
\* candidate a descendant of the expected commit; a prior operation keeps its
\* remote, a new one takes the origin configured now.
PushCheck(p) ==
    LET f     == req[p].fence
        prior == ops[req[p].op]
    IN  /\ pc[p] = "check"
        /\ prior.phase # "committed"
        /\ prior.phase # "none" => prior.actor = f.actor /\ prior.gen = f.gen
        /\ FencedLive(f)
        /\ IsFastForward
        /\ Goto(p, "prepare")
        /\ req' = [req EXCEPT
                      ![p].expected = landing.expected,
                      ![p].candidate = landing.candidate,
                      ![p].remote = IF prior.phase = "none" THEN origin ELSE prior.remote]
        /\ UNCHANGED <<now, store, lock, origin, remote>>

Frozen(p) ==
    [phase |-> "prepared", actor |-> req[p].fence.actor, gen |-> req[p].fence.gen,
     expected |-> landing.expected, candidate |-> landing.candidate,
     remote |-> req[p].remote, observed |-> NoOid]

\* The digest of the frozen request covers everything but phase and observation.
SameRequest(x, y) ==
    \A k \in {"actor", "gen", "expected", "candidate", "remote"} : x[k] = y[k]

\* The landing drives no other operation in this generation.
MayPrepare(o) == landing.operation \in {NoOp, o}

\* prepare_push: record a new operation with the landing, or return the one
\* that is there; push_landing goes on only when its outcome is not open.
PreparePush(p) ==
    LET o == req[p].op IN
    /\ pc[p] = "prepare"
    /\ FencedLive(req[p].fence)
    /\ MayPrepare(o)
    /\ \/ /\ ops[o].phase = "none"
          /\ ops' = [ops EXCEPT ![o] = Frozen(p)]
          /\ landing' = [landing EXCEPT !.operation = o]
       \/ /\ ops[o].phase \in {"prepared", "retryable", "conflict"}
          /\ SameRequest(ops[o], Frozen(p))
          /\ UNCHANGED <<ops, landing>>
    /\ Goto(p, "observe")
    /\ UNCHANGED <<now, counter, issued, lock, req, origin, remote>>

\* The remote must still be at the expected commit.
ObserveRemote(p) ==
    /\ pc[p] = "observe"
    /\ remoteRef[req[p].remote] = req[p].expected
    /\ Goto(p, "begin")
    /\ UNCHANGED <<now, store, lock, req, origin, remote>>

\* change_push's common guard: the landing's own operation, under this fence.
Custody(p) ==
    LET o == req[p].op IN
    /\ Fenced(req[p].fence)
    /\ landing.operation = o
    /\ ops[o].actor = req[p].fence.actor
    /\ ops[o].gen = req[p].fence.gen

MayBegin(o) == ops[o].phase \in {"prepared", "retryable"}

\* change_push(Begin), the only push action that needs a live fence.
BeginPush(p) ==
    LET o == req[p].op IN
    /\ pc[p] = "begin"
    /\ Custody(p) /\ Live
    /\ MayBegin(o)
    /\ ops' = [ops EXCEPT ![o].phase = "pushing", ![o].observed = NoOid]
    /\ Goto(p, "spawn")
    /\ UNCHANGED <<now, counter, landing, issued, lock, req, origin, remote>>

\* `git push --force-with-lease=ref:expected candidate:ref' starts.
SpawnPush(p) ==
    /\ pc[p] = "spawn"
    /\ Goto(p, "git")
    /\ UNCHANGED <<now, store, lock, req, origin, remote>>

\* The push a process has under way.
InFlight(p) ==
    [expected |-> req[p].expected, candidate |-> req[p].candidate, remote |-> req[p].remote]

\* The server: a compare-and-swap of the ref.  Refused unless the ref is at
\* the leased commit, or at the candidate already (up to date).
Serve(w) ==
    /\ remoteRef' = IF remoteRef[w.remote] = w.expected
                      THEN [remoteRef EXCEPT ![w.remote] = w.candidate]
                      ELSE remoteRef
    /\ held' = [held EXCEPT ![w.remote] = (@ \cup {remoteRef'[w.remote]}) \ {NoOid}]

ServePush(p) ==
    /\ pc[p] = "git"
    /\ Serve(InFlight(p))
    /\ req' = [req EXCEPT ![p].seen = remoteRef'[InFlight(p).remote]]
    /\ Goto(p, "served")
    /\ UNCHANGED <<now, store, lock, origin, orphans>>

\* Exit status 0: change_push(Confirmed).  No live fence needed.
ConfirmPush(p) ==
    LET o == req[p].op IN
    /\ pc[p] = "served"
    /\ req[p].seen = req[p].candidate
    /\ Custody(p)
    /\ ops[o].phase = "pushing"
    /\ ops' = [ops EXCEPT ![o].phase = "committed", ![o].observed = ops[o].candidate]
    /\ Return(p)
    /\ UNCHANGED <<now, counter, landing, issued, origin, remote>>

\* Any other end of the child, a lost reply or a timeout: change_push(Uncertain).
UncertainPush(p) ==
    LET o == req[p].op IN
    /\ pc[p] \in {"git", "served"}
    /\ Custody(p)
    /\ ops[o].phase = "pushing"
    /\ ops' = [ops EXCEPT ![o].phase = "unknown"]
    /\ orphans' = IF pc[p] = "git" THEN orphans \cup {InFlight(p)} ELSE orphans
    /\ Return(p)
    /\ UNCHANGED <<now, counter, landing, issued, origin, remoteRef, held>>

\* A crash, a cancellation or an error return: the lock goes, the store stays
\* as the last transaction left it, and a push under way may still land.
Abandon(p) ==
    /\ pc[p] # "idle"
    /\ orphans' = IF pc[p] = "git" THEN orphans \cup {InFlight(p)} ELSE orphans
    /\ Return(p)
    /\ UNCHANGED <<now, store, origin, remoteRef, held>>

-----------------------------------------------------------------------------
(* reconcile_landing *)

\* The remote asked is the one the operation froze, not today's origin.
AskedRemote(op) == op.remote

\* Read the operation, refuse unless unresolved, then ask its frozen remote.
ReconcileObserve(p) ==
    LET o == ops[req[p].op] IN
    /\ pc[p] = "reconcile"
    /\ Unresolved(req[p].op)
    /\ req' = [req EXCEPT ![p].seen = remoteRef[AskedRemote(o)], ![p].remote = o.remote]
    /\ Goto(p, "record")
    /\ UNCHANGED <<now, store, lock, origin, remote>>

\* change_push(Reconcile): the remote's answer decides the phase.
Verdict(op, seen) ==
    CASE seen = op.candidate -> "committed"
      [] seen = op.expected  -> "retryable"
      [] seen = NoOid        -> "unknown"
      [] OTHER               -> "conflict"

ReconcileRecord(p) ==
    LET o == req[p].op IN
    /\ pc[p] = "record"
    /\ Custody(p)
    /\ Unresolved(o)
    /\ ops' = [ops EXCEPT ![o].phase = Verdict(ops[o], req[p].seen),
                          ![o].observed = req[p].seen]
    /\ Return(p)
    /\ UNCHANGED <<now, counter, landing, issued, origin, remote>>

-----------------------------------------------------------------------------
(* Environment *)

ClockStep ==
    /\ now' \in Times \ {now}
    /\ UNCHANGED <<store, local, origin, remote>>

OrphanLands(w) ==
    /\ Serve(w)
    /\ orphans' = orphans \ {w}
    /\ UNCHANGED <<now, store, local, origin>>

OrphanLost(w) ==
    /\ orphans' = orphans \ {w}
    /\ UNCHANGED <<now, store, local, origin, remoteRef, held>>

\* Somebody else moves, creates or deletes the ref.
RemoteMoved(r, oid) ==
    /\ oid # remoteRef[r]
    /\ remoteRef' = [remoteRef EXCEPT ![r] = oid]
    /\ held' = [held EXCEPT ![r] = (@ \cup {oid}) \ {NoOid}]
    /\ UNCHANGED <<now, store, local, origin, orphans>>

OriginChanged ==
    /\ origin' \in Remotes \ {origin}
    /\ UNCHANGED <<now, store, local, remote>>

-----------------------------------------------------------------------------
StoreNext ==
    \/ \E a \in Actors, t \in Tokens, e, c \in Oids, l \in Leases :
           AcquireLanding(a, t, e, c, l)
    \/ \E f \in Presented, l \in Leases : RenewLanding(f, l)
    \/ \E f \in Presented : ReleaseLanding(f)
    \/ PruneReleased

ProcNext(p) ==
    \/ StartPush(p) \/ StartReconcile(p)
    \/ PushCheck(p) \/ PreparePush(p) \/ ObserveRemote(p) \/ BeginPush(p)
    \/ SpawnPush(p) \/ ServePush(p) \/ ConfirmPush(p) \/ UncertainPush(p)
    \/ ReconcileObserve(p) \/ ReconcileRecord(p) \/ Abandon(p)

EnvNext ==
    \/ ClockStep
    \/ \E w \in orphans : OrphanLands(w) \/ OrphanLost(w)
    \/ \E r \in Remotes, oid \in Oids \cup {NoOid} : RemoteMoved(r, oid)
    \/ OriginChanged

Next == StoreNext \/ (\E p \in Procs : ProcNext(p)) \/ EnvNext

Spec == Init /\ [][Next]_vars

-----------------------------------------------------------------------------
(* Properties *)

Pushes == [expected : Oids, candidate : Oids, remote : Remotes]

\* Every variable stays in its type: rows, operations, process locals, remotes;
\* and a row has a holder and a token together or neither (its CHECK constraint).
TypeOK ==
    /\ now \in Times
    /\ counter \in Nat
    /\ landing \in Landings
    /\ landing.holder = NoActor <=> landing.token = NoToken
    /\ ops \in [OpIds -> PushOperations]
    /\ issued \subseteq Fences
    /\ lock \in Procs \cup {NoProc}
    /\ pc \in [Procs -> PCs]
    /\ req \in [Procs -> Requests]
    /\ origin \in Remotes
    /\ remoteRef \in [Remotes -> Oids \cup {NoOid}]
    /\ orphans \subseteq Pushes
    /\ held \in [Remotes -> SUBSET Oids]

\* "Pushing and Unknown pin ownership regardless of TTL" (fabric-store README):
\* an unresolved operation is the landing's own, under its current generation
\* and holder, so no expiry, release or takeover separates them.
UnresolvedPinsOwner ==
    \A o \in OpIds : Unresolved(o) =>
        /\ landing.operation = o
        /\ landing.holder = ops[o].actor
        /\ landing.gen = ops[o].gen

\* A process whose Git push is under way holds the ref's lock and an operation
\* still in Pushing under its own fence: whatever the push's result, the write
\* of Confirmed or Uncertain cannot be refused as stale or out of phase.  And
\* what it pushes, read before the transaction that prepared the operation, is
\* what the operation froze.
PushUnderCustody ==
    \A p \in Procs : pc[p] \in {"spawn", "git", "served"} =>
        /\ lock = p
        /\ Custody(p)
        /\ ops[req[p].op].phase = "pushing"
        /\ req[p].expected = ops[req[p].op].expected
        /\ req[p].candidate = ops[req[p].op].candidate
        /\ req[p].remote = ops[req[p].op].remote

\* Nothing is reported landed that was not: a committed operation's candidate
\* has been the value of the ref at the very remote the operation froze.
CommittedWasOnRemote ==
    \A o \in OpIds : ops[o].phase = "committed" =>
        ops[o].candidate \in held[ops[o].remote]

\* "One generation has one operation" (fabric-store README): no acquisition of
\* the landing drives two different operations.
OneOperationPerGeneration ==
    \A o1, o2 \in OpIds :
        (ops[o1].phase # "none" /\ ops[o1].gen = ops[o2].gen) => o1 = o2

\* "Two landers must never overwrite each other's push" (docs/specs/fabric.md):
\* a push served for a live or an abandoned process moves the ref forward only.
PushesFastForward ==
    [][\A r \in Remotes :
          ((\E p \in Procs : ServePush(p)) \/ (\E w \in orphans : OrphanLands(w)))
          /\ remoteRef'[r] # remoteRef[r]
              => <<remoteRef[r], remoteRef'[r]>> \in Ancestor]_vars

\* A settled operation is never reopened, and what an operation froze at
\* preparation never changes, through retries, crashes and takeovers.
SettledStaysSettled ==
    [][\A o \in OpIds : ops[o].phase # "none" =>
          /\ SameRequest(ops'[o], ops[o])
          /\ ops[o].phase \in {"committed", "conflict"} => ops'[o] = ops[o]]_vars
=============================================================================
