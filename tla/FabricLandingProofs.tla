------------------------- MODULE FabricLandingProofs -------------------------
(* The safety of FabricLanding for every set of actors, processes, operations, *)
(* commits, remotes and clock values.                                          *)
EXTENDS FabricLanding, TLAPS

(***************************************************************************)
(* The inductive invariant.  The properties of interest are not inductive: *)
(* they rest on who may be away from "idle" (LockInv), on generations      *)
(* never being reused (GenInv), on the landing row and the operation table *)
(* agreeing on the current generation (OpInv), and on what a process saw   *)
(* before it writes (LocalsInv, SeenInv).                             *)
(***************************************************************************)
LockInv == \A p \in Procs : pc[p] # "idle" <=> lock = p

GenInv ==
    /\ landing.gen <= counter
    /\ landing.holder # NoActor => landing.gen > 0
    /\ \A o \in OpIds : ops[o].gen <= counter
    /\ \A o \in OpIds : ops[o].phase = "none" => ops[o] = NoOperation

OpInv ==
    /\ landing.operation # NoOp => /\ ops[landing.operation].phase # "none"
                                   /\ ops[landing.operation].gen = landing.gen
    /\ \A o \in OpIds : ops[o].phase # "none" =>
          /\ ops[o].gen > 0
          /\ ops[o].actor \in Actors
          /\ ops[o].expected \in Oids
          /\ ops[o].candidate \in Oids
          /\ ops[o].remote \in Remotes
          /\ <<ops[o].expected, ops[o].candidate>> \in Ancestor
          /\ ops[o].gen = landing.gen => landing.operation = o

LocalsInv ==
    \A p \in Procs :
        /\ pc[p] # "idle" => req[p].op \in OpIds /\ req[p].fence \in Fences
        /\ pc[p] \in {"prepare", "observe", "begin", "spawn", "git", "served"} =>
              /\ req[p].expected \in Oids
              /\ req[p].candidate \in Oids
              /\ req[p].remote \in Remotes
              /\ <<req[p].expected, req[p].candidate>> \in Ancestor
        /\ pc[p] = "prepare" /\ Fenced(req[p].fence) =>
              /\ landing.expected = req[p].expected
              /\ landing.candidate = req[p].candidate
        /\ pc[p] \in {"observe", "begin", "spawn", "git", "served"} =>
              /\ ops[req[p].op].phase # "none"
              /\ ops[req[p].op].expected = req[p].expected
              /\ ops[req[p].op].candidate = req[p].candidate
              /\ ops[req[p].op].remote = req[p].remote

OrphanInv == \A w \in orphans : <<w.expected, w.candidate>> \in Ancestor

SeenInv ==
    /\ \A r \in Remotes : remoteRef[r] # NoOid => remoteRef[r] \in held[r]
    /\ \A p \in Procs :
          pc[p] \in {"served", "record"} =>
             /\ ops[req[p].op].phase # "none"
             /\ req[p].remote = ops[req[p].op].remote
             /\ req[p].seen # NoOid => req[p].seen \in held[req[p].remote]

IInv ==
    /\ TypeOK
    /\ LockInv
    /\ GenInv
    /\ OpInv
    /\ LocalsInv
    /\ OrphanInv
    /\ SeenInv
    /\ UnresolvedPinsOwner
    /\ PushUnderCustody
    /\ OneOperationPerGeneration
    /\ CommittedWasOnRemote

\* acquire_landing waits for every push of the ref to be resolved, so a new
\* generation meets no unresolved operation.
LEMMA AcquirePreserves ==
    ASSUME IInv, NEW a \in Actors, NEW t \in Tokens, NEW e \in Oids, NEW c \in Oids,
           NEW l \in Leases, AcquireLanding(a, t, e, c, l)
    PROVE  IInv'
  <1> USE AbsentAssumption, TimeAssumption, AncestorAssumption
      DEF IInv, store, local, remote, LockFree, NoUnresolvedPush
  <1>1. TypeOK'
    BY DEF AcquireLanding, Unresolved, Live, TypeOK, Landings, Fences
  <1>2. GenInv'
    BY DEF AcquireLanding, Unresolved, Live, TypeOK, GenInv, Landings, PushOperations
  <1>3. OpInv'
    BY DEF AcquireLanding, Unresolved, Live, TypeOK, OpInv, GenInv, Landings, PushOperations
  <1>4. LocalsInv'
    BY DEF AcquireLanding, Unresolved, Live, TypeOK, LocalsInv, LockInv, OpInv, Landings,
           PushOperations, Requests, Fenced
  <1>5. UnresolvedPinsOwner'
    BY DEF AcquireLanding, Unresolved, Live, TypeOK, UnresolvedPinsOwner, OpInv, GenInv,
           LockInv
  <1>6. PushUnderCustody'
    BY DEF AcquireLanding, Unresolved, Live, TypeOK, PushUnderCustody, Custody, Fenced,
           LockInv, LocalsInv
  <1>7. LockInv' /\ OrphanInv' /\ SeenInv' /\ CommittedWasOnRemote' /\
        OneOperationPerGeneration'
    BY DEF AcquireLanding, LockInv, OrphanInv, SeenInv, CommittedWasOnRemote,
           OneOperationPerGeneration
  <1> QED
    BY <1>1, <1>2, <1>3, <1>4, <1>5, <1>6, <1>7

\* renew_landing moves the expiry only.
LEMMA RenewPreserves ==
    ASSUME IInv, NEW f \in Fences, NEW l \in Leases, RenewLanding(f, l)
    PROVE  IInv'
  <1> USE AbsentAssumption, TimeAssumption, AncestorAssumption
      DEF IInv, store, local, remote, LockFree
  <1>1. TypeOK'
    <2>1. landing' \in Landings
      BY DEF RenewLanding, TypeOK, Landings
    <2> QED
      BY <2>1 DEF RenewLanding, FencedLive, Fenced, Live, TypeOK
  <1>2. GenInv'
    BY DEF RenewLanding, FencedLive, Fenced, Live, TypeOK, GenInv, Landings, PushOperations
  <1>3. OpInv'
    BY DEF RenewLanding, FencedLive, Fenced, Live, TypeOK, OpInv, GenInv, Landings,
           PushOperations
  <1>4. LocalsInv'
    BY DEF RenewLanding, FencedLive, Fenced, Live, TypeOK, LocalsInv, LockInv, OpInv,
           Landings, PushOperations, Requests
  <1>5. UnresolvedPinsOwner'
    BY DEF RenewLanding, FencedLive, Fenced, Live, TypeOK, UnresolvedPinsOwner,
           Unresolved, OpInv, GenInv, LockInv
  <1>6. PushUnderCustody'
    BY DEF RenewLanding, FencedLive, Fenced, Live, TypeOK, PushUnderCustody, Custody,
           LockInv, LocalsInv
  <1>7. LockInv' /\ OrphanInv' /\ SeenInv' /\ CommittedWasOnRemote' /\
        OneOperationPerGeneration'
    BY DEF RenewLanding, LockInv, OrphanInv, SeenInv, CommittedWasOnRemote,
           OneOperationPerGeneration
  <1> QED
    BY <1>1, <1>2, <1>3, <1>4, <1>5, <1>6, <1>7

\* release_landing keeps the generation and waits like acquire_landing.
LEMMA ReleasePreserves ==
    ASSUME IInv, NEW f \in Fences, ReleaseLanding(f)
    PROVE  IInv'
  <1> USE AbsentAssumption, TimeAssumption, AncestorAssumption
      DEF IInv, store, local, remote, LockFree, NoUnresolvedPush, Released
  <1>1. TypeOK'
    BY DEF ReleaseLanding, Fenced, Unresolved, TypeOK, Landings
  <1>2. GenInv'
    BY DEF ReleaseLanding, Fenced, Unresolved, TypeOK, GenInv, Landings, PushOperations
  <1>3. OpInv'
    BY DEF ReleaseLanding, Fenced, Unresolved, TypeOK, OpInv, GenInv, Landings,
           PushOperations
  <1>4. LocalsInv'
    BY DEF ReleaseLanding, Fenced, Unresolved, TypeOK, LocalsInv, LockInv, OpInv,
           Landings, PushOperations, Requests
  <1>5. UnresolvedPinsOwner'
    BY DEF ReleaseLanding, Fenced, Unresolved, TypeOK, UnresolvedPinsOwner, OpInv, GenInv,
           LockInv
  <1>6. PushUnderCustody'
    BY DEF ReleaseLanding, Fenced, Unresolved, TypeOK, PushUnderCustody, Custody, LockInv,
           LocalsInv
  <1>7. LockInv' /\ OrphanInv' /\ SeenInv' /\ CommittedWasOnRemote' /\
        OneOperationPerGeneration'
    BY DEF ReleaseLanding, LockInv, OrphanInv, SeenInv, CommittedWasOnRemote,
           OneOperationPerGeneration
  <1> QED
    BY <1>1, <1>2, <1>3, <1>4, <1>5, <1>6, <1>7

\* prune_released drops a row no operation references.
LEMMA PrunePreserves ==
    ASSUME IInv, PruneReleased
    PROVE  IInv'
  <1> USE AbsentAssumption, TimeAssumption, AncestorAssumption
      DEF IInv, store, local, remote
  <1>1. TypeOK'
    BY DEF PruneReleased, NoLanding, TypeOK, Landings
  <1>2. GenInv'
    BY DEF PruneReleased, NoLanding, TypeOK, GenInv, Landings, PushOperations
  <1>3. OpInv'
    BY DEF PruneReleased, NoLanding, TypeOK, OpInv, GenInv, Landings, PushOperations
  <1>4. LocalsInv'
    <2>1. \A p \in Procs : pc[p] # "idle" => req[p].fence.actor \in Actors
      BY DEF LocalsInv, Fences
    <2> QED
      BY <2>1 DEF PruneReleased, NoLanding, TypeOK, LocalsInv, Fenced
  <1>5. UnresolvedPinsOwner'
    BY DEF PruneReleased, NoLanding, TypeOK, UnresolvedPinsOwner, Unresolved, OpInv,
           GenInv, LockInv
  <1>6. PushUnderCustody'
    BY DEF PruneReleased, NoLanding, TypeOK, PushUnderCustody, Custody, Fenced, LockInv,
           LocalsInv
  <1>7. LockInv' /\ OrphanInv' /\ SeenInv' /\ CommittedWasOnRemote' /\
        OneOperationPerGeneration'
    BY DEF PruneReleased, LockInv, OrphanInv, SeenInv, CommittedWasOnRemote,
           OneOperationPerGeneration
  <1> QED
    BY <1>1, <1>2, <1>3, <1>4, <1>5, <1>6, <1>7

\* Taking the lock gives one process the right to leave idle.
LEMMA LockPreserves ==
    ASSUME IInv, NEW p \in Procs, NEW f \in Fences, NEW o \in OpIds,
           NEW l \in {"check", "reconcile"}, LockLanding(p, f, o, l)
    PROVE  IInv'
  <1> USE AbsentAssumption, TimeAssumption, AncestorAssumption
      DEF IInv, store, local, remote, LockFree
  <1>1. TypeOK'
    BY DEF LockLanding, Goto, NoRequest, TypeOK, Requests, PCs, Fences, NoFence
  <1>2. LockInv'
    BY DEF LockLanding, Goto, NoRequest, TypeOK, LockInv
  <1>3. LocalsInv'
    BY DEF LockLanding, Goto, NoRequest, TypeOK, LocalsInv, LockInv, OpInv, Landings,
           PushOperations, Requests, Fenced
  <1>4. SeenInv'
    BY DEF LockLanding, Goto, NoRequest, TypeOK, SeenInv, OpInv, LocalsInv, LockInv,
           Requests
  <1>5. PushUnderCustody'
    BY DEF LockLanding, Goto, NoRequest, TypeOK, PushUnderCustody, Custody, Fenced,
           LockInv, LocalsInv
  <1>6. GenInv' /\ OpInv' /\ OrphanInv' /\ UnresolvedPinsOwner' /\ CommittedWasOnRemote'
        /\ OneOperationPerGeneration'
    BY DEF LockLanding, GenInv, OpInv, OrphanInv, UnresolvedPinsOwner,
           CommittedWasOnRemote, OneOperationPerGeneration, Unresolved
  <1> QED
    BY <1>1, <1>2, <1>3, <1>4, <1>5, <1>6

\* push_landing copies the landing's commits, checked to be a fast-forward.
LEMMA CheckPreserves ==
    ASSUME IInv, NEW p \in Procs, PushCheck(p)
    PROVE  IInv'
  <1> USE AbsentAssumption, TimeAssumption, AncestorAssumption
      DEF IInv, store, local, remote, IsFastForward
  <1>1. TypeOK'
    <2>1. pc' \in [Procs -> PCs]
      BY DEF PushCheck, Goto, TypeOK, PCs
    <2>2. req[p].op \in OpIds /\ req[p] \in Requests
      BY DEF PushCheck, TypeOK, LocalsInv
    <2>3. /\ landing.expected \in Oids \cup {NoOid}
          /\ landing.candidate \in Oids \cup {NoOid}
          /\ ops[req[p].op].remote \in Remotes \cup {NoRemote}
      BY <2>2 DEF TypeOK, Landings, PushOperations
    <2>4. req' \in [Procs -> Requests]
      BY <2>2, <2>3 DEF PushCheck, TypeOK, Requests
    <2> QED
      BY <2>1, <2>4 DEF PushCheck, Goto, TypeOK
  <1>2. LockInv'
    BY DEF PushCheck, Goto, FencedLive, Fenced, TypeOK, LockInv
  <1>3. LocalsInv'
    <2>1. req[p].op \in OpIds /\ req[p].fence \in Fences /\ req[p] \in Requests
      BY DEF PushCheck, TypeOK, LocalsInv
    <2>2. /\ landing.expected \in Oids /\ landing.candidate \in Oids
          /\ <<landing.expected, landing.candidate>> \in Ancestor
      BY DEF PushCheck
    <2>3. (IF ops[req[p].op].phase = "none" THEN origin ELSE ops[req[p].op].remote) \in
       Remotes
      BY <2>1 DEF OpInv, TypeOK
    <2>4. /\ pc'[p] = "prepare"
          /\ req'[p].op = req[p].op /\ req'[p].fence = req[p].fence
          /\ req'[p].expected = landing.expected /\ req'[p].candidate = landing.candidate
          /\ req'[p].remote \in Remotes
      BY <2>1, <2>3 DEF PushCheck, Goto, TypeOK, Requests
    <2>5. \A q \in Procs \ {p} : pc'[q] = pc[q] /\ req'[q] = req[q]
      BY DEF PushCheck, Goto, TypeOK
    <2>6. landing' = landing /\ ops' = ops
      BY DEF PushCheck
    <2> QED
      BY <2>1, <2>2, <2>4, <2>5, <2>6 DEF LocalsInv, Fenced
  <1>4. SeenInv'
    <2>1. pc'[p] = "prepare" /\ \A q \in Procs \ {p} : pc'[q] = "idle"
      BY DEF PushCheck, Goto, LockInv, TypeOK
    <2> QED
      BY <2>1 DEF PushCheck, SeenInv
  <1>5. PushUnderCustody'
    <2>1. pc'[p] = "prepare" /\ \A q \in Procs \ {p} : pc'[q] = "idle"
      BY DEF PushCheck, Goto, LockInv, TypeOK
    <2> QED
      BY <2>1 DEF PushUnderCustody
  <1>6. GenInv' /\ OpInv' /\ OrphanInv' /\ UnresolvedPinsOwner' /\ CommittedWasOnRemote'
        /\ OneOperationPerGeneration'
    BY DEF PushCheck, GenInv, OpInv, OrphanInv, UnresolvedPinsOwner, CommittedWasOnRemote,
           OneOperationPerGeneration, Unresolved
  <1> QED
    BY <1>1, <1>2, <1>3, <1>4, <1>5, <1>6

\* prepare_push freezes what was checked: the row cannot have changed under
\* the same fence.
LEMMA PreparePreserves ==
    ASSUME IInv, NEW p \in Procs, PreparePush(p)
    PROVE  IInv'
  <1> USE AbsentAssumption, TimeAssumption, AncestorAssumption
      DEF IInv, store, local, remote, MayPrepare
  <1>1. TypeOK'
    <2>1. pc' \in [Procs -> PCs]
      BY DEF PreparePush, Goto, TypeOK, PCs
    <2>2. req[p].op \in OpIds /\ req[p].fence \in Fences
      BY DEF PreparePush, LocalsInv
    <2>3. Frozen(p) \in PushOperations
      BY DEF Frozen, PushOperations, Phases, TypeOK, Landings, Requests, Fences,
             PreparePush, LocalsInv
    <2>4. /\ ops' \in [OpIds -> PushOperations] /\ landing' \in Landings
          /\ landing'.holder = landing.holder /\ landing'.token = landing.token
      BY <2>2, <2>3 DEF PreparePush, TypeOK, Landings
    <2> QED
      BY <2>1, <2>4 DEF PreparePush, TypeOK
  <1>2. LockInv'
    BY DEF PreparePush, Goto, FencedLive, Fenced, Live, Frozen, SameRequest, TypeOK, LockInv
  <1>3. GenInv'
    <2>1. req[p].op \in OpIds /\ req[p].fence \in Fences
      BY DEF PreparePush, LocalsInv
    <2>2. CASE ops[req[p].op].phase = "none"
      <3>1. /\ ops' = [ops EXCEPT ![req[p].op] = Frozen(p)]
            /\ landing' = [landing EXCEPT !.operation = req[p].op]
        BY <2>2 DEF PreparePush
      <3>2. /\ landing.gen = req[p].fence.gen /\ landing.holder = req[p].fence.actor
            /\ landing.operation \in {NoOp, req[p].op} /\ counter' = counter
        BY DEF PreparePush, FencedLive, Fenced
      <3> QED
        BY <2>1, <2>2, <3>1, <3>2 DEF Frozen, GenInv, TypeOK, Landings, PushOperations,
                                      Fences
    <2>3. CASE ops[req[p].op].phase # "none"
      BY <2>3 DEF PreparePush, GenInv
    <2> QED
      BY <2>2, <2>3
  <1>4. OpInv'
    <2>1. req[p].op \in OpIds /\ req[p].fence \in Fences
      BY DEF PreparePush, LocalsInv
    <2>2. CASE ops[req[p].op].phase = "none"
      <3>1. /\ ops' = [ops EXCEPT ![req[p].op] = Frozen(p)]
            /\ landing' = [landing EXCEPT !.operation = req[p].op]
        BY <2>2 DEF PreparePush
      <3>2. /\ landing.gen = req[p].fence.gen /\ landing.holder = req[p].fence.actor
            /\ landing.operation = NoOp
        BY <2>2 DEF PreparePush, FencedLive, Fenced, OpInv
      <3>3. landing'.gen = landing.gen /\ landing'.operation = req[p].op
        BY <3>1 DEF TypeOK, Landings
      <3>4. /\ ops'[req[p].op] = Frozen(p)
            /\ \A o \in OpIds \ {req[p].op} : ops'[o] = ops[o]
        BY <2>1, <3>1 DEF TypeOK
      <3>5. landing.gen > 0 /\ req[p].fence.actor \in Actors
        BY <2>1, <3>2 DEF GenInv, Fences
      <3>6. /\ Frozen(p).expected \in Oids /\ Frozen(p).candidate \in Oids
            /\ Frozen(p).remote \in Remotes
            /\ <<Frozen(p).expected, Frozen(p).candidate>> \in Ancestor
        BY <3>2 DEF PreparePush, FencedLive, LocalsInv, Frozen
      <3>7. Frozen(p).gen = landing.gen /\ Frozen(p).actor \in Actors /\ Frozen(p).phase =
        "prepared"
        BY <3>2, <3>5 DEF Frozen
      <3>8. \A o \in OpIds : ops[o].phase # "none" => ops[o].gen # landing.gen
        BY <3>2 DEF OpInv
      <3> QED
        BY <2>1, <3>3, <3>4, <3>5, <3>6, <3>7, <3>8 DEF OpInv
    <2>3. CASE ops[req[p].op].phase # "none"
      BY <2>3 DEF PreparePush, OpInv
    <2> QED
      BY <2>2, <2>3
  <1>5. LocalsInv'
    BY DEF PreparePush, Goto, FencedLive, Fenced, Live, Frozen, SameRequest, TypeOK,
           LocalsInv, LockInv, OpInv, Landings, PushOperations, Requests
  <1>6. SeenInv'
    BY DEF PreparePush, Goto, FencedLive, Fenced, Live, Frozen, SameRequest, TypeOK,
           SeenInv, OpInv, LocalsInv, LockInv, Requests
  <1>7. UnresolvedPinsOwner'
    BY DEF PreparePush, Goto, FencedLive, Fenced, Live, Frozen, SameRequest, TypeOK,
           UnresolvedPinsOwner, Unresolved, OpInv, GenInv, LockInv
  <1>8. PushUnderCustody'
    <2>1. pc'[p] = "observe" /\ \A q \in Procs \ {p} : pc'[q] = "idle"
      BY DEF PreparePush, Goto, LockInv, TypeOK
    <2> QED
      BY <2>1 DEF PushUnderCustody
  <1>9. CommittedWasOnRemote'
    BY DEF PreparePush, Goto, FencedLive, Fenced, Live, Frozen, SameRequest, TypeOK,
           CommittedWasOnRemote, OpInv, SeenInv, LocalsInv
  <1>10. OneOperationPerGeneration'
    <2>1. req[p].op \in OpIds
      BY DEF PreparePush, LocalsInv
    <2>2. CASE ops[req[p].op].phase = "none"
      <3>1. ops' = [ops EXCEPT ![req[p].op] = Frozen(p)]
        BY <2>2 DEF PreparePush
      <3>0. /\ landing.gen = req[p].fence.gen /\ landing.holder = req[p].fence.actor
            /\ landing.operation = NoOp
        BY <2>2 DEF PreparePush, FencedLive, Fenced, OpInv
      <3>2. Frozen(p).gen = landing.gen /\ landing.gen > 0
        <4>1. req[p].fence.actor \in Actors
          BY DEF PreparePush, LocalsInv, Fences
        <4> QED
          BY <3>0, <4>1 DEF Frozen, GenInv
      <3>3. \A o \in OpIds : ops[o].gen # landing.gen
        <4>1. \A o \in OpIds : ops[o].phase = "none" => ops[o].gen = 0
          BY DEF GenInv, NoOperation
        <4>2. \A o \in OpIds : ops[o].phase # "none" => ops[o].gen # landing.gen
          BY <3>0 DEF OpInv
        <4>3. landing.gen # 0
          BY <3>2 DEF TypeOK, Landings
        <4> QED
          BY <4>1, <4>2, <4>3
      <3>4. /\ ops'[req[p].op].gen = landing.gen
            /\ \A o \in OpIds \ {req[p].op} : ops'[o] = ops[o]
        BY <2>1, <3>1, <3>2 DEF TypeOK
      <3> QED
        BY <2>1, <3>3, <3>4 DEF OneOperationPerGeneration
    <2>3. CASE ops[req[p].op].phase # "none"
      BY <2>3 DEF PreparePush, OneOperationPerGeneration
    <2> QED
      BY <2>2, <2>3
  <1>11. OrphanInv'
    BY DEF PreparePush, OrphanInv
  <1> QED
    BY <1>1, <1>2, <1>3, <1>4, <1>5, <1>6, <1>7, <1>8, <1>9, <1>10, <1>11

\* Reading the remote changes no shared state.
LEMMA ObservePreserves ==
    ASSUME IInv, NEW p \in Procs, ObserveRemote(p)
    PROVE  IInv'
  <1> USE AbsentAssumption, TimeAssumption, AncestorAssumption
      DEF IInv, store, local, remote
  <1>1. TypeOK'
    BY DEF ObserveRemote, Goto, TypeOK, PCs
  <1>2. LockInv'
    BY DEF ObserveRemote, Goto, TypeOK, LockInv
  <1>3. LocalsInv'
    BY DEF ObserveRemote, Goto, TypeOK, LocalsInv, LockInv, OpInv, Landings,
           PushOperations, Requests, Fenced
  <1>4. SeenInv'
    BY DEF ObserveRemote, Goto, TypeOK, SeenInv, OpInv, LocalsInv, LockInv, Requests
  <1>5. PushUnderCustody'
    BY DEF ObserveRemote, Goto, TypeOK, PushUnderCustody, Custody, Fenced, LockInv,
           LocalsInv
  <1>6. GenInv' /\ OpInv' /\ OrphanInv' /\ UnresolvedPinsOwner' /\ CommittedWasOnRemote'
        /\ OneOperationPerGeneration'
    BY DEF ObserveRemote, GenInv, OpInv, OrphanInv, UnresolvedPinsOwner,
           CommittedWasOnRemote, OneOperationPerGeneration, Unresolved
  <1> QED
    BY <1>1, <1>2, <1>3, <1>4, <1>5, <1>6

\* Begin is the one step that opens an operation, under a live fence.
LEMMA BeginPreserves ==
    ASSUME IInv, NEW p \in Procs, BeginPush(p)
    PROVE  IInv'
  <1> USE AbsentAssumption, TimeAssumption, AncestorAssumption
      DEF IInv, store, local, remote, MayBegin
  <1>a. /\ req[p].op \in OpIds /\ ops[req[p].op] \in PushOperations
        /\ ops[req[p].op].phase # "none"
        /\ landing' = landing /\ counter' = counter
        /\ held' = held /\ remoteRef' = remoteRef
        /\ landing.operation = req[p].op
        /\ landing.holder = ops[req[p].op].actor /\ landing.gen = ops[req[p].op].gen
    BY DEF BeginPush, Custody, Fenced, LocalsInv, TypeOK
  <1>b. /\ ops'[req[p].op].phase = "pushing"
        /\ ops'[req[p].op].actor = ops[req[p].op].actor
        /\ ops'[req[p].op].gen = ops[req[p].op].gen
        /\ ops'[req[p].op].expected = ops[req[p].op].expected
        /\ ops'[req[p].op].candidate = ops[req[p].op].candidate
        /\ ops'[req[p].op].remote = ops[req[p].op].remote
    BY <1>a DEF BeginPush, TypeOK, PushOperations
  <1>c. \A o \in OpIds \ {req[p].op} : ops'[o] = ops[o]
    BY <1>a DEF BeginPush, TypeOK
  <1>d. pc'[p] = "spawn" /\ \A q \in Procs \ {p} : pc'[q] = "idle"
    BY DEF BeginPush, Goto, LockInv, TypeOK
  <1>1. TypeOK'
    <2>1. ops' \in [OpIds -> PushOperations]
      <3>1. NoOid \in Oids \cup {NoOid}
        BY <1>a DEF TypeOK, PushOperations, Requests
      <3>2. ops'[req[p].op] \in PushOperations
        BY <1>a, <3>1 DEF BeginPush, TypeOK, PushOperations, Phases
      <3> QED
        BY <1>a, <1>c, <3>2 DEF BeginPush, TypeOK
    <2>4. pc' \in [Procs -> PCs]
      BY DEF BeginPush, Goto, TypeOK, PCs
    <2> QED
      BY <2>1, <2>4 DEF BeginPush, TypeOK
  <1>2. LockInv'
    BY DEF BeginPush, Goto, Custody, Fenced, Live, TypeOK, LockInv
  <1>3. GenInv'
    BY <1>a, <1>b, <1>c DEF GenInv
  <1>4. OpInv'
    BY <1>a, <1>b, <1>c DEF OpInv
  <1>5. LocalsInv'
    <2>1. req' = req /\ pc[p] = "begin"
      BY DEF BeginPush
    <2> QED
      BY <1>a, <1>b, <1>d, <2>1 DEF LocalsInv
  <1>6. SeenInv'
    BY <1>a, <1>d DEF SeenInv
  <1>7. UnresolvedPinsOwner'
    BY <1>a, <1>b, <1>c DEF UnresolvedPinsOwner, Unresolved
  <1>8. PushUnderCustody'
    <2>1. lock = p /\ Custody(p)' /\ lock' = lock /\ req' = req
      BY <1>a, <1>b DEF BeginPush, Custody, Fenced, LockInv
    <2>2. /\ req[p].expected = ops[req[p].op].expected
          /\ req[p].candidate = ops[req[p].op].candidate
          /\ req[p].remote = ops[req[p].op].remote
      BY DEF BeginPush, LocalsInv
    <2> QED
      BY <1>b, <1>d, <2>1, <2>2 DEF PushUnderCustody
  <1>9. CommittedWasOnRemote'
    BY <1>a, <1>b, <1>c DEF CommittedWasOnRemote
  <1>10. OneOperationPerGeneration'
    BY <1>a, <1>b, <1>c DEF OneOperationPerGeneration
  <1>11. OrphanInv'
    BY DEF BeginPush, OrphanInv
  <1> QED
    BY <1>1, <1>2, <1>3, <1>4, <1>5, <1>6, <1>7, <1>8, <1>9, <1>10, <1>11

\* Starting Git changes no shared state.
LEMMA SpawnPreserves ==
    ASSUME IInv, NEW p \in Procs, SpawnPush(p)
    PROVE  IInv'
  <1> USE AbsentAssumption, TimeAssumption, AncestorAssumption
      DEF IInv, store, local, remote
  <1>1. TypeOK'
    BY DEF SpawnPush, Goto, TypeOK, PCs
  <1>2. LockInv'
    BY DEF SpawnPush, Goto, TypeOK, LockInv
  <1>3. LocalsInv'
    BY DEF SpawnPush, Goto, TypeOK, LocalsInv, LockInv, OpInv, Landings, PushOperations,
           Requests, Fenced
  <1>4. SeenInv'
    BY DEF SpawnPush, Goto, TypeOK, SeenInv, OpInv, LocalsInv, LockInv, Requests
  <1>5. PushUnderCustody'
    BY DEF SpawnPush, Goto, TypeOK, PushUnderCustody, Custody, Fenced, LockInv, LocalsInv
  <1>6. GenInv' /\ OpInv' /\ OrphanInv' /\ UnresolvedPinsOwner' /\ CommittedWasOnRemote'
        /\ OneOperationPerGeneration'
    BY DEF SpawnPush, GenInv, OpInv, OrphanInv, UnresolvedPinsOwner, CommittedWasOnRemote,
           OneOperationPerGeneration, Unresolved
  <1> QED
    BY <1>1, <1>2, <1>3, <1>4, <1>5, <1>6

\* A served push records what the ref became.
LEMMA ServePreserves ==
    ASSUME IInv, NEW p \in Procs, ServePush(p)
    PROVE  IInv'
  <1> USE AbsentAssumption, TimeAssumption, AncestorAssumption
      DEF IInv, store, local, remote
  <1>1. TypeOK'
    <2>1. pc' \in [Procs -> PCs]
      BY DEF ServePush, Serve, InFlight, Goto, TypeOK, PCs
    <2>2. req[p].remote \in Remotes /\ req[p].candidate \in Oids
      BY DEF ServePush, LocalsInv
    <2>3. remoteRef' \in [Remotes -> Oids \cup {NoOid}]
      BY <2>2 DEF ServePush, Serve, InFlight, TypeOK
    <2>4. held' \in [Remotes -> SUBSET Oids]
      BY <2>2, <2>3 DEF ServePush, Serve, InFlight, TypeOK, Requests
    <2>5. req' \in [Procs -> Requests]
      BY <2>2, <2>3 DEF ServePush, Serve, InFlight, TypeOK, Requests
    <2> QED
      BY <2>1, <2>2, <2>3, <2>4, <2>5 DEF ServePush, Serve, InFlight, Goto, TypeOK
  <1>2. LockInv'
    BY DEF ServePush, Serve, InFlight, Goto, TypeOK, LockInv
  <1>3. LocalsInv'
    BY DEF ServePush, Serve, InFlight, Goto, TypeOK, LocalsInv, LockInv, OpInv, Landings,
           PushOperations, Requests, Fenced
  <1>4. SeenInv'
    <2> DEFINE r == req[p].remote
    <2>1. /\ r \in Remotes /\ req[p].op \in OpIds /\ ops[req[p].op].phase # "none"
          /\ ops[req[p].op].remote = r /\ req[p] \in Requests
      BY DEF ServePush, LocalsInv, TypeOK
    <2>2. /\ \A s \in Remotes \ {r} : remoteRef'[s] = remoteRef[s] /\ held'[s] = held[s]
          /\ held'[r] = (held[r] \cup {remoteRef'[r]}) \ {NoOid}
      BY <2>1 DEF ServePush, Serve, InFlight, TypeOK
    <2>3. \A s \in Remotes : remoteRef'[s] # NoOid => remoteRef'[s] \in held'[s]
      BY <2>1, <2>2 DEF SeenInv
    <2>4. /\ req'[p].seen = remoteRef'[r] /\ req'[p].remote = r /\ req'[p].op = req[p].op
          /\ ops' = ops
      BY <2>1 DEF ServePush, InFlight, TypeOK, Requests
    <2>5. \A q \in Procs : pc'[q] # "idle" => q = p
      BY DEF ServePush, Goto, LockInv, TypeOK
    <2> QED
      BY <2>1, <2>3, <2>4, <2>5 DEF SeenInv
  <1>5. PushUnderCustody'
    BY DEF ServePush, Serve, InFlight, Goto, TypeOK, PushUnderCustody, Custody, Fenced,
           LockInv, LocalsInv
  <1>6. CommittedWasOnRemote'
    BY DEF ServePush, Serve, InFlight, Goto, TypeOK, CommittedWasOnRemote, OpInv, SeenInv,
           LocalsInv
  <1>7. GenInv' /\ OpInv' /\ OrphanInv' /\ UnresolvedPinsOwner' /\
        OneOperationPerGeneration'
    BY DEF ServePush, GenInv, OpInv, OrphanInv, UnresolvedPinsOwner,
           OneOperationPerGeneration, Unresolved
  <1> QED
    BY <1>1, <1>2, <1>3, <1>4, <1>5, <1>6, <1>7

\* Confirmed commits what the served push was seen to leave on the ref.
LEMMA ConfirmPreserves ==
    ASSUME IInv, NEW p \in Procs, ConfirmPush(p)
    PROVE  IInv'
  <1> USE AbsentAssumption, TimeAssumption, AncestorAssumption
      DEF IInv, store, local, remote
  <1>a. /\ req[p].op \in OpIds /\ ops[req[p].op] \in PushOperations
        /\ ops[req[p].op].phase # "none"
        /\ landing' = landing /\ counter' = counter
        /\ held' = held /\ remoteRef' = remoteRef
        /\ landing.operation = req[p].op
        /\ landing.holder = ops[req[p].op].actor /\ landing.gen = ops[req[p].op].gen
    BY DEF ConfirmPush, Custody, Fenced, LocalsInv, TypeOK
  <1>b. /\ ops'[req[p].op].phase = "committed"
        /\ ops'[req[p].op].actor = ops[req[p].op].actor
        /\ ops'[req[p].op].gen = ops[req[p].op].gen
        /\ ops'[req[p].op].expected = ops[req[p].op].expected
        /\ ops'[req[p].op].candidate = ops[req[p].op].candidate
        /\ ops'[req[p].op].remote = ops[req[p].op].remote
    BY <1>a DEF ConfirmPush, TypeOK, PushOperations
  <1>c. \A o \in OpIds \ {req[p].op} : ops'[o] = ops[o]
    BY <1>a DEF ConfirmPush, TypeOK
  <1>d. \A q \in Procs : pc'[q] = "idle"
    BY DEF ConfirmPush, Return, Goto, LockInv, TypeOK
  <1>1. TypeOK'
    <2>1. ops' \in [OpIds -> PushOperations]
      <3>1. ops[req[p].op].candidate \in Oids \cup {NoOid}
        BY <1>a DEF TypeOK, PushOperations, Requests
      <3>2. ops'[req[p].op] \in PushOperations
        BY <1>a, <3>1 DEF ConfirmPush, TypeOK, PushOperations, Phases
      <3> QED
        BY <1>a, <1>c, <3>2 DEF ConfirmPush, TypeOK
    <2>2. req' \in [Procs -> Requests]
      BY DEF ConfirmPush, Return, TypeOK, Requests, NoRequest, NoFence
    <2>4. pc' \in [Procs -> PCs]
      BY DEF ConfirmPush, Return, Goto, TypeOK, PCs
    <2> QED
      BY <2>1, <2>2, <2>4 DEF ConfirmPush, Return, TypeOK
  <1>2. LockInv'
    BY DEF ConfirmPush, Custody, Fenced, Return, Goto, NoRequest, TypeOK, LockInv
  <1>3. GenInv'
    BY <1>a, <1>b, <1>c DEF GenInv
  <1>4. OpInv'
    BY <1>a, <1>b, <1>c DEF OpInv
  <1>5. LocalsInv'
    BY <1>d DEF LocalsInv
  <1>6. SeenInv'
    BY <1>a, <1>d DEF SeenInv
  <1>7. UnresolvedPinsOwner'
    BY <1>a, <1>b, <1>c DEF UnresolvedPinsOwner, Unresolved
  <1>8. PushUnderCustody'
    BY <1>d DEF PushUnderCustody
  <1>9. CommittedWasOnRemote'
    <2>1. /\ req[p].candidate \in Oids
          /\ ops[req[p].op].candidate = req[p].candidate
          /\ ops[req[p].op].remote = req[p].remote
      BY DEF ConfirmPush, LocalsInv
    <2>2. req[p].candidate \in held[req[p].remote]
      BY <2>1 DEF ConfirmPush, SeenInv
    <2> QED
      BY <1>a, <1>b, <1>c, <2>1, <2>2 DEF CommittedWasOnRemote
  <1>10. OneOperationPerGeneration'
    BY <1>a, <1>b, <1>c DEF OneOperationPerGeneration
  <1>11. OrphanInv'
    BY DEF ConfirmPush, OrphanInv
  <1> QED
    BY <1>1, <1>2, <1>3, <1>4, <1>5, <1>6, <1>7, <1>8, <1>9, <1>10, <1>11

\* Uncertain keeps the operation unresolved and may leave a push behind.
LEMMA UncertainPreserves ==
    ASSUME IInv, NEW p \in Procs, UncertainPush(p)
    PROVE  IInv'
  <1> USE AbsentAssumption, TimeAssumption, AncestorAssumption
      DEF IInv, store, local, remote
  <1>a. /\ req[p].op \in OpIds /\ ops[req[p].op] \in PushOperations
        /\ ops[req[p].op].phase # "none"
        /\ landing' = landing /\ counter' = counter
        /\ held' = held /\ remoteRef' = remoteRef
        /\ landing.operation = req[p].op
        /\ landing.holder = ops[req[p].op].actor /\ landing.gen = ops[req[p].op].gen
    BY DEF UncertainPush, Custody, Fenced, LocalsInv, TypeOK
  <1>b. /\ ops'[req[p].op].phase = "unknown"
        /\ ops'[req[p].op].actor = ops[req[p].op].actor
        /\ ops'[req[p].op].gen = ops[req[p].op].gen
        /\ ops'[req[p].op].expected = ops[req[p].op].expected
        /\ ops'[req[p].op].candidate = ops[req[p].op].candidate
        /\ ops'[req[p].op].remote = ops[req[p].op].remote
    BY <1>a DEF UncertainPush, TypeOK, PushOperations
  <1>c. \A o \in OpIds \ {req[p].op} : ops'[o] = ops[o]
    BY <1>a DEF UncertainPush, TypeOK
  <1>d. \A q \in Procs : pc'[q] = "idle"
    BY DEF UncertainPush, Return, Goto, LockInv, TypeOK
  <1>1. TypeOK'
    <2>1. ops' \in [OpIds -> PushOperations]
      <3>1. ops[req[p].op].observed \in Oids \cup {NoOid}
        BY <1>a DEF TypeOK, PushOperations, Requests
      <3>2. ops'[req[p].op] \in PushOperations
        BY <1>a, <3>1 DEF UncertainPush, TypeOK, PushOperations, Phases
      <3> QED
        BY <1>a, <1>c, <3>2 DEF UncertainPush, TypeOK
    <2>2. req' \in [Procs -> Requests]
      BY DEF UncertainPush, Return, TypeOK, Requests, NoRequest, NoFence
    <2>3. orphans' \subseteq Pushes
      <3>1. CASE pc[p] = "git"
        <4>1. /\ req[p].expected \in Oids /\ req[p].candidate \in Oids
              /\ req[p].remote \in Remotes
          BY <3>1 DEF LocalsInv
        <4> QED
          BY <3>1, <4>1 DEF UncertainPush, InFlight, TypeOK, Pushes
      <3>2. CASE pc[p] # "git"
        BY <3>2 DEF UncertainPush, TypeOK
      <3> QED
        BY <3>1, <3>2
    <2>4. pc' \in [Procs -> PCs]
      BY DEF UncertainPush, Return, Goto, TypeOK, PCs
    <2> QED
      BY <2>1, <2>2, <2>3, <2>4 DEF UncertainPush, Return, TypeOK
  <1>2. LockInv'
    BY DEF UncertainPush, Custody, Fenced, Return, Goto, NoRequest, InFlight, TypeOK,
           LockInv
  <1>3. GenInv'
    BY <1>a, <1>b, <1>c DEF GenInv
  <1>4. OpInv'
    BY <1>a, <1>b, <1>c DEF OpInv
  <1>5. LocalsInv'
    BY <1>d DEF LocalsInv
  <1>6. OrphanInv'
    <2>1. CASE pc[p] = "git"
      <3>1. <<req[p].expected, req[p].candidate>> \in Ancestor
        BY <2>1 DEF LocalsInv
      <3>2. orphans' = orphans \cup {InFlight(p)}
        BY <2>1 DEF UncertainPush
      <3>3. <<InFlight(p).expected, InFlight(p).candidate>> \in Ancestor
        BY <3>1 DEF InFlight
      <3> QED
        BY <3>2, <3>3 DEF OrphanInv
    <2>2. CASE pc[p] # "git"
      BY <2>2 DEF UncertainPush, OrphanInv
    <2> QED
      BY <2>1, <2>2
  <1>7. SeenInv'
    BY <1>a, <1>d DEF SeenInv
  <1>8. UnresolvedPinsOwner'
    BY <1>a, <1>b, <1>c DEF UnresolvedPinsOwner, Unresolved
  <1>9. PushUnderCustody'
    BY <1>d DEF PushUnderCustody
  <1>10. CommittedWasOnRemote'
    BY <1>a, <1>b, <1>c DEF CommittedWasOnRemote
  <1>11. OneOperationPerGeneration'
    BY <1>a, <1>b, <1>c DEF OneOperationPerGeneration
  <1> QED
    BY <1>1, <1>2, <1>3, <1>4, <1>5, <1>6, <1>7, <1>8, <1>9, <1>10, <1>11

\* A dying process may leave a push behind and frees the lock.
LEMMA AbandonPreserves ==
    ASSUME IInv, NEW p \in Procs, Abandon(p)
    PROVE  IInv'
  <1> USE AbsentAssumption, TimeAssumption, AncestorAssumption
      DEF IInv, store, local, remote
  <1>1. TypeOK'
    <2>1. pc' \in [Procs -> PCs]
      BY DEF Abandon, Return, Goto, NoRequest, InFlight, TypeOK, PCs
    <2>2. req' \in [Procs -> Requests]
      BY DEF Abandon, Return, TypeOK, Requests, NoRequest, NoFence
    <2>3. orphans' \subseteq Pushes
      <3>1. CASE pc[p] = "git"
        <4>1. /\ req[p].expected \in Oids /\ req[p].candidate \in Oids
              /\ req[p].remote \in Remotes
          BY <3>1 DEF LocalsInv
        <4> QED
          BY <3>1, <4>1 DEF Abandon, InFlight, TypeOK, Pushes
      <3>2. CASE pc[p] # "git"
        BY <3>2 DEF Abandon, TypeOK
      <3> QED
        BY <3>1, <3>2
    <2> QED
      BY <2>1, <2>2, <2>3 DEF Abandon, Return, Goto, NoRequest, InFlight, TypeOK
  <1>2. LockInv'
    BY DEF Abandon, Return, Goto, NoRequest, InFlight, TypeOK, LockInv
  <1>3. LocalsInv'
    BY DEF Abandon, Return, Goto, NoRequest, InFlight, TypeOK, LocalsInv, LockInv, OpInv,
           Landings, PushOperations, Requests, Fenced
  <1>4. OrphanInv'
    <2>1. CASE pc[p] = "git"
      <3>1. <<req[p].expected, req[p].candidate>> \in Ancestor
        BY <2>1 DEF LocalsInv
      <3>2. orphans' = orphans \cup {InFlight(p)}
        BY <2>1 DEF Abandon
      <3>3. <<InFlight(p).expected, InFlight(p).candidate>> \in Ancestor
        BY <3>1 DEF InFlight
      <3> QED
        BY <3>2, <3>3 DEF OrphanInv
    <2>2. CASE pc[p] # "git"
      BY <2>2 DEF Abandon, OrphanInv
    <2> QED
      BY <2>1, <2>2
  <1>5. SeenInv'
    BY DEF Abandon, Return, Goto, NoRequest, InFlight, TypeOK, SeenInv, OpInv, LocalsInv,
           LockInv, Requests
  <1>6. PushUnderCustody'
    BY DEF Abandon, Return, Goto, NoRequest, InFlight, TypeOK, PushUnderCustody, Custody,
           Fenced, LockInv, LocalsInv
  <1>7. GenInv' /\ OpInv' /\ UnresolvedPinsOwner' /\ CommittedWasOnRemote' /\
        OneOperationPerGeneration'
    BY DEF Abandon, GenInv, OpInv, UnresolvedPinsOwner, CommittedWasOnRemote,
           OneOperationPerGeneration, Unresolved
  <1> QED
    BY <1>1, <1>2, <1>3, <1>4, <1>5, <1>6, <1>7

\* Reconciliation asks the operation's own remote.
LEMMA ReconcileObservePreserves ==
    ASSUME IInv, NEW p \in Procs, ReconcileObserve(p)
    PROVE  IInv'
  <1> USE AbsentAssumption, TimeAssumption, AncestorAssumption
      DEF IInv, store, local, remote, AskedRemote
  <1>1. TypeOK'
    <2>1. pc' \in [Procs -> PCs]
      BY DEF ReconcileObserve, Goto, TypeOK, PCs
    <2>2. /\ ops[req[p].op].remote \in Remotes /\ req[p] \in Requests
          /\ remoteRef[ops[req[p].op].remote] \in Oids \cup {NoOid}
      BY DEF ReconcileObserve, Unresolved, LocalsInv, OpInv, TypeOK
    <2>3. req' \in [Procs -> Requests]
      BY <2>2 DEF ReconcileObserve, TypeOK, Requests
    <2> QED
      BY <2>1, <2>3 DEF ReconcileObserve, TypeOK
  <1>2. LockInv'
    BY DEF ReconcileObserve, Goto, Unresolved, TypeOK, LockInv
  <1>3. LocalsInv'
    <2>1. /\ req[p].op \in OpIds /\ req[p].fence \in Fences /\ req[p] \in Requests
          /\ ops[req[p].op].phase # "none" /\ ops[req[p].op].remote \in Remotes
      BY DEF ReconcileObserve, Unresolved, LocalsInv, OpInv, TypeOK
    <2>2. /\ pc'[p] = "record" /\ req'[p].op = req[p].op /\ req'[p].fence = req[p].fence
          /\ req'[p].remote = ops[req[p].op].remote
          /\ req'[p].seen = remoteRef[ops[req[p].op].remote]
      BY <2>1 DEF ReconcileObserve, Goto, TypeOK, Requests
    <2>3. /\ \A q \in Procs \ {p} : pc'[q] = "idle"
          /\ ops' = ops /\ held' = held /\ remoteRef' = remoteRef
      BY DEF ReconcileObserve, Goto, TypeOK, LockInv
    <2> QED
      BY <2>1, <2>2, <2>3 DEF LocalsInv
  <1>4. SeenInv'
    <2>1. /\ req[p].op \in OpIds /\ req[p].fence \in Fences /\ req[p] \in Requests
          /\ ops[req[p].op].phase # "none" /\ ops[req[p].op].remote \in Remotes
      BY DEF ReconcileObserve, Unresolved, LocalsInv, OpInv, TypeOK
    <2>2. /\ pc'[p] = "record" /\ req'[p].op = req[p].op /\ req'[p].fence = req[p].fence
          /\ req'[p].remote = ops[req[p].op].remote
          /\ req'[p].seen = remoteRef[ops[req[p].op].remote]
      BY <2>1 DEF ReconcileObserve, Goto, TypeOK, Requests
    <2>3. /\ \A q \in Procs \ {p} : pc'[q] = "idle"
          /\ ops' = ops /\ held' = held /\ remoteRef' = remoteRef
      BY DEF ReconcileObserve, Goto, TypeOK, LockInv
    <2> QED
      BY <2>1, <2>2, <2>3 DEF SeenInv
  <1>5. PushUnderCustody'
    <2>1. pc'[p] = "record" /\ \A q \in Procs \ {p} : pc'[q] = "idle"
      BY DEF ReconcileObserve, Goto, TypeOK, LockInv
    <2> QED
      BY <2>1 DEF PushUnderCustody
  <1>6. GenInv' /\ OpInv' /\ OrphanInv' /\ UnresolvedPinsOwner' /\ CommittedWasOnRemote'
        /\ OneOperationPerGeneration'
    BY DEF ReconcileObserve, GenInv, OpInv, OrphanInv, UnresolvedPinsOwner,
           CommittedWasOnRemote, OneOperationPerGeneration, Unresolved
  <1> QED
    BY <1>1, <1>2, <1>3, <1>4, <1>5, <1>6

\* The verdict is committed only on the candidate itself.
LEMMA ReconcileRecordPreserves ==
    ASSUME IInv, NEW p \in Procs, ReconcileRecord(p)
    PROVE  IInv'
  <1> USE AbsentAssumption, TimeAssumption, AncestorAssumption
      DEF IInv, store, local, remote
  <1>a. /\ req[p].op \in OpIds /\ ops[req[p].op] \in PushOperations
        /\ ops[req[p].op].phase # "none"
        /\ landing' = landing /\ counter' = counter
        /\ held' = held /\ remoteRef' = remoteRef
        /\ landing.operation = req[p].op
        /\ landing.holder = ops[req[p].op].actor /\ landing.gen = ops[req[p].op].gen
    BY DEF ReconcileRecord, Unresolved, Custody, Fenced, LocalsInv, TypeOK
  <1>v. /\ Verdict(ops[req[p].op], req[p].seen) \in Phases
        /\ Verdict(ops[req[p].op], req[p].seen) = "committed"
              => req[p].seen = ops[req[p].op].candidate
    BY DEF Verdict, Phases
  <1>b. /\ ops'[req[p].op].phase = Verdict(ops[req[p].op], req[p].seen)
        /\ ops'[req[p].op].actor = ops[req[p].op].actor
        /\ ops'[req[p].op].gen = ops[req[p].op].gen
        /\ ops'[req[p].op].expected = ops[req[p].op].expected
        /\ ops'[req[p].op].candidate = ops[req[p].op].candidate
        /\ ops'[req[p].op].remote = ops[req[p].op].remote
    BY <1>a DEF ReconcileRecord, TypeOK, PushOperations
  <1>c. \A o \in OpIds \ {req[p].op} : ops'[o] = ops[o]
    BY <1>a DEF ReconcileRecord, TypeOK
  <1>d. \A q \in Procs : pc'[q] = "idle"
    BY DEF ReconcileRecord, Return, Goto, LockInv, TypeOK
  <1>1. TypeOK'
    <2>1. ops' \in [OpIds -> PushOperations]
      <3>1. req[p].seen \in Oids \cup {NoOid}
        BY <1>a DEF TypeOK, PushOperations, Requests
      <3>2. ops'[req[p].op] \in PushOperations
        BY <1>a, <3>1, <1>v DEF ReconcileRecord, TypeOK, PushOperations
      <3> QED
        BY <1>a, <1>c, <3>2 DEF ReconcileRecord, TypeOK
    <2>2. req' \in [Procs -> Requests]
      BY DEF ReconcileRecord, Return, TypeOK, Requests, NoRequest, NoFence
    <2>4. pc' \in [Procs -> PCs]
      BY DEF ReconcileRecord, Return, Goto, TypeOK, PCs
    <2> QED
      BY <2>1, <2>2, <2>4 DEF ReconcileRecord, Return, TypeOK
  <1>2. LockInv'
    BY DEF ReconcileRecord, Verdict, Custody, Fenced, Unresolved, Return, Goto, NoRequest,
           TypeOK, LockInv
  <1>3. GenInv'
    BY <1>a, <1>b, <1>c, <1>v DEF GenInv, Phases
  <1>4. OpInv'
    BY <1>a, <1>b, <1>c, <1>v DEF OpInv, Phases
  <1>5. LocalsInv'
    BY <1>d DEF LocalsInv
  <1>6. SeenInv'
    BY <1>a, <1>d DEF SeenInv
  <1>7. UnresolvedPinsOwner'
    BY <1>a, <1>b, <1>c DEF UnresolvedPinsOwner, Unresolved
  <1>8. PushUnderCustody'
    BY <1>d DEF PushUnderCustody
  <1>9. CommittedWasOnRemote'
    <2>1. ops[req[p].op].candidate \in Oids
      BY <1>a DEF OpInv
    <2>2. Verdict(ops[req[p].op], req[p].seen) = "committed" =>
             ops[req[p].op].candidate \in held[ops[req[p].op].remote]
      BY <1>v, <2>1 DEF ReconcileRecord, SeenInv
    <2> QED
      BY <1>a, <1>b, <1>c, <2>2 DEF CommittedWasOnRemote
  <1>10. OneOperationPerGeneration'
    BY <1>a, <1>b, <1>c DEF OneOperationPerGeneration
  <1>11. OrphanInv'
    BY DEF ReconcileRecord, OrphanInv
  <1> QED
    BY <1>1, <1>2, <1>3, <1>4, <1>5, <1>6, <1>7, <1>8, <1>9, <1>10, <1>11

\* No fact of the invariant depends on the clock.
LEMMA ClockPreserves ==
    ASSUME IInv, ClockStep
    PROVE  IInv'
  <1> USE AbsentAssumption, TimeAssumption, AncestorAssumption
      DEF IInv, store, local, remote
  <1>1. TypeOK'
    BY DEF ClockStep, TypeOK
  <1>2. LockInv' /\ GenInv' /\ OpInv' /\ LocalsInv' /\ OrphanInv' /\ SeenInv' /\
        UnresolvedPinsOwner' /\ PushUnderCustody' /\ CommittedWasOnRemote' /\
        OneOperationPerGeneration'
    BY DEF ClockStep, LockInv, GenInv, OpInv, LocalsInv, OrphanInv, SeenInv,
           UnresolvedPinsOwner, PushUnderCustody, CommittedWasOnRemote,
           OneOperationPerGeneration, Fenced, Unresolved, Custody
  <1> QED
    BY <1>1, <1>2

\* An abandoned push is still a fast-forward compare-and-swap.
LEMMA OrphanLandsPreserves ==
    ASSUME IInv, NEW w \in orphans, OrphanLands(w)
    PROVE  IInv'
  <1> USE AbsentAssumption, TimeAssumption, AncestorAssumption
      DEF IInv, store, local, remote
  <1>1. TypeOK'
    BY DEF OrphanLands, Serve, TypeOK, Pushes
  <1>2. OrphanInv'
    BY DEF OrphanLands, Serve, TypeOK, OrphanInv, LocalsInv
  <1>3. SeenInv'
    BY DEF OrphanLands, Serve, TypeOK, SeenInv, OpInv, LocalsInv, LockInv, Requests
  <1>4. CommittedWasOnRemote'
    BY DEF OrphanLands, Serve, TypeOK, CommittedWasOnRemote, OpInv, SeenInv, LocalsInv
  <1>5. LockInv' /\ GenInv' /\ OpInv' /\ LocalsInv' /\ UnresolvedPinsOwner' /\
        PushUnderCustody' /\ OneOperationPerGeneration'
    BY DEF OrphanLands, LockInv, GenInv, OpInv, LocalsInv, UnresolvedPinsOwner,
           PushUnderCustody, OneOperationPerGeneration, Fenced, Unresolved, Custody
  <1> QED
    BY <1>1, <1>2, <1>3, <1>4, <1>5

\* An abandoned push may never arrive.
LEMMA OrphanLostPreserves ==
    ASSUME IInv, NEW w \in orphans, OrphanLost(w)
    PROVE  IInv'
  <1> USE AbsentAssumption, TimeAssumption, AncestorAssumption
      DEF IInv, store, local, remote
  <1>1. TypeOK'
    BY DEF OrphanLost, TypeOK, Pushes
  <1>2. OrphanInv'
    BY DEF OrphanLost, TypeOK, OrphanInv, LocalsInv
  <1>3. LockInv' /\ GenInv' /\ OpInv' /\ LocalsInv' /\ SeenInv' /\ UnresolvedPinsOwner' /\
        PushUnderCustody' /\ CommittedWasOnRemote' /\ OneOperationPerGeneration'
    BY DEF OrphanLost, LockInv, GenInv, OpInv, LocalsInv, SeenInv, UnresolvedPinsOwner,
           PushUnderCustody, CommittedWasOnRemote, OneOperationPerGeneration, Fenced,
           Unresolved, Custody
  <1> QED
    BY <1>1, <1>2, <1>3

\* Others may move the ref in any way.
LEMMA RemoteMovedPreserves ==
    ASSUME IInv, NEW r \in Remotes, NEW oid \in Oids \cup {NoOid}, RemoteMoved(r, oid)
    PROVE  IInv'
  <1> USE AbsentAssumption, TimeAssumption, AncestorAssumption
      DEF IInv, store, local, remote
  <1>1. TypeOK'
    BY DEF RemoteMoved, TypeOK
  <1>2. SeenInv'
    BY DEF RemoteMoved, TypeOK, SeenInv, OpInv, LocalsInv, LockInv, Requests
  <1>3. CommittedWasOnRemote'
    BY DEF RemoteMoved, TypeOK, CommittedWasOnRemote, OpInv, SeenInv, LocalsInv
  <1>4. LockInv' /\ GenInv' /\ OpInv' /\ LocalsInv' /\ OrphanInv' /\ UnresolvedPinsOwner'
        /\ PushUnderCustody' /\ OneOperationPerGeneration'
    BY DEF RemoteMoved, LockInv, GenInv, OpInv, LocalsInv, OrphanInv, UnresolvedPinsOwner,
           PushUnderCustody, OneOperationPerGeneration, Fenced, Unresolved, Custody
  <1> QED
    BY <1>1, <1>2, <1>3, <1>4

\* A new origin does not touch frozen operations.
LEMMA OriginPreserves ==
    ASSUME IInv, OriginChanged
    PROVE  IInv'
  <1> USE AbsentAssumption, TimeAssumption, AncestorAssumption
      DEF IInv, store, local, remote
  <1>1. TypeOK'
    BY DEF OriginChanged, TypeOK
  <1>2. LockInv' /\ GenInv' /\ OpInv' /\ LocalsInv' /\ OrphanInv' /\ SeenInv' /\
        UnresolvedPinsOwner' /\ PushUnderCustody' /\ CommittedWasOnRemote' /\
        OneOperationPerGeneration'
    BY DEF OriginChanged, LockInv, GenInv, OpInv, LocalsInv, OrphanInv, SeenInv,
           UnresolvedPinsOwner, PushUnderCustody, CommittedWasOnRemote,
           OneOperationPerGeneration, Fenced, Unresolved, Custody
  <1> QED
    BY <1>1, <1>2
\* The initial store, with no row, no operation and no process, is consistent.
LEMMA InitEstablishes == Init => IInv
  <1> SUFFICES ASSUME Init PROVE IInv
    OBVIOUS
  <1> USE AbsentAssumption, TimeAssumption, AncestorAssumption
      DEF Init, NoLanding, NoOperation, NoRequest, NoFence
  <1>1. TypeOK
    BY DEF TypeOK, Landings, PushOperations, Fences, Requests, PCs, Phases, Pushes
  <1>2. LockInv /\ GenInv /\ OpInv /\ LocalsInv /\ OrphanInv /\ SeenInv
    BY DEF LockInv, GenInv, OpInv, LocalsInv, OrphanInv, SeenInv
  <1>3. /\ UnresolvedPinsOwner /\ PushUnderCustody
        /\ CommittedWasOnRemote /\ OneOperationPerGeneration
    BY DEF OneOperationPerGeneration, UnresolvedPinsOwner, Unresolved, PushUnderCustody,
           CommittedWasOnRemote
  <1> QED
    BY <1>1, <1>2, <1>3 DEF IInv

\* A presented fence is well formed: its generation and token were handed out.
LEMMA PresentedFences == TypeOK => Presented \subseteq Fences
  BY DEF TypeOK, Presented, Fences

\* A step that changes nothing keeps the invariant.
LEMMA StutterPreserves == ASSUME IInv, UNCHANGED vars PROVE IInv'
  BY DEF vars, store, local, remote, IInv, TypeOK, LockInv, GenInv, OpInv, LocalsInv,
         OrphanInv, SeenInv, UnresolvedPinsOwner, Unresolved, PushUnderCustody, Custody,
         Fenced, CommittedWasOnRemote, OneOperationPerGeneration

\* Every step of the landing keeps the invariant.
LEMMA NextPreserves == IInv /\ [Next]_vars => IInv'
  <1> SUFFICES ASSUME IInv, [Next]_vars PROVE IInv'
    OBVIOUS
  <1>0. Presented \subseteq Fences
    BY PresentedFences DEF IInv
  <1>1. CASE StoreNext
    BY <1>0, <1>1, AcquirePreserves, RenewPreserves, ReleasePreserves, PrunePreserves
       DEF StoreNext
  <1>2. ASSUME NEW p \in Procs, ProcNext(p) PROVE IInv'
    <2>1. CASE StartPush(p) \/ StartReconcile(p)
      BY <1>0, <2>1, LockPreserves DEF StartPush, StartReconcile
    <2>2. CASE PushCheck(p) \/ PreparePush(p) \/ ObserveRemote(p) \/ BeginPush(p)
      BY <2>2, CheckPreserves, PreparePreserves, ObservePreserves, BeginPreserves
    <2>3. CASE SpawnPush(p) \/ ServePush(p) \/ ConfirmPush(p) \/ UncertainPush(p)
      BY <2>3, SpawnPreserves, ServePreserves, ConfirmPreserves, UncertainPreserves
    <2>4. CASE ReconcileObserve(p) \/ ReconcileRecord(p) \/ Abandon(p)
      BY <2>4, ReconcileObservePreserves, ReconcileRecordPreserves, AbandonPreserves
    <2> QED
      BY <1>2, <2>1, <2>2, <2>3, <2>4 DEF ProcNext
  <1>3. CASE EnvNext
    BY <1>3, ClockPreserves, OrphanLandsPreserves, OrphanLostPreserves,
       RemoteMovedPreserves, OriginPreserves DEF EnvNext
  <1>4. CASE UNCHANGED vars
    BY <1>4, StutterPreserves
  <1> QED
    BY <1>1, <1>2, <1>3, <1>4 DEF Next

\* The invariant holds in every reachable state.
LEMMA Inductive == Spec => []IInv
  BY InitEstablishes, NextPreserves, PTL DEF Spec

-----------------------------------------------------------------------------
\* Rows, operations, process locals and the remote keep their types.
THEOREM TypeCorrect == Spec => []TypeOK
  <1>1. IInv => TypeOK
    BY DEF IInv
  <1> QED
    BY <1>1, Inductive, PTL

\* Expiry, release and takeover never separate an unresolved push from the
\* generation and holder that started it, whatever the wall clock does.
THEOREM OwnerPinned == Spec => []UnresolvedPinsOwner
  <1>1. IInv => UnresolvedPinsOwner
    BY DEF IInv
  <1> QED
    BY <1>1, Inductive, PTL

\* While Git runs, the pushing process keeps the lock, its fence and its
\* operation in Pushing, and pushes exactly what the operation froze.
THEOREM CustodyHeld == Spec => []PushUnderCustody
  <1>1. IInv => PushUnderCustody
    BY DEF IInv
  <1> QED
    BY <1>1, Inductive, PTL

\* A committed operation's candidate really was on the remote it names.
THEOREM NoFalseLanding == Spec => []CommittedWasOnRemote
  <1>1. IInv => CommittedWasOnRemote
    BY DEF IInv
  <1> QED
    BY <1>1, Inductive, PTL

\* One acquisition of the landing drives at most one push operation.
THEOREM SingleOperation == Spec => []OneOperationPerGeneration
  <1>1. IInv => OneOperationPerGeneration
    BY DEF IInv
  <1> QED
    BY <1>1, Inductive, PTL

\* No push, of a live process or of one that died, rewinds the remote ref.
THEOREM FastForwardOnly == Spec => PushesFastForward
  <1>1. IInv /\ [Next]_vars =>
          [\A r \in Remotes :
              ((\E p \in Procs : ServePush(p)) \/ (\E w \in orphans : OrphanLands(w)))
              /\ remoteRef'[r] # remoteRef[r]
                  => <<remoteRef[r], remoteRef'[r]>> \in Ancestor]_vars
    <2> SUFFICES ASSUME IInv, NEW r \in Remotes, remoteRef'[r] # remoteRef[r],
                        (\E p \in Procs : ServePush(p)) \/ (\E w \in orphans :
                           OrphanLands(w))
                 PROVE  <<remoteRef[r], remoteRef'[r]>> \in Ancestor
      OBVIOUS
    <2>1. CASE \E p \in Procs : ServePush(p)
      <3>1. PICK p \in Procs : ServePush(p)
        BY <2>1
      <3>2. <<InFlight(p).expected, InFlight(p).candidate>> \in Ancestor
        BY <3>1 DEF IInv, LocalsInv, ServePush, InFlight
      <3> QED
        BY <3>1, <3>2 DEF ServePush, Serve, IInv, TypeOK
    <2>2. CASE \E w \in orphans : OrphanLands(w)
      BY <2>2 DEF OrphanLands, Serve, IInv, TypeOK, OrphanInv
    <2> QED
      BY <2>1, <2>2
  <1> QED
    BY <1>1, Inductive, PTL DEF Spec, PushesFastForward

\* Committed and Conflict are final, and a frozen request never changes.
THEOREM SettledIsFinal == Spec => SettledStaysSettled
  <1>1. IInv /\ [Next]_vars =>
          [\A o \in OpIds : ops[o].phase # "none" =>
              /\ SameRequest(ops'[o], ops[o])
              /\ ops[o].phase \in {"committed", "conflict"} => ops'[o] = ops[o]]_vars
    <2> SUFFICES ASSUME IInv, Next, NEW o \in OpIds, ops[o].phase # "none"
                 PROVE  /\ SameRequest(ops'[o], ops[o])
                        /\ ops[o].phase \in {"committed", "conflict"} => ops'[o] = ops[o]
      OBVIOUS
    <2>1. CASE ops' = ops
      BY <2>1 DEF SameRequest
    <2>2. ASSUME NEW p \in Procs,
                 \/ PreparePush(p) \/ BeginPush(p) \/ ConfirmPush(p)
                 \/ UncertainPush(p) \/ ReconcileRecord(p)
          PROVE  /\ SameRequest(ops'[o], ops[o])
                 /\ ops[o].phase \in {"committed", "conflict"} => ops'[o] = ops[o]
      <3>1. ops[o] \in PushOperations
        BY DEF IInv, TypeOK
      <3>2. CASE PreparePush(p)
        BY <3>2 DEF PreparePush, IInv, TypeOK, SameRequest
      <3>3. CASE BeginPush(p) \/ ConfirmPush(p) \/ UncertainPush(p) \/ ReconcileRecord(p)
        BY <3>1, <3>3 DEF BeginPush, MayBegin, ConfirmPush, UncertainPush,
                          ReconcileRecord, Unresolved,
                          PushOperations, IInv, TypeOK, SameRequest
      <3> QED
        BY <2>2, <3>2, <3>3
    <2>3. \/ ops' = ops
          \/ \E p \in Procs : \/ PreparePush(p) \/ BeginPush(p) \/ ConfirmPush(p)
                              \/ UncertainPush(p) \/ ReconcileRecord(p)
      <3>1. CASE StoreNext
        BY <3>1 DEF StoreNext, AcquireLanding, RenewLanding, ReleaseLanding, PruneReleased
      <3>2. CASE EnvNext
        BY <3>2 DEF EnvNext, ClockStep, OrphanLands, OrphanLost, RemoteMoved,
                    OriginChanged, store
      <3>3. CASE \E p \in Procs : ProcNext(p)
        BY <3>3 DEF ProcNext, StartPush, StartReconcile, LockLanding, PushCheck,
                    ObserveRemote,
                    SpawnPush, ServePush, ReconcileObserve, Abandon, store
      <3> QED
        BY <3>1, <3>2, <3>3 DEF Next
    <2> QED
      BY <2>1, <2>2, <2>3
  <1> QED
    BY <1>1, Inductive, PTL DEF Spec, SettledStaysSettled
=============================================================================
