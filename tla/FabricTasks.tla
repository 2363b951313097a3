------------------------------ MODULE FabricTasks ------------------------------
(***************************************************************************)
(* Tasks of one project (fabric-store, tasks.rs) behind the retryable      *)
(* coordination API (operations.rs, LocalCoordination::mutate): a caller   *)
(* names its request with an operation id, the store commits the effect    *)
(* and a receipt in one immediate SQLite transaction, and the reply may be *)
(* lost, so that the caller asks again.                                    *)
(*                                                                         *)
(* The wall clock may move in either direction.                            *)
(***************************************************************************)
EXTENDS Naturals

CONSTANTS
    Actors, Tokens, Tasks,
    Ops,            \* operation ids
    Leases,         \* lease lengths a caller may ask for
    Times,          \* readings of the wall clock
    MaxGen,         \* the i64 bound of save
    NoActor, NoToken, NoReceipt

ASSUME TaskConstants ==
    /\ NoActor \notin Actors
    /\ NoToken \notin Tokens
    /\ Leases \subseteq Nat \ {0}
    /\ Times \subseteq Nat
    /\ MaxGen \in Nat

Finished == {"done", "cancelled"}

States == {"absent", "open", "active"} \cup Finished

Rows == [state : States, owner : Actors \cup {NoActor}, token : Tokens \cup {NoToken},
         gen : Nat, expires : Nat, writer : Nat]

\* A proof, and what other requests return of the task, with NoToken.
Proofs == [task : Tasks, gen : Nat, token : Tokens \cup {NoToken}]

\* TaskInput, as frozen into a receipt.  Ids and tokens are drawn while the
\* request executes and are not part of it.
Creates == [kind : {"create"}]
Claims == [kind : {"claim"}, task : Tasks, lease : Leases]
Writes == [kind : {"update"}, proof : Proofs]
Closes == [kind : {"close"}, proof : Proofs, to : {"open"} \cup Finished]

Inputs == Creates \cup Claims \cup Writes \cup Closes

Receipts == [actor : Actors, input : Inputs, result : Proofs]

Answers == [op : Ops, actor : Actors, kind : {"create", "claim", "update", "close"},
            result : Proofs]

ASSUME ReceiptConstants == NoReceipt \notin Receipts

VARIABLES
    now,        \* wall clock
    tasks,      \* tasks table; writer is the generation of the last update's fence
    receipts,   \* coordination_operations
    answers     \* history: successful replies that reached their caller

vars == <<now, tasks, receipts, answers>>

NoTask == [state |-> "absent", owner |-> NoActor, token |-> NoToken, gen |-> 0,
           expires |-> 0, writer |-> 0]

Init ==
    /\ now \in Times
    /\ tasks = [t \in Tasks |-> NoTask]
    /\ receipts = [o \in Ops |-> NoReceipt]
    /\ answers = {}

-----------------------------------------------------------------------------
(* Deliberately wrong variants of definitions below, each a bug the code could *)
(* have; substituting one must break the property named beside it.             *)

MutResetGeneration(row, to) ==                                     \* LeasePerTask
    [row EXCEPT !.state = to, !.owner = NoActor, !.token = NoToken, !.expires = 0,
                !.gen = 0]
MutFenced(a, p) ==                                         \* UpdatesByLatestGrant
    tasks[p.task].state = "active" /\ tasks[p.task].owner = a
MutRecorded(o, a, i, r) == receipts                                \* AnswersAgree

(* The store *)

\* fenced, without require_live.
Fenced(a, p) ==
    /\ tasks[p.task].state = "active"
    /\ tasks[p.task].owner = a
    /\ tasks[p.task].gen = p.gen
    /\ tasks[p.task].token = p.token

\* claim_task takes an open task, or an active one whose lease has lapsed.
Claimable(t) ==
    \/ tasks[t].state = "open"
    \/ tasks[t].state = "active" /\ tasks[t].expires <= now

Closed(row, to) ==
    [row EXCEPT !.state = to, !.owner = NoActor, !.token = NoToken, !.expires = 0]

\* create_task under an id drawn for the purpose.
CreateTask(i, r) ==
    /\ i \in Creates
    /\ tasks[r.task].state = "absent"
    /\ r.gen = 0 /\ r.token = NoToken
    /\ tasks' = [tasks EXCEPT ![r.task].state = "open"]

\* claim_task with a token drawn for the purpose; the result is the proof.
ClaimTask(a, i, r) ==
    /\ i \in Claims
    /\ Claimable(i.task)
    /\ tasks[i.task].gen < MaxGen
    /\ r.task = i.task /\ r.gen = tasks[i.task].gen + 1 /\ r.token # NoToken
    /\ tasks' = [tasks EXCEPT ![i.task] =
          [@ EXCEPT !.state = "active", !.owner = a, !.token = r.token, !.gen = r.gen,
                    !.expires = now + i.lease]]

\* update_task, then the read of the row that the reply carries.
UpdateTask(a, i, r) ==
    /\ i \in Writes
    /\ Fenced(a, i.proof) /\ tasks[i.proof.task].expires > now
    /\ r = [i.proof EXCEPT !.token = NoToken]
    /\ tasks' = [tasks EXCEPT ![i.proof.task].writer = i.proof.gen]

\* release_task and finish_task: an expired owner may close what nobody took over.
CloseTask(a, i, r) ==
    /\ i \in Closes
    /\ Fenced(a, i.proof)
    /\ r = [i.proof EXCEPT !.token = NoToken]
    /\ tasks' = [tasks EXCEPT ![i.proof.task] = Closed(@, i.to)]

-----------------------------------------------------------------------------
(* The coordination API *)

Recorded(o, a, i, r) ==
    [receipts EXCEPT ![o] = [actor |-> a, input |-> i, result |-> r]]

Answer(o, a, i, r) == [op |-> o, actor |-> a, kind |-> i.kind, result |-> r]

\* coordination_operation without a receipt: the effect and its receipt commit
\* together; a refused action commits neither.  The reply arrives or is lost.
Execute(o, a, i, r) ==
    /\ receipts[o] = NoReceipt
    /\ \/ CreateTask(i, r)
       \/ ClaimTask(a, i, r)
       \/ UpdateTask(a, i, r)
       \/ CloseTask(a, i, r)
    /\ receipts' = Recorded(o, a, i, r)
    /\ answers' \in {answers, answers \cup {Answer(o, a, i, r)}}
    /\ UNCHANGED now

\* replay: the same actor and the same frozen input recover the stored result;
\* any other request under the id is refused.
Replay(o, a, i) ==
    /\ receipts[o] # NoReceipt
    /\ receipts[o].actor = a /\ receipts[o].input = i
    /\ answers' = answers \cup {Answer(o, a, i, receipts[o].result)}
    /\ UNCHANGED <<now, tasks, receipts>>

\* coordination_receipt: the actor alone recovers the result.
ReadReceipt(o, a) ==
    /\ receipts[o] # NoReceipt
    /\ receipts[o].actor = a
    /\ answers' = answers \cup {Answer(o, a, receipts[o].input, receipts[o].result)}
    /\ UNCHANGED <<now, tasks, receipts>>

\* renew_task, a store operation without a receipt.
RenewTask(a, p, lease) ==
    /\ Fenced(a, p) /\ tasks[p.task].expires > now
    /\ tasks' = [tasks EXCEPT ![p.task].expires = now + lease]
    /\ UNCHANGED <<now, receipts, answers>>

ClockMoves ==
    /\ now' \in Times \ {now}
    /\ UNCHANGED <<tasks, receipts, answers>>

\* Proofs are the ones some caller was handed, presented under any identity.
Presented == {x.result : x \in {y \in answers : y.kind = "claim"}}

Requests ==
    Creates \cup Claims
    \cup [kind : {"update"}, proof : Presented]
    \cup [kind : {"close"}, proof : Presented, to : {"open"} \cup Finished]

Next ==
    \/ \E o \in Ops, a \in Actors, i \in Requests :
          Replay(o, a, i)
          \/ \E t \in Tasks, g \in 0..MaxGen, k \in Tokens \cup {NoToken} :
                Execute(o, a, i, [task |-> t, gen |-> g, token |-> k])
    \/ \E o \in Ops, a \in Actors : ReadReceipt(o, a)
    \/ \E a \in Actors, p \in Presented, l \in Leases : RenewTask(a, p, l)
    \/ ClockMoves

Spec == Init /\ [][Next]_vars

-----------------------------------------------------------------------------
(* Properties *)

\* Types, and the CHECK constraint of the tasks table: exactly the active rows
\* have an owner, a token and an expiry.
TypeOK ==
    /\ now \in Times
    /\ tasks \in [Tasks -> Rows]
    /\ \A t \in Tasks :
          /\ tasks[t].state = "active" <=> tasks[t].owner # NoActor
          /\ tasks[t].state = "active" <=> tasks[t].token # NoToken
          /\ tasks[t].state = "active" <=> tasks[t].expires # 0
    /\ receipts \in [Ops -> Receipts \cup {NoReceipt}]
    /\ answers \subseteq Answers

\* "Atomic replay" (operations.rs), "another inbox cannot recover a claimant's
\* secret proof": whatever is lost, retried or read back from the receipt, all
\* the answers an operation id ever gives are one result, to one actor.
AnswersAgree == \A x, y \in answers : x.op = y.op => x = y

\* Two grants of a task never carry the same generation: the two answers are of
\* one operation, whatever expired, was released or was retried between them.
FencesUnique ==
    \A x, y \in answers :
        /\ x.kind = "claim" /\ y.kind = "claim"
        /\ x.result.task = y.result.task /\ x.result.gen = y.result.gen
        => x = y

\* "Takeover invalidates every older fence" (fabric-store README), for good: a
\* proof that stopped matching its task never matches it again, even when the
\* same actor claims the task once more or the clock is set back.
DeadFencesStayDead ==
    [][\A x \in answers : ~ Fenced(x.actor, x.result) => ~ Fenced(x.actor, x.result)']_vars

\* A late update of a superseded holder never lands: a change of the objective
\* or note is made under the newest generation.
UpdatesByLatestGrant ==
    [][\A t \in Tasks : tasks'[t].writer # tasks[t].writer => tasks'[t].writer = tasks[t].gen]_vars

\* A done or cancelled task is final: no claim, retry or late release reopens it.
FinishedStaysFinished ==
    [][\A t \in Tasks : tasks[t].state \in Finished => UNCHANGED tasks[t]]_vars

\* Each task is a fenced lease: its owner changes only with a new generation.
LeaseOf(t) == INSTANCE FencedLease WITH owner <- tasks[t].owner, generation <- tasks[t].gen

LeasePerTask ==
    /\ \A t \in Tasks : LeaseOf(t)!Init
    /\ [][\A t \in Tasks : LeaseOf(t)!Next \/ UNCHANGED <<tasks[t].owner, tasks[t].gen>>]_vars
=============================================================================
