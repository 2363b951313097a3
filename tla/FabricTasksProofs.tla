--------------------------- MODULE FabricTasksProofs ---------------------------
(***************************************************************************)
(* Proofs about FabricTasks, for any tasks, actors, operation ids, leases  *)
(* and any movement of the clock.                                          *)
(*                                                                         *)
(* Answers are tied to receipts: an answer is its operation's receipt, so  *)
(* whatever holds of receipts holds of all that callers saw.  Fences need  *)
(* that no receipt is ahead of its task's generation and that two claim    *)
(* receipts never share one.  The rows are handled once, by RowSteps: it   *)
(* reduces every step of the system to one of six changes of one row.      *)
(***************************************************************************)
EXTENDS FabricTasks, TLAPS

\* An answer repeats its operation's receipt.
AnswerInv ==
    \A x \in answers :
        /\ receipts[x.op] # NoReceipt
        /\ x = Answer(x.op, receipts[x.op].actor, receipts[x.op].input, receipts[x.op].result)

\* No receipt is ahead of its task's generation.
ReceiptInv ==
    \A o \in Ops : receipts[o] # NoReceipt =>
        receipts[o].result.gen <= tasks[receipts[o].result.task].gen

\* Claim receipts of one task and generation are one receipt.
GrantInv ==
    \A o, q \in Ops :
        /\ receipts[o] # NoReceipt /\ receipts[q] # NoReceipt
        /\ receipts[o].input.kind = "claim" /\ receipts[q].input.kind = "claim"
        /\ receipts[o].result.task = receipts[q].result.task
        /\ receipts[o].result.gen = receipts[q].result.gen
        => o = q

IInv == TypeOK /\ AnswerInv /\ ReceiptInv /\ GrantInv

\* The changes a row can undergo in one step.
Granted(old, new) ==
    /\ old.state \in {"open", "active"}
    /\ \E a \in Actors, k \in Tokens, e \in Nat \ {0} :
          new = [old EXCEPT !.state = "active", !.owner = a, !.token = k,
                            !.gen = old.gen + 1, !.expires = e]

RowStep(old, new) ==
    \/ new = old
    \/ old.state = "absent" /\ new = [old EXCEPT !.state = "open"]
    \/ Granted(old, new)
    \/ old.state = "active" /\ \E e \in Nat \ {0} : new = [old EXCEPT !.expires = e]
    \/ old.state = "active" /\ new = [old EXCEPT !.writer = old.gen]
    \/ old.state = "active" /\ \E to \in {"open"} \cup Finished : new = Closed(old, to)

\* Each row changes in one of these ways, and no row appears or disappears.
RowsStep ==
    /\ tasks' = [u \in Tasks |-> tasks'[u]]
    /\ \A u \in Tasks : RowStep(tasks[u], tasks'[u])

\* The CHECK constraint, of one row.
Checked(row) ==
    /\ row.state = "active" <=> row.owner # NoActor
    /\ row.state = "active" <=> row.token # NoToken
    /\ row.state = "active" <=> row.expires # 0

-----------------------------------------------------------------------------
(* Rows *)

\* A row's change keeps its type and its CHECK constraint.
LEMMA RowStepType ==
    ASSUME NEW old \in Rows, Checked(old), NEW new, RowStep(old, new)
    PROVE  new \in Rows /\ Checked(new)
<1> USE TaskConstants
<1>1. CASE new = old
    BY <1>1
<1>2. CASE old.state = "absent" /\ new = [old EXCEPT !.state = "open"]
    BY <1>2 DEF Rows, States, Finished, Checked
<1>3. CASE Granted(old, new)
    <2>1. PICK a \in Actors, k \in Tokens, e \in Nat \ {0} :
             new = [old EXCEPT !.state = "active", !.owner = a, !.token = k,
                               !.gen = old.gen + 1, !.expires = e]
        BY <1>3 DEF Granted
    <2>2. a # NoActor /\ k # NoToken /\ old.gen + 1 \in Nat
        BY DEF Rows
    <2>3. new \in Rows
        BY <2>1, <2>2 DEF Rows, States
    <2>4. new.state = "active" /\ new.owner = a /\ new.token = k /\ new.expires = e
        BY <2>1 DEF Rows
    <2> QED
        BY <2>2, <2>3, <2>4 DEF Checked
<1>4. CASE old.state = "active" /\ \E e \in Nat \ {0} : new = [old EXCEPT !.expires = e]
    BY <1>4 DEF Rows, Checked
<1>5. CASE old.state = "active" /\ new = [old EXCEPT !.writer = old.gen]
    BY <1>5 DEF Rows, Checked
<1>6. CASE old.state = "active" /\ \E to \in {"open"} \cup Finished : new = Closed(old, to)
    <2>1. PICK to \in {"open"} \cup Finished : new = Closed(old, to)
        BY <1>6
    <2>2. new \in Rows
        BY <2>1 DEF Rows, States, Closed
    <2>3. new.state # "active" /\ new.owner = NoActor /\ new.token = NoToken /\ new.expires = 0
        BY <2>1 DEF Rows, Finished, Closed
    <2> QED
        BY <2>2, <2>3 DEF Checked
<1> QED
    BY <1>1, <1>2, <1>3, <1>4, <1>5, <1>6 DEF RowStep

\* A generation grows with a grant and never otherwise changes.
LEMMA RowStepGen ==
    ASSUME NEW old \in Rows, NEW new, RowStep(old, new)
    PROVE  /\ new.gen \in Nat /\ old.gen <= new.gen
           /\ Granted(old, new) \/ new.gen = old.gen
           /\ Granted(old, new) => new.gen = old.gen + 1 /\ new.owner \in Actors
<1>1. CASE Granted(old, new)
    <2>1. PICK a \in Actors, k \in Tokens, e \in Nat \ {0} :
             new = [old EXCEPT !.state = "active", !.owner = a, !.token = k,
                               !.gen = old.gen + 1, !.expires = e]
        BY <1>1 DEF Granted
    <2>2. old.gen \in Nat /\ new.gen = old.gen + 1 /\ new.owner = a
        BY <2>1 DEF Rows
    <2> QED
        BY <1>1, <2>2
<1>2. CASE ~ Granted(old, new)
    <2>1. old.gen \in Nat
        BY DEF Rows
    <2>2. new.gen = old.gen
        BY <1>2 DEF Rows, RowStep, Closed
    <2> QED
        BY <1>2, <2>1, <2>2
<1> QED
    BY <1>1, <1>2

LEMMA TypeParts ==
    TypeOK <=>
        /\ now \in Times
        /\ tasks \in [Tasks -> Rows]
        /\ \A t \in Tasks : Checked(tasks[t])
        /\ receipts \in [Ops -> Receipts \cup {NoReceipt}]
        /\ answers \subseteq Answers
BY DEF TypeOK, Checked

\* A presented proof, and so every request, is well formed.
LEMMA RequestTypes ==
    ASSUME TypeOK
    PROVE  Presented \subseteq Proofs /\ Requests \subseteq Inputs
<1>1. Presented \subseteq Proofs
    BY DEF TypeOK, Presented, Answers
<1> QED
    BY <1>1 DEF Requests, Inputs, Writes, Closes

\* Replaces one row by a change of it.
LEMMA OneRow ==
    ASSUME TypeOK, NEW t \in Tasks, NEW new, RowStep(tasks[t], new),
           tasks' = [tasks EXCEPT ![t] = new]
    PROVE  RowsStep
BY DEF TypeOK, RowStep, RowsStep

LEMMA CreateRow ==
    ASSUME TypeOK, NEW i \in Inputs, NEW r \in Proofs, CreateTask(i, r)
    PROVE  RowsStep
<1>1. r.task \in Tasks
    BY DEF Proofs
<1>2. tasks' = [tasks EXCEPT ![r.task] = [tasks[r.task] EXCEPT !.state = "open"]]
    BY DEF CreateTask
<1>3. RowStep(tasks[r.task], [tasks[r.task] EXCEPT !.state = "open"])
    BY DEF CreateTask, RowStep
<1> QED
    BY <1>1, <1>2, <1>3, OneRow

LEMMA ClaimRow ==
    ASSUME TypeOK, NEW a \in Actors, NEW i \in Inputs, NEW r \in Proofs, ClaimTask(a, i, r)
    PROVE  /\ RowsStep
           /\ r.task = i.task /\ r.gen = tasks[r.task].gen + 1 /\ tasks'[r.task].gen = r.gen
<1> USE TaskConstants
<1>1. i.task \in Tasks /\ i.lease \in Nat \ {0} /\ r.task = i.task
      /\ r.gen = tasks[i.task].gen + 1 /\ r.token \in Tokens
    BY DEF ClaimTask, Claims, Proofs
<1> DEFINE new == [tasks[i.task] EXCEPT !.state = "active", !.owner = a, !.token = r.token,
                                        !.gen = r.gen, !.expires = now + i.lease]
<1>2. tasks' = [tasks EXCEPT ![i.task] = new]
    BY DEF ClaimTask
<1>3. now + i.lease \in Nat \ {0}
    BY <1>1 DEF TypeOK
<1>4. tasks[i.task].state \in {"open", "active"}
    BY DEF ClaimTask, Claimable
<1>5. Granted(tasks[i.task], new)
    BY <1>1, <1>3, <1>4 DEF Granted
<1>6. RowStep(tasks[i.task], new)
    BY <1>5 DEF RowStep
<1>7. RowsStep
    BY <1>1, <1>2, <1>6, OneRow
<1>8. tasks'[i.task].gen = r.gen
    BY <1>1, <1>2 DEF TypeOK, Rows
<1> QED
    BY <1>1, <1>7, <1>8

LEMMA UpdateRow ==
    ASSUME TypeOK, NEW a \in Actors, NEW i \in Inputs, NEW r, UpdateTask(a, i, r)
    PROVE  /\ RowsStep
           /\ r.task = i.proof.task /\ r.gen = tasks[r.task].gen
<1> DEFINE t == i.proof.task
<1>1. /\ i.proof \in Proofs /\ t \in Tasks
      /\ tasks[t].state = "active" /\ tasks[t].gen = i.proof.gen
    BY DEF UpdateTask, Fenced, Writes, Proofs
<1>2. tasks' = [tasks EXCEPT ![t] = [tasks[t] EXCEPT !.writer = tasks[t].gen]]
    BY <1>1 DEF UpdateTask
<1>3. RowStep(tasks[t], [tasks[t] EXCEPT !.writer = tasks[t].gen])
    BY <1>1 DEF RowStep
<1>4. r.task = t /\ r.gen = i.proof.gen
    BY <1>1 DEF UpdateTask, Proofs
<1> QED
    BY <1>1, <1>2, <1>3, <1>4, OneRow

LEMMA CloseRow ==
    ASSUME TypeOK, NEW a \in Actors, NEW i \in Inputs, NEW r, CloseTask(a, i, r)
    PROVE  /\ RowsStep
           /\ r.task = i.proof.task /\ r.gen = tasks[r.task].gen
<1> DEFINE t == i.proof.task
<1>1. /\ i.proof \in Proofs /\ t \in Tasks /\ i.to \in {"open"} \cup Finished
      /\ tasks[t].state = "active" /\ tasks[t].gen = i.proof.gen
    BY DEF CloseTask, Fenced, Closes, Proofs
<1>2. tasks' = [tasks EXCEPT ![t] = Closed(tasks[t], i.to)]
    BY DEF CloseTask
<1>3. RowStep(tasks[t], Closed(tasks[t], i.to))
    BY <1>1 DEF RowStep
<1>4. r.task = t /\ r.gen = i.proof.gen
    BY <1>1 DEF CloseTask, Proofs
<1> QED
    BY <1>1, <1>2, <1>3, <1>4, OneRow

LEMMA RenewRow ==
    ASSUME TypeOK, NEW a \in Actors, NEW p \in Proofs, NEW l \in Leases, RenewTask(a, p, l)
    PROVE  RowsStep
<1> USE TaskConstants
<1>1. p.task \in Tasks /\ tasks[p.task].state = "active"
    BY DEF RenewTask, Fenced, Proofs
<1>2. now + l \in Nat \ {0}
    BY DEF TypeOK
<1>3. tasks' = [tasks EXCEPT ![p.task] = [tasks[p.task] EXCEPT !.expires = now + l]]
    BY DEF RenewTask
<1>4. RowStep(tasks[p.task], [tasks[p.task] EXCEPT !.expires = now + l])
    BY <1>1, <1>2 DEF RowStep
<1> QED
    BY <1>1, <1>3, <1>4, OneRow

LEMMA StillRows ==
    ASSUME TypeOK, UNCHANGED tasks
    PROVE  RowsStep
BY DEF TypeOK, RowStep, RowsStep

\* What execution does besides the row: a claim is ahead of its task, any other
\* result is not.
LEMMA ExecuteRow ==
    ASSUME TypeOK, NEW o \in Ops, NEW a \in Actors, NEW i \in Inputs, NEW r \in Proofs,
           Execute(o, a, i, r)
    PROVE  /\ RowsStep
           /\ r.gen <= tasks'[r.task].gen
           /\ i.kind = "claim" => r.gen = tasks[r.task].gen + 1
<1>r. r.task \in Tasks /\ r.gen \in Nat /\ tasks \in [Tasks -> Rows]
    BY DEF Proofs, TypeOK
<1>1. CASE CreateTask(i, r)
    <2>1. RowsStep
        BY <1>1, CreateRow
    <2>2. tasks[r.task].gen <= tasks'[r.task].gen /\ tasks[r.task].gen \in Nat
          /\ tasks'[r.task].gen \in Nat
        BY <1>r, <2>1, RowStepGen DEF Rows, RowsStep
    <2>3. r.gen = 0 /\ i.kind = "create"
        BY <1>1 DEF CreateTask, Creates
    <2> QED
        BY <2>1, <2>2, <2>3
<1>2. CASE ClaimTask(a, i, r)
    BY <1>2, <1>r, ClaimRow
<1>3. CASE UpdateTask(a, i, r)
    <2>1. RowsStep /\ r.gen = tasks[r.task].gen
        BY <1>3, UpdateRow
    <2>2. tasks[r.task].gen <= tasks'[r.task].gen
        BY <1>r, <2>1, RowStepGen DEF RowsStep
    <2>3. i.kind = "update"
        BY <1>3 DEF UpdateTask, Writes
    <2> QED
        BY <2>1, <2>2, <2>3
<1>4. CASE CloseTask(a, i, r)
    <2>1. RowsStep /\ r.gen = tasks[r.task].gen
        BY <1>4, CloseRow
    <2>2. tasks[r.task].gen <= tasks'[r.task].gen
        BY <1>r, <2>1, RowStepGen DEF RowsStep
    <2>3. i.kind = "close"
        BY <1>4 DEF CloseTask, Closes
    <2> QED
        BY <2>1, <2>2, <2>3
<1> QED
    BY <1>1, <1>2, <1>3, <1>4 DEF Execute

\* Every step of the system makes one of these changes to each row.
LEMMA RowSteps ==
    ASSUME TypeOK, [Next]_vars
    PROVE  RowsStep
<1> USE RequestTypes
<1>1. ASSUME NEW o \in Ops, NEW a \in Actors, NEW i \in Requests, Replay(o, a, i)
      PROVE  UNCHANGED tasks
    BY <1>1 DEF Replay
<1>2. ASSUME NEW o \in Ops, NEW a \in Actors, NEW i \in Requests, NEW t \in Tasks,
             NEW g \in 0..MaxGen, NEW k \in Tokens \cup {NoToken},
             Execute(o, a, i, [task |-> t, gen |-> g, token |-> k])
      PROVE  RowsStep
    <2>1. i \in Inputs /\ [task |-> t, gen |-> g, token |-> k] \in Proofs
        BY TaskConstants DEF Proofs
    <2> QED
        BY <1>2, <2>1, ExecuteRow
<1>3. ASSUME NEW o \in Ops, NEW a \in Actors, ReadReceipt(o, a)
      PROVE  UNCHANGED tasks
    BY <1>3 DEF ReadReceipt
<1>4. ASSUME NEW a \in Actors, NEW p \in Presented, NEW l \in Leases, RenewTask(a, p, l)
      PROVE  RowsStep
    BY <1>4, RenewRow
<1>5. CASE ClockMoves
    BY <1>5, StillRows DEF ClockMoves
<1>6. CASE UNCHANGED vars
    BY <1>6, StillRows DEF vars
<1> QED
    BY <1>1, <1>2, <1>3, <1>4, <1>5, <1>6, StillRows DEF Next

-----------------------------------------------------------------------------
(* The inductive invariant *)

LEMMA InitIInv ==
    ASSUME Init
    PROVE  IInv
<1>1. NoTask \in Rows /\ Checked(NoTask)
    BY DEF NoTask, Rows, States, Checked
<1>2. TypeOK
    BY <1>1, TypeParts DEF Init
<1> QED
    BY <1>2 DEF Init, IInv, AnswerInv, ReceiptInv, GrantInv

\* Rows' types survive any step, and receipts that stay stay behind.
LEMMA RowsPreserved ==
    ASSUME TypeOK, [Next]_vars
    PROVE  /\ tasks' \in [Tasks -> Rows] /\ \A t \in Tasks : Checked(tasks'[t])
           /\ \A t \in Tasks : /\ tasks[t].gen \in Nat /\ tasks'[t].gen \in Nat
                               /\ tasks[t].gen <= tasks'[t].gen
<1>1. \A t \in Tasks : RowStep(tasks[t], tasks'[t]) /\ tasks[t] \in Rows /\ Checked(tasks[t])
    BY RowSteps, TypeParts DEF RowsStep
<1>2. \A t \in Tasks : tasks'[t] \in Rows /\ Checked(tasks'[t])
    BY <1>1, RowStepType
<1>3. \A t \in Tasks : tasks[t].gen \in Nat /\ tasks'[t].gen \in Nat
                       /\ tasks[t].gen <= tasks'[t].gen
    BY <1>1, RowStepGen DEF Rows
<1>4. tasks' = [t \in Tasks |-> tasks'[t]]
    BY RowSteps DEF RowsStep
<1>5. tasks' \in [Tasks -> Rows]
    BY <1>2, <1>4
<1> QED
    BY <1>2, <1>3, <1>5

LEMMA ExecuteIInv ==
    ASSUME IInv, Next, NEW o \in Ops, NEW a \in Actors, NEW i \in Inputs, NEW r \in Proofs,
           Execute(o, a, i, r)
    PROVE  IInv'
<1> DEFINE new == [actor |-> a, input |-> i, result |-> r]
           ans == Answer(o, a, i, r)
<1>t. TypeOK /\ AnswerInv /\ ReceiptInv /\ GrantInv
    BY DEF IInv
<1>r. /\ receipts[o] = NoReceipt /\ receipts' = [receipts EXCEPT ![o] = new]
      /\ receipts \in [Ops -> Receipts \cup {NoReceipt}]
      /\ new \in Receipts /\ new # NoReceipt
      /\ answers' = answers \/ answers' = answers \cup {ans}
      /\ now' = now
    BY <1>t, ReceiptConstants DEF Execute, Recorded, Receipts, TypeOK
<1>n. receipts'[o] = new /\ \A q \in Ops : q # o => receipts'[q] = receipts[q]
    BY <1>r
<1>g. /\ tasks' \in [Tasks -> Rows] /\ \A t \in Tasks : Checked(tasks'[t])
      /\ \A t \in Tasks : /\ tasks[t].gen \in Nat /\ tasks'[t].gen \in Nat
                          /\ tasks[t].gen <= tasks'[t].gen
    BY <1>t, RowsPreserved
<1>e. r.gen <= tasks'[r.task].gen /\ (i.kind = "claim" => r.gen = tasks[r.task].gen + 1)
    BY <1>t, ExecuteRow
<1>k. i.kind \in {"create", "claim", "update", "close"}
    BY DEF Inputs, Creates, Claims, Writes, Closes
<1>a. ans \in Answers
    BY <1>k DEF Answer, Answers
<1>q. \A q \in Ops : receipts[q] # NoReceipt =>
         receipts[q].result.task \in Tasks /\ receipts[q].result.gen \in Nat
    BY <1>r DEF Receipts, Proofs
<1>1. TypeOK'
    <2>1. receipts' \in [Ops -> Receipts \cup {NoReceipt}]
        BY <1>r
    <2>2. answers' \subseteq Answers /\ now' \in Times
        BY <1>r, <1>a, <1>t DEF TypeOK
    <2> QED
        BY <2>1, <2>2, <1>g DEF TypeOK, Checked
<1>2. AnswerInv'
    <2>1. \A x \in answers : x.op \in Ops /\ x.op # o
        BY <1>t, <1>r DEF AnswerInv, TypeOK, Answers
    <2>2. \A x \in answers :
             /\ receipts'[x.op] # NoReceipt
             /\ x = Answer(x.op, receipts'[x.op].actor, receipts'[x.op].input,
                           receipts'[x.op].result)
        BY <2>1, <1>n, <1>t DEF AnswerInv
    <2>3. ans.op = o
        BY DEF Answer
    <2>4. ans = Answer(o, receipts'[o].actor, receipts'[o].input, receipts'[o].result)
        BY <1>n
    <2>5. \A x \in answers' : x \in answers \/ x = ans
        BY <1>r
    <2> QED
        BY <2>2, <2>3, <2>4, <2>5, <1>n, <1>r DEF AnswerInv, Answer
<1>3. ReceiptInv'
    <2>1. \A q \in Ops : q # o /\ receipts[q] # NoReceipt =>
             receipts[q].result.gen <= tasks'[receipts[q].result.task].gen
        BY <1>t, <1>q, <1>g DEF ReceiptInv
    <2> QED
        BY <2>1, <1>n, <1>e DEF ReceiptInv
<1>4. GrantInv'
    <2>1. \A q \in Ops : q # o /\ receipts[q] # NoReceipt /\ receipts[q].result.task = r.task
             => receipts[q].result.gen # tasks[r.task].gen + 1
        BY <1>t, <1>q, <1>g DEF ReceiptInv
    <2> QED
        BY <2>1, <1>n, <1>e, <1>t DEF GrantInv
<1> QED
    BY <1>1, <1>2, <1>3, <1>4 DEF IInv

\* A reply taken from the receipt adds nothing new.
LEMMA AnswerIInv ==
    ASSUME IInv, NEW o \in Ops, receipts[o] # NoReceipt, UNCHANGED <<now, tasks, receipts>>,
           answers' = answers \cup {Answer(o, receipts[o].actor, receipts[o].input,
                                            receipts[o].result)}
    PROVE  IInv'
<1> DEFINE ans == Answer(o, receipts[o].actor, receipts[o].input, receipts[o].result)
<1>t. TypeOK /\ AnswerInv /\ ReceiptInv /\ GrantInv
    BY DEF IInv
<1>1. receipts[o] \in Receipts
    BY <1>t DEF TypeOK
<1>2. receipts[o].input.kind \in {"create", "claim", "update", "close"}
    BY <1>1 DEF Receipts, Inputs, Creates, Claims, Writes, Closes
<1>3. ans \in Answers /\ ans.op = o
    BY <1>1, <1>2 DEF Answer, Answers, Receipts
<1>4. TypeOK'
    BY <1>3, <1>t DEF TypeOK
<1>5. AnswerInv'
    BY <1>3, <1>t DEF AnswerInv, Answer
<1>6. ReceiptInv' /\ GrantInv'
    BY <1>t DEF ReceiptInv, GrantInv
<1> QED
    BY <1>4, <1>5, <1>6 DEF IInv

\* A step that leaves receipts and answers alone.
LEMMA QuietIInv ==
    ASSUME IInv, [Next]_vars, UNCHANGED <<receipts, answers>>, now' \in Times
    PROVE  IInv'
<1>t. TypeOK /\ AnswerInv /\ ReceiptInv /\ GrantInv
    BY DEF IInv
<1>g. /\ tasks' \in [Tasks -> Rows] /\ \A t \in Tasks : Checked(tasks'[t])
      /\ \A t \in Tasks : /\ tasks[t].gen \in Nat /\ tasks'[t].gen \in Nat
                          /\ tasks[t].gen <= tasks'[t].gen
    BY <1>t, RowsPreserved
<1>1. TypeOK'
    BY <1>g, <1>t DEF TypeOK, Checked
<1>2. AnswerInv' /\ GrantInv'
    BY <1>t DEF AnswerInv, GrantInv
<1>3. ReceiptInv'
    <2>1. \A q \in Ops : receipts[q] # NoReceipt =>
             receipts[q].result.task \in Tasks /\ receipts[q].result.gen \in Nat
        BY <1>t DEF TypeOK, Receipts, Proofs
    <2> QED
        BY <2>1, <1>t, <1>g DEF ReceiptInv
<1> QED
    BY <1>1, <1>2, <1>3 DEF IInv

LEMMA NextIInv ==
    ASSUME IInv, [Next]_vars
    PROVE  IInv'
<1> USE RequestTypes
<1>t. TypeOK /\ now \in Times
    BY DEF IInv, TypeOK
<1>1. ASSUME NEW o \in Ops, NEW a \in Actors, NEW i \in Requests, Replay(o, a, i)
      PROVE  IInv'
    BY <1>1, AnswerIInv DEF Replay
<1>2. ASSUME Next, NEW o \in Ops, NEW a \in Actors, NEW i \in Requests, NEW t \in Tasks,
             NEW g \in 0..MaxGen, NEW k \in Tokens \cup {NoToken},
             Execute(o, a, i, [task |-> t, gen |-> g, token |-> k])
      PROVE  IInv'
    <2>1. i \in Inputs /\ [task |-> t, gen |-> g, token |-> k] \in Proofs
        BY <1>t, TaskConstants DEF Proofs
    <2> QED
        BY <1>2, <2>1, ExecuteIInv
<1>3. ASSUME NEW o \in Ops, NEW a \in Actors, ReadReceipt(o, a)
      PROVE  IInv'
    BY <1>3, AnswerIInv DEF ReadReceipt
<1>4. ASSUME NEW a \in Actors, NEW p \in Presented, NEW l \in Leases, RenewTask(a, p, l)
      PROVE  IInv'
    BY <1>4, <1>t, QuietIInv DEF RenewTask
<1>5. CASE ClockMoves
    BY <1>5, QuietIInv DEF ClockMoves
<1>6. CASE UNCHANGED vars
    BY <1>6, <1>t, QuietIInv DEF vars
<1> QED
    BY <1>1, <1>2, <1>3, <1>4, <1>5, <1>6 DEF Next

LEMMA Inductive == Spec => []IInv
BY InitIInv, NextIInv, PTL DEF Spec

-----------------------------------------------------------------------------
(* Steps *)

LEMMA DeadStep ==
    ASSUME IInv, [Next]_vars, NEW x \in answers, ~ Fenced(x.actor, x.result)
    PROVE  ~ Fenced(x.actor, x.result)'
<1> DEFINE t == x.result.task
           old == tasks[t]
           new == tasks'[t]
<1>t. TypeOK /\ AnswerInv /\ ReceiptInv
    BY DEF IInv
<1>1. x.op \in Ops /\ t \in Tasks /\ x.result.gen \in Nat
    BY <1>t DEF TypeOK, Answers, Proofs
<1>2. x.result.gen <= old.gen
    <2>1. receipts[x.op] # NoReceipt /\ x.result = receipts[x.op].result
        BY <1>t DEF AnswerInv, Answer
    <2> QED
        BY <1>1, <2>1, <1>t DEF ReceiptInv
<1>3. old \in Rows /\ RowStep(old, new)
    BY <1>t, <1>1, RowSteps DEF TypeOK, RowsStep
<1>4. CASE Granted(old, new)
    <2>1. new.gen = old.gen + 1 /\ old.gen \in Nat
        BY <1>3, <1>4, RowStepGen DEF Rows
    <2> QED
        BY <1>1, <1>2, <2>1 DEF Fenced
<1>5. CASE ~ Granted(old, new)
    <2>1. \/ new.state # "active"
          \/ /\ new.state = old.state /\ new.owner = old.owner
             /\ new.gen = old.gen /\ new.token = old.token
        BY <1>3, <1>5 DEF RowStep, Rows, Closed, Finished
    <2> QED
        BY <2>1 DEF Fenced
<1> QED
    BY <1>4, <1>5

LEMMA LeaseStep ==
    ASSUME IInv, [Next]_vars, NEW t \in Tasks
    PROVE  LeaseOf(t)!Next \/ UNCHANGED <<tasks[t].owner, tasks[t].gen>>
<1> DEFINE old == tasks[t]
           new == tasks'[t]
<1>t. TypeOK
    BY DEF IInv
<1>1. old \in Rows /\ Checked(old) /\ RowStep(old, new)
    BY <1>t, RowSteps, TypeParts DEF RowsStep
<1>2. CASE Granted(old, new)
    <2>1. new.gen = old.gen + 1 /\ new.owner \in Actors
        BY <1>1, <1>2, RowStepGen
    <2> QED
        BY <2>1 DEF LeaseOf!Next, LeaseOf!Grant
<1>3. CASE ~ Granted(old, new)
    <2>1. \/ new.owner = old.owner /\ new.gen = old.gen
          \/ old.owner # NoActor /\ new.owner = NoActor /\ new.gen = old.gen
        BY <1>1, <1>3 DEF RowStep, Rows, Closed, Checked
    <2> QED
        BY <2>1 DEF LeaseOf!Next, LeaseOf!GiveUp
<1> QED
    BY <1>2, <1>3

-----------------------------------------------------------------------------
(* Theorems *)

\* Rows keep the shape the schema's CHECK constraint demands.
THEOREM TypeCorrect == Spec => []TypeOK
BY Inductive, PTL DEF IInv

\* All the answers an operation id ever gives are one result to one actor,
\* whatever was lost, retried or read back.
THEOREM OneAnswer == Spec => []AnswersAgree
<1>1. IInv => AnswersAgree
    <2> SUFFICES ASSUME IInv, NEW x \in answers, NEW y \in answers, x.op = y.op
                 PROVE  x = y
        BY DEF AnswersAgree
    <2> QED
        BY DEF IInv, AnswerInv
<1> QED
    BY <1>1, Inductive, PTL

\* Two claims of a task never obtain the same generation.
THEOREM GenerationsUnique == Spec => []FencesUnique
<1>1. IInv => FencesUnique
    <2> SUFFICES ASSUME IInv, NEW x \in answers, NEW y \in answers,
                        x.kind = "claim", y.kind = "claim",
                        x.result.task = y.result.task, x.result.gen = y.result.gen
                 PROVE  x = y
        BY DEF FencesUnique
    <2>1. /\ x.op \in Ops /\ receipts[x.op] # NoReceipt
          /\ receipts[x.op].input.kind = "claim" /\ receipts[x.op].result = x.result
        BY DEF IInv, AnswerInv, Answer, TypeOK, Answers
    <2>2. /\ y.op \in Ops /\ receipts[y.op] # NoReceipt
          /\ receipts[y.op].input.kind = "claim" /\ receipts[y.op].result = y.result
        BY DEF IInv, AnswerInv, Answer, TypeOK, Answers
    <2>3. x.op = y.op
        BY <2>1, <2>2 DEF IInv, GrantInv
    <2> QED
        BY <2>3 DEF IInv, AnswerInv
<1> QED
    BY <1>1, Inductive, PTL

\* A proof that stopped matching its task never matches it again.
THEOREM NoRevival == Spec => DeadFencesStayDead
<1>1. IInv /\ [Next]_vars =>
        [\A x \in answers : ~ Fenced(x.actor, x.result) => ~ Fenced(x.actor, x.result)']_vars
    BY DeadStep
<1> QED
    BY <1>1, Inductive, PTL DEF Spec, DeadFencesStayDead

\* A superseded holder's late update never changes a task.
THEOREM NoStaleUpdate == Spec => UpdatesByLatestGrant
<1>1. IInv /\ [Next]_vars =>
        [\A t \in Tasks : tasks'[t].writer # tasks[t].writer => tasks'[t].writer = tasks[t].gen]_vars
    <2> SUFFICES ASSUME IInv, [Next]_vars, NEW t \in Tasks
                 PROVE  tasks'[t].writer # tasks[t].writer => tasks'[t].writer = tasks[t].gen
        OBVIOUS
    <2>1. tasks[t] \in Rows /\ RowStep(tasks[t], tasks'[t])
        BY RowSteps DEF IInv, TypeOK, RowsStep
    <2> QED
        BY <2>1 DEF RowStep, Rows, Granted, Closed
<1> QED
    BY <1>1, Inductive, PTL DEF Spec, UpdatesByLatestGrant

\* A done or cancelled task is final.
THEOREM FinishedIsFinal == Spec => FinishedStaysFinished
<1>1. IInv /\ [Next]_vars =>
        [\A t \in Tasks : tasks[t].state \in Finished => UNCHANGED tasks[t]]_vars
    <2> SUFFICES ASSUME IInv, [Next]_vars, NEW t \in Tasks, tasks[t].state \in Finished
                 PROVE  tasks'[t] = tasks[t]
        OBVIOUS
    <2>1. RowStep(tasks[t], tasks'[t])
        BY RowSteps DEF IInv, RowsStep
    <2> QED
        BY <2>1 DEF RowStep, Granted, Finished
<1> QED
    BY <1>1, Inductive, PTL DEF Spec, FinishedStaysFinished

\* Every task implements the abstract fenced lease.
THEOREM ImplementsLease == Spec => LeasePerTask
<1>1. Init => \A t \in Tasks : LeaseOf(t)!Init
    BY DEF Init, NoTask, LeaseOf!Init
<1>2. IInv /\ [Next]_vars =>
        [\A t \in Tasks : LeaseOf(t)!Next \/ UNCHANGED <<tasks[t].owner, tasks[t].gen>>]_vars
    BY LeaseStep
<1> QED
    BY <1>1, <1>2, Inductive, PTL DEF Spec, LeasePerTask
=============================================================================
