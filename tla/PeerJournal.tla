----------------------------- MODULE PeerJournal -----------------------------
(***************************************************************************)
(* Mutations of a coordination home on another host (fabric-runtime,       *)
(* home.rs, RemoteCoordination::call; fabric-store, federation.rs).  A      *)
(* caller freezes its request in a local journal, marks it sent, exchanges *)
(* it over SSH and records the owner's answer; a request whose outcome is  *)
(* uncertain is only looked up in the owner's receipts.                    *)
(*                                                                         *)
(* Several processes of one actor may work on one operation id: a retry    *)
(* while the first call still runs.  Each journal transition is one local  *)
(* transaction.  An SSH request may be lost, or run at the owner long      *)
(* after its caller gave up.                                               *)
(***************************************************************************)
EXTENDS Naturals, FiniteSets

CONSTANTS
    Procs,      \* local processes calling RemoteCoordination::call
    Ops,        \* operation ids
    Inputs,     \* request bodies
    Results,    \* what the owner may answer to an applied mutation
    None

Refused == "refused"
Answers == Results \cup {Refused}

\* What the owner says when it does not answer: another error, decoded apart
\* from the results and from a definitive refusal.
NoAnswer == {"busy", "mismatch", "other"}

ASSUME AnswerAssumption ==
    /\ None \notin Inputs \cup Answers \cup NoAnswer \cup Ops \cup Procs
    /\ Results \cap (NoAnswer \cup {Refused}) = {}

VARIABLES
    journal,    \* peer_operations: phase, frozen request, recorded response
    receipts,   \* the owner's coordination_operations
    wire,       \* mutation requests under way; from = None once nobody waits
    pc,         \* where each process stands in RemoteCoordination::call
    call,       \* its operation and request, and the reply it holds
    callers,    \* history: the processes that called with each operation id
    told        \* history: recorded answers returned to callers

vars == <<journal, receipts, wire, pc, call, callers, told>>

Phases == {"absent", "prepared", "sent", "unknown", "committed"}
Replies == Answers \cup NoAnswer \cup {None}

TypeOK ==
    /\ journal \in [Ops -> [phase : Phases, input : Inputs \cup {None},
                            answer : Answers \cup {None}]]
    /\ receipts \in [Ops -> Results \cup {None}]
    /\ wire \subseteq [op : Ops, from : Procs \cup {None}]
    /\ pc \in [Procs -> {"idle", "mark", "send", "wait", "ask", "record"}]
    /\ call \in [Procs -> [op : Ops \cup {None}, reply : Replies]]
    /\ callers \in [Ops -> SUBSET Procs]
    /\ told \subseteq [op : Ops, answer : Answers]
    /\ \A o \in Ops : /\ journal[o].answer # None <=> journal[o].phase = "committed"
                      /\ journal[o].input # None <=> journal[o].phase # "absent"

NoCall == [op |-> None, reply |-> None]

Init ==
    /\ journal = [o \in Ops |-> [phase |-> "absent", input |-> None, answer |-> None]]
    /\ receipts = [o \in Ops |-> None]
    /\ wire = {}
    /\ pc = [p \in Procs |-> "idle"]
    /\ call = [p \in Procs |-> NoCall]
    /\ callers = [o \in Ops |-> {}]
    /\ told = {}
-----------------------------------------------------------------------------
(* Wrong variants of the definitions below, each a bug the code could have; *)
(* substituting one must break the property named beside it.                *)
MutMayCommit(row, answer) == row.phase # "absent"                 \* AnswersAgree
MutSentAgain(row) == row.phase = "unknown"                       \* RefusalIsFinal
MutGivenUp(row) == row.phase = "sent"                         \* AppliedIsLearned

(* peer_phase and retry_peer, the journal's transitions *)

\* PeerPhaseChange::Sent
MayMarkSent(row) == row.phase \in {"prepared", "sent"}

\* PeerPhaseChange::Unknown
MayMarkUnknown(row) == row.phase \in {"sent", "unknown"}

\* PeerPhaseChange::Committed; a repeated commit must carry the same response.
MayCommit(row, answer) ==
    \/ row.phase \in {"sent", "unknown"}
    \/ row.phase = "committed" /\ row.answer = answer

Committed(row, answer) == [row EXCEPT !.phase = "committed", !.answer = answer]

\* retry_peer
MayRetry(row) == row.phase = "sent"

SetPhase(o, phase) == journal' = [journal EXCEPT ![o].phase = phase]
-----------------------------------------------------------------------------
(* RemoteCoordination::call *)

Goto(p, label) == pc' = [pc EXCEPT ![p] = label]
Return(p) == Goto(p, "idle") /\ call' = [call EXCEPT ![p] = NoCall]

\* A request already sent, or of unknown outcome, is only looked up.
LookupNeeded(row) == row.phase \in {"sent", "unknown"}

\* prepare_peer: freeze the request or find it frozen; a different request
\* under the same id is a conflict.
Prepare(p, o, i) ==
    /\ pc[p] = "idle"
    /\ journal[o].input \in {None, i}
    /\ journal' = [journal EXCEPT ![o].input = i,
                                  ![o].phase = IF @ = "absent" THEN "prepared" ELSE @]
    /\ IF journal[o].phase = "committed"
       THEN /\ told' = told \cup {[op |-> o, answer |-> journal[o].answer]}
            /\ UNCHANGED <<pc, call>>
       ELSE /\ Goto(p, IF LookupNeeded(journal[o]) THEN "ask" ELSE "mark")
            /\ call' = [call EXCEPT ![p].op = o]
            /\ UNCHANGED told
    /\ callers' = [callers EXCEPT ![o] = @ \cup {p}]
    /\ UNCHANGED <<receipts, wire>>

MarkSent(p) ==
    LET o == call[p].op IN
    /\ pc[p] = "mark"
    /\ MayMarkSent(journal[o])
    /\ SetPhase(o, "sent")
    /\ Goto(p, "send")
    /\ UNCHANGED <<receipts, wire, call, callers, told>>

\* transport.exchange of the mutation
Send(p) ==
    /\ pc[p] = "send"
    /\ wire' = wire \cup {[op |-> call[p].op, from |-> p]}
    /\ Goto(p, "wait")
    /\ UNCHANGED <<journal, receipts, call, callers, told>>

\* The exchange failed: a timeout, a cancellation, a broken or lost reply.
\* What was sent may still reach the owner.  Recording it may fail too.
ExchangeFails(p) ==
    LET o == call[p].op IN
    /\ pc[p] = "wait"
    /\ \/ MayMarkUnknown(journal[o]) /\ SetPhase(o, "unknown")
       \/ UNCHANGED journal
    /\ wire' = {IF w.from = p THEN [w EXCEPT !.from = None] ELSE w : w \in wire}
    /\ Return(p)
    /\ UNCHANGED <<receipts, callers, told>>

\* The owner's receipt, or the journal, answers: record it and return it.
RecordAnswer(p) ==
    LET o == call[p].op
        answer == call[p].reply
    IN
    /\ pc[p] = "record"
    /\ answer \in Answers
    /\ MayCommit(journal[o], answer)
    /\ journal' = [journal EXCEPT ![o] = Committed(journal[o], answer)]
    /\ told' = told \cup {[op |-> o, answer |-> answer]}
    /\ Return(p)
    /\ UNCHANGED <<receipts, wire, callers>>

\* A transient refusal, or a peer of another protocol: the same request may be
\* sent again.
RetryLater(p) ==
    LET o == call[p].op IN
    /\ pc[p] = "record"
    /\ call[p].reply \in {"busy", "mismatch"}
    /\ MayRetry(journal[o])
    /\ SetPhase(o, "prepared")
    /\ Return(p)
    /\ UNCHANGED <<receipts, wire, callers, told>>

\* Any other answer proves nothing.
RecordUnknown(p) ==
    LET o == call[p].op IN
    /\ pc[p] = "record"
    /\ call[p].reply = "other"
    /\ MayMarkUnknown(journal[o])
    /\ SetPhase(o, "unknown")
    /\ Return(p)
    /\ UNCHANGED <<receipts, wire, callers, told>>

\* PeerAction::Receipt: only a receipt of the owner is an answer.
AskReceipt(p) ==
    LET o == call[p].op IN
    /\ pc[p] = "ask"
    /\ receipts[o] # None
    /\ call' = [call EXCEPT ![p].reply = receipts[o]]
    /\ Goto(p, "record")
    /\ UNCHANGED <<journal, receipts, wire, callers, told>>

\* An error return at any point, a refused journal write, or the process dies.
Abandon(p) ==
    /\ pc[p] # "idle"
    /\ wire' = {IF w.from = p THEN [w EXCEPT !.from = None] ELSE w : w \in wire}
    /\ Return(p)
    /\ UNCHANGED <<journal, receipts, callers, told>>
-----------------------------------------------------------------------------
(* The owning home *)

\* Receipt afterwards and reply of one run of the mutation: a receipt is
\* replayed; otherwise the mutation is applied with its receipt, or refused
\* and nothing is kept.
OwnerAnswers(o) ==
    IF receipts[o] # None
    THEN {<<receipts[o], reply>> : reply \in {receipts[o], "mismatch", "other"}}
    ELSE {<<None, reply>> : reply \in {Refused, "busy", "mismatch", "other"}}
         \cup {<<r, reply>> : r \in Results, reply \in {"mismatch", "other"}}
         \cup {<<r, r>> : r \in Results}

OwnerRuns(w) ==
    /\ \E answer \in OwnerAnswers(w.op) :
        /\ receipts' = [receipts EXCEPT ![w.op] = answer[1]]
        /\ IF w.from = None THEN UNCHANGED <<pc, call>>
           ELSE /\ Goto(w.from, "record")
                /\ call' = [call EXCEPT ![w.from].reply = answer[2]]
    /\ wire' = wire \ {w}
    /\ UNCHANGED <<journal, callers, told>>

Lost(w) ==
    /\ w.from = None
    /\ wire' = wire \ {w}
    /\ UNCHANGED <<journal, receipts, pc, call, callers, told>>
-----------------------------------------------------------------------------
Caller(p) ==
    \/ \E o \in Ops, i \in Inputs : Prepare(p, o, i)
    \/ MarkSent(p) \/ Send(p) \/ ExchangeFails(p)
    \/ RecordAnswer(p) \/ RetryLater(p) \/ RecordUnknown(p)
    \/ AskReceipt(p) \/ Abandon(p)

Next ==
    \/ \E p \in Procs : Caller(p)
    \/ \E w \in wire : OwnerRuns(w) \/ Lost(w)

Spec == Init /\ [][Next]_vars

\* Fairness: a process keeps running, and some process calls again for an
\* operation without an answer; a journal, a transport and an owner that work
\* now and then are tried until they do.
Fairness ==
    /\ \A o \in Ops : SF_vars(\E p \in Procs, i \in Inputs : Prepare(p, o, i))
    /\ \A p \in Procs :
        /\ WF_vars(pc[p] # "idle" /\ Caller(p))
        /\ SF_vars(MarkSent(p))
        /\ SF_vars(Send(p))
        /\ SF_vars(\E w \in wire : OwnerRuns(w) /\ call'[p].reply \in Answers)
        /\ SF_vars(AskReceipt(p))
        /\ SF_vars(RecordAnswer(p))

FairSpec == Spec /\ Fairness
-----------------------------------------------------------------------------
(* Properties *)

\* Every call that returns an answer for an operation id returns the same one,
\* and a success is the owner's: whatever was lost, delayed or run twice, the
\* owner applied this mutation and keeps a receipt with that result (peer_phase
\* refuses a second response, coordination_operation replays the first).  An
\* answer stands exactly in committed rows, a request in every row (TypeOK).
AnswersAgree ==
    /\ TypeOK
    /\ \A x, y \in told : x.op = y.op => x = y
    /\ \A o \in Ops : journal[o].answer \in Results => receipts[o] = journal[o].answer

\* A refusal recorded as the answer of an operation that one process called is
\* final: the mutation was not applied and no copy of the request is under way
\* that could still apply it (is_definitive_refusal).
RefusalIsFinal ==
    \A o \in Ops : journal[o].answer = Refused /\ Cardinality(callers[o]) = 1 =>
        receipts[o] = None /\ ~ \E w \in wire : w.op = o

\* A mutation the owner applied becomes the journal's answer in the end,
\* though its reply was lost, as long as one process calls for it: two may undo
\* each other's phases for ever (the receipt lookup of RemoteCoordination::call).
AppliedIsLearned ==
    \A o \in Ops :
        receipts[o] # None ~> journal[o].phase = "committed" \/ Cardinality(callers[o]) > 1
=============================================================================
