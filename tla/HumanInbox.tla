------------------------------ MODULE HumanInbox ------------------------------
(***************************************************************************)
(* Human requests, their answers and the delivery of an answer to the chair *)
(* session that asked (fabric-store, human_inbox.rs and local_delivery.rs;  *)
(* fabric-runtime, inbox.rs; front-door, hooks.rs, guard_reply).  A request *)
(* opens, is answered at most once and is closed at most once; an answer    *)
(* goes out as mail and as an outbox row that is offered until its exact    *)
(* target acknowledges it.                                                  *)
(*                                                                         *)
(* A hook runs in steps of its own: it reads candidates from a snapshot,    *)
(* marks the ones no hook envelope can hold, records the offer in a second  *)
(* transaction and prints; it may run out of time after any step.           *)
(***************************************************************************)
EXTENDS FabricMail

CONSTANTS
    Requests,       \* human request ids
    Timed,          \* requests that have a deadline
    Answers,        \* answer ids: numbers, offered in ascending order
    Chairs,         \* chair sessions
    Ops,            \* operation ids: a caller's new one is the smallest unused
    Hooks,          \* hook processes
    Fit,            \* how an answer's text fits a hook envelope
    PageItems,      \* MAX_LOCAL_OFFER_ITEMS
    Envelope,       \* answers that fit one hook envelope together
    MaxRequests,    \* MAX_HUMAN_REQUESTS
    MaxAttempts,    \* bound on the offers of one answer
    None

ASSUME InboxAssumption ==
    /\ Timed \subseteq Requests
    /\ Answers \subseteq Nat /\ Answers \subseteq Messages
    /\ MailboxOf \in [Chairs -> Mailboxes]
    /\ Ops \subseteq Nat
    /\ Fit \in [Answers -> {"fits", "tight", "oversized"}]
    /\ {PageItems, Envelope, MaxRequests, MaxAttempts} \subseteq Nat \ {0}
    /\ None \notin Requests \cup Answers \cup Chairs

VARIABLES
    requests,       \* human_requests
    history,        \* human_request_history: the states of each revision
    outbox,         \* human_answers and human_answer_outbox
    receipts,       \* operations whose receipt is stored
    applied,        \* history: how many operations had their effects
    elapsed,        \* requests whose deadline has passed
    hook,           \* each hook process: its step, target and page
    received        \* history: answers handed to each chair session

inboxVars == <<requests, history, outbox, receipts, applied, elapsed, hook, received>>
vars == <<mailVars, inboxVars>>

NoRequest == [state |-> "absent", revision |-> 0, chair |-> None, answer |-> None]
NoAnswer == [request |-> None, chair |-> None, state |-> "absent",
             attempts |-> 0, tooLarge |-> FALSE]
Idle == [at |-> "idle", chair |-> None, page |-> {}, marks |-> {}]

Exists(r) == requests[r].state # "absent"

TypeOK ==
    /\ MailTypeOK
    /\ requests \in [Requests ->
          [state : {"absent", "open", "answered", "closed"}, revision : Nat,
           chair : Chairs \cup {None}, answer : Answers \cup {None}]]
    /\ history \in [Requests -> Seq({"open", "answered", "closed"})]
    /\ outbox \in [Answers ->
          [request : Requests \cup {None}, chair : Chairs \cup {None},
           state : {"absent", "queued", "offered", "acknowledged"},
           attempts : 0 .. MaxAttempts, tooLarge : BOOLEAN]]
    /\ receipts \subseteq Ops
    /\ applied \in Nat
    /\ elapsed \subseteq Timed
    /\ hook \in [Hooks -> [at : {"idle", "mark", "offer", "print"}, chair : Chairs \cup {None},
                           page : SUBSET [answer : Answers, attempts : 0 .. MaxAttempts],
                           marks : SUBSET Answers]]
    /\ received \in [Chairs -> SUBSET Answers]
    /\ \A r \in Requests : requests[r].revision = Len(history[r])
    /\ \A a \in Answers : outbox[a].state # "absent" => ~IsNew(a)

Init ==
    /\ MailInit
    /\ requests = [r \in Requests |-> NoRequest]
    /\ history = [r \in Requests |-> <<>>]
    /\ outbox = [a \in Answers |-> NoAnswer]
    /\ receipts = {}
    /\ applied = 0
    /\ elapsed = {}
    /\ hook = [h \in Hooks |-> Idle]
    /\ received = [c \in Chairs |-> {}]
-----------------------------------------------------------------------------
(* Wrong variants of the definitions below, each a bug the code could have; *)
(* substituting one must break the property named beside it.                *)
MutIsOpen(r) == Exists(r) /\ requests[r].state # "closed"     \* ResolvesOnce
MutOffered(row, cand) == row.attempts >= cand.attempts              \* AckStands
MutForTarget(a, c) ==                                             \* OnlyToTarget
    outbox[a].state # "absent" /\ MailboxOf[outbox[a].chair] = MailboxOf[c]
MutHookCandidates(c, state) ==                                \* AnswersArrive
    {a \in Answers : outbox[a].state = state /\ outbox[a].chair = c
                     /\ ~outbox[a].tooLarge /\ state = "queued"}
-----------------------------------------------------------------------------
(* The mutations.  Each runs inside coordination_operation: effects and     *)
(* receipt commit together, and a stored receipt is replayed first.         *)

Replayed(o) == o \in receipts

Operation(o) ==
    ~Replayed(o) /\ receipts' = receipts \cup {o} /\ applied' = applied + 1

\* state_at: an open request past its deadline counts as expired.
IsOpen(r) == requests[r].state = "open" /\ r \notin elapsed

\* Close and supersede accept an answered request, not a closed one.
MayClose(r) == Exists(r) /\ requests[r].state # "closed"

\* update and history: every new revision is kept.
Saved(new) ==
    history' = [r \in Requests |->
        IF new[r] = requests[r] THEN history[r] ELSE Append(history[r], new[r].state)]

Revised(r, state) == [requests[r] EXCEPT !.state = state, !.revision = @ + 1]

\* create_human_request; prior is the request it supersedes, if any.
Ask(o, r, c, prior) ==
    /\ Operation(o)
    /\ ~Exists(r)
    /\ r \notin elapsed
    /\ Cardinality({q \in Requests : Exists(q)}) < MaxRequests
    /\ prior # None => MayClose(prior) /\ requests[prior].chair = c
    /\ LET opened == [NoRequest EXCEPT !.state = "open", !.revision = 1, !.chair = c]
           new == [q \in Requests |->
                     CASE q = r -> opened
                       [] q = prior -> Revised(q, "closed")
                       [] OTHER -> requests[q]]
       IN requests' = new /\ Saved(new)
    /\ UNCHANGED <<mailVars, outbox, elapsed, hook, received>>

\* answer_human_request: answer, outbox row, mail and new revision together.
Answer(o, r, revision, a) ==
    /\ Operation(o)
    /\ outbox[a].state = "absent"
    /\ requests[r].revision = revision
    /\ IsOpen(r)
    /\ LET new == [requests EXCEPT ![r] = [Revised(r, "answered") EXCEPT !.answer = a]]
       IN requests' = new /\ Saved(new)
    /\ outbox' = [outbox EXCEPT ![a] = [NoAnswer EXCEPT !.request = r,
                                          !.chair = requests[r].chair, !.state = "queued"]]
    /\ \E body \in Bodies : InsertMessage(a, {MailboxOf[requests[r].chair]}, body)
    /\ UNCHANGED <<elapsed, hook, received>>

\* close_human_request, by the actor that asked.  The code treats withdrawn,
\* superseded and expired alike.
Close(o, r, revision, actor) ==
    /\ Operation(o)
    /\ MayClose(r)
    /\ requests[r].revision = revision
    /\ MailboxOf[requests[r].chair] = actor
    /\ LET new == [requests EXCEPT ![r] = Revised(r, "closed")]
       IN requests' = new /\ Saved(new)
    /\ UNCHANGED <<mailVars, outbox, elapsed, hook, received>>

\* acknowledge_human_answer, by the exact target session.  Once more it would
\* only return the row.
Acknowledge(o, r, a, c) ==
    /\ Operation(o)
    /\ Exists(r) /\ requests[r].answer = a
    /\ outbox[a].chair = c
    /\ outbox[a].state # "acknowledged"
    /\ outbox' = [outbox EXCEPT ![a].state = "acknowledged"]
    /\ UNCHANGED <<mailVars, requests, history, elapsed, hook, received>>

Elapse(r) ==
    /\ r \in Timed \ elapsed
    /\ elapsed' = elapsed \cup {r}
    /\ UNCHANGED <<mailVars, requests, history, outbox, receipts, applied, hook, received>>
-----------------------------------------------------------------------------
(* Offers *)

ForTarget(a, c) == outbox[a].state # "absent" /\ outbox[a].chair = c

Pending(c) == {a \in Answers : ForTarget(a, c) /\ outbox[a].state # "acknowledged"}

\* offer_human_answers: the first pending answers; the reply may be lost.
OfferUntilAck(c) ==
    LET batch == FirstOf(Pending(c), PageItems) IN
    /\ batch # {}
    /\ \A a \in batch : outbox[a].attempts < MaxAttempts
    /\ outbox' = [a \in Answers |->
                    IF a \in batch THEN [outbox[a] EXCEPT !.state = "offered", !.attempts = @ + 1]
                                   ELSE outbox[a]]
    /\ \/ received' = [received EXCEPT ![c] = @ \cup batch]
       \/ UNCHANGED received
    /\ UNCHANGED <<mailVars, requests, history, receipts, applied, elapsed, hook>>

\* read_hook_answer_page: rows of one state not marked as too large for hooks.
HookCandidates(c, state) ==
    {a \in Answers : ForTarget(a, c) /\ outbox[a].state = state /\ ~outbox[a].tooLarge}

Fits(set) == {a \in set : Fit[a] = "fits"}

\* select_answers walks the pages until one holds an answer that fits: the
\* rows it scanned, up to the end of that page.
Scanned(set) ==
    IF Fits(set) = {} THEN set
    ELSE LET before == Cardinality({b \in set : b < Min(Fits(set))})
         IN FirstOf(set, (before \div PageItems + 1) * PageItems)

\* fit_answers: the answers of that page that share one envelope.
Selected(set) == FirstOf(Fits(Scanned(set)), Envelope)

\* New answers first, then offers that were recorded before.
HookSelect(h, c) ==
    LET queued == HookCandidates(c, "queued")
        offered == HookCandidates(c, "offered")
        retry == Selected(queued) = {}
        chosen == IF retry THEN Selected(offered) ELSE Selected(queued)
        scanned == Scanned(queued) \cup IF retry THEN Scanned(offered) ELSE {}
    IN
    /\ hook[h] = Idle
    /\ scanned # {}
    /\ hook' = [hook EXCEPT ![h] =
                 [at |-> "mark", chair |-> c,
                  page |-> {[answer |-> a, attempts |-> outbox[a].attempts] : a \in chosen},
                  marks |-> {a \in scanned : Fit[a] = "oversized"}]]
    /\ UNCHANGED <<mailVars, requests, history, outbox, receipts, applied, elapsed, received>>

\* mark_hook_undeliverable_once re-reads each row; nothing to offer ends here.
HookMark(h) ==
    LET c == hook[h].chair IN
    /\ hook[h].at = "mark"
    /\ outbox' = [a \in Answers |->
                    IF a \in hook[h].marks /\ a \in Pending(c)
                    THEN [outbox[a] EXCEPT !.tooLarge = TRUE] ELSE outbox[a]]
    /\ hook' = [hook EXCEPT ![h] =
                 IF @.page = {} THEN Idle ELSE [@ EXCEPT !.at = "offer", !.marks = {}]]
    /\ UNCHANGED <<mailVars, requests, history, receipts, applied, elapsed, received>>

\* offer_human_answers_once re-reads each row: a queued one becomes offered,
\* an offer exactly as the hook read it is repeated, any other is left out.
Offered(row, cand) ==
    \/ row.state = "queued"
    \/ row.state = "offered" /\ row.attempts = cand.attempts

HookOffer(h) ==
    LET c == hook[h].chair
        page == {cand \in hook[h].page :
                    ForTarget(cand.answer, c) /\ Offered(outbox[cand.answer], cand)}
        ids == {cand.answer : cand \in page}
    IN
    /\ hook[h].at = "offer"
    /\ outbox' = [a \in Answers |->
                    IF a \in ids
                    THEN [outbox[a] EXCEPT !.state = "offered",
                            !.attempts = IF outbox[a].state = "queued" THEN @ + 1 ELSE @]
                    ELSE outbox[a]]
    /\ hook' = [hook EXCEPT ![h] =
                 IF page = {} THEN Idle ELSE [@ EXCEPT !.at = "print", !.page = page]]
    /\ UNCHANGED <<mailVars, requests, history, receipts, applied, elapsed, received>>

HookPrint(h) ==
    LET c == hook[h].chair IN
    /\ hook[h].at = "print"
    /\ received' = [received EXCEPT ![c] = @ \cup {cand.answer : cand \in hook[h].page}]
    /\ hook' = [hook EXCEPT ![h] = Idle]
    /\ UNCHANGED <<mailVars, requests, history, outbox, receipts, applied, elapsed>>

\* delivery_before: the deadline passes, a step fails or the pipe breaks.
HookEnds(h) ==
    /\ hook[h].at # "idle"
    /\ hook' = [hook EXCEPT ![h] = Idle]
    /\ UNCHANGED <<mailVars, requests, history, outbox, receipts, applied, elapsed, received>>
-----------------------------------------------------------------------------
\* A new operation, or a retry of one whose reply was lost.
Called == receipts \cup FirstOf(Ops \ receipts, 1)

Mutations ==
    \E o \in Called, r \in Requests :
        \/ \E c \in Chairs, prior \in Requests \cup {None} : Ask(o, r, c, prior)
        \/ \E revision \in 1 .. 3, a \in Answers : Answer(o, r, revision, a)
        \/ \E revision \in 1 .. 3, actor \in Mailboxes : Close(o, r, revision, actor)
        \/ \E a \in Answers, c \in Chairs : Acknowledge(o, r, a, c)

HookStep(h) ==
    \/ \E c \in Chairs : HookSelect(h, c)
    \/ HookMark(h) \/ HookOffer(h) \/ HookPrint(h) \/ HookEnds(h)

Next ==
    \/ Mutations
    \/ \E r \in Requests : Elapse(r)
    \/ \E c \in Chairs : OfferUntilAck(c)
    \/ \E h \in Hooks : HookStep(h)

Spec == Init /\ [][Next]_vars

\* Fairness: the target's hooks keep running and print in the end, and the
\* chair acknowledges the answers it was given.
Fairness ==
    /\ \A h \in Hooks :
        /\ \A c \in Chairs : SF_vars(HookSelect(h, c))
        /\ SF_vars(HookMark(h)) /\ SF_vars(HookOffer(h)) /\ SF_vars(HookPrint(h))
    /\ \A c \in Chairs, a \in Answers :
        WF_vars(a \in received[c] /\ \E o \in Called, r \in Requests : Acknowledge(o, r, a, c))

FairSpec == Spec /\ Fairness
-----------------------------------------------------------------------------
(* Properties *)

\* "A competing answer cannot replace the winner" and "closing an item
\* preserves any earlier answer": a request has at most one answer, which the
\* request keeps and whose target is the chair that asked
\* (answer_human_request's revision and state check).
OneAnswer ==
    \A a \in Answers : outbox[a].state # "absent" =>
        /\ requests[outbox[a].request].answer = a
        /\ requests[outbox[a].request].chair = outbox[a].chair

\* "A request can only open, resolve once, and close once": no sequence of
\* answers, closures and replacements gives it more than the three revisions
\* that item() still reads.
HistoryIsShort == \A r \in Requests : Len(history[r]) <= 3

\* A retried operation has its effects only once: it asks, answers, closes or
\* acknowledges nothing anew (coordination_operation's receipt).
OncePerOperation == applied = Cardinality(receipts)

\* A request resolves once, whoever answers, closes, replaces or retries.
ResolvesOnce == TypeOK /\ OneAnswer /\ HistoryIsShort /\ OncePerOperation

\* An offer recorded from an old snapshot never brings an acknowledged answer
\* back (offer_human_answers_once re-reads the row).
AckStands ==
    [][\A a \in Answers : outbox[a].state = "acknowledged" => outbox'[a].state = "acknowledged"]_vars

\* Offers reach the exact session that asked, also when another session has the
\* same actor and mailbox (AnswerTarget).
OnlyToTarget == \A c \in Chairs : \A a \in received[c] : outbox[a].chair = c

\* An answer that fits a hook envelope reaches its chair and is acknowledged,
\* whatever offers were lost and however many answers that do not fit stand
\* before it (select_answers walks on to the next page, and repeats offers).
AnswersArrive ==
    \A a \in Answers :
        Fit[a] = "fits" /\ outbox[a].state = "queued" ~> outbox[a].state = "acknowledged"
=============================================================================
