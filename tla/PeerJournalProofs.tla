-------------------------- MODULE PeerJournalProofs --------------------------
(***************************************************************************)
(* Proofs about PeerJournal, for any processes, operations, requests and   *)
(* results.                                                                *)
(*                                                                         *)
(* Agreement needs that an answer told stands in the journal and that a    *)
(* success in a process's hands is already the owner's receipt.  That a    *)
(* refusal is final needs the whole course of a single caller: where it    *)
(* stands decides the journal's phase and whether a copy of its request    *)
(* can be under way.                                                       *)
(***************************************************************************)
EXTENDS PeerJournal, FiniteSetTheorems, TLAPS

NoCopy(o) == \A w \in wire : w.op # o

Rows == [phase : Phases, input : Inputs \cup {None}, answer : Answers \cup {None}]

\* A process in a call works on a request that is frozen, under its own name.
CallInv ==
    \A p \in Procs :
        /\ pc[p] = "idle" => call[p] = NoCall
        /\ pc[p] # "record" => call[p].reply = None
        /\ pc[p] # "idle" => /\ call[p].op \in Ops
                             /\ p \in callers[call[p].op]
                             /\ journal[call[p].op].phase # "absent"
        /\ call[p].reply \in Results => call[p].reply = receipts[call[p].op]

\* Whoever waits for a request under way waits for that operation.
WireInv ==
    \A w \in wire : w.from # None => pc[w.from] = "wait" /\ call[w.from].op = w.op

\* An answer told is the journal's.
ToldInv == \A t \in told : journal[t.op].answer = t.answer

\* A recorded success is the owner's receipt.
SuccessInv ==
    \A o \in Ops : journal[o].answer \in Results => receipts[o] = journal[o].answer

CallersFinite == \A o \in Ops : IsFiniteSet(callers[o])

\* The course of an operation that nobody but p called.
Course(o, p) ==
    /\ journal[o].phase \in {"absent", "prepared"} => NoCopy(o)
    /\ journal[o].answer = Refused => receipts[o] = None /\ NoCopy(o)
    /\ call[p].op = o /\ pc[p] = "mark" => journal[o].phase = "prepared"
    /\ call[p].op = o /\ pc[p] \in {"send", "wait"} => journal[o].phase = "sent"
    /\ call[p].op = o /\ pc[p] = "send" => NoCopy(o)
    /\ call[p].op = o /\ pc[p] = "wait" => \A w \in wire : w.op = o => w.from = p
    /\ call[p].op = o /\ pc[p] = "record" /\ call[p].reply \notin Results =>
        journal[o].phase = "sent" /\ NoCopy(o)
    /\ call[p].op = o /\ call[p].reply = Refused => receipts[o] = None

CourseInv ==
    \A o \in Ops, p \in Procs : callers[o] \subseteq {p} => Course(o, p)

IInv ==
    /\ TypeOK
    /\ CallInv
    /\ WireInv
    /\ ToldInv
    /\ SuccessInv
    /\ CallersFinite
    /\ CourseInv

-----------------------------------------------------------------------------
LEMMA InitIInv ==
    ASSUME Init
    PROVE  IInv
<1> USE AnswerAssumption
<1>1. TypeOK
    BY DEF Init, TypeOK, Phases, Replies, Answers, NoCall, NoAnswer
<1>2. CallersFinite
    BY FS_EmptySet DEF Init, CallersFinite
<1>3. CallInv /\ WireInv /\ ToldInv
    BY DEF Init, CallInv, WireInv, ToldInv, NoCall, Answers
<1>4. SuccessInv /\ CourseInv
    BY DEF Init, SuccessInv, CourseInv, Course, NoCopy, NoCall, Answers
<1> QED
    BY <1>1, <1>2, <1>3, <1>4 DEF IInv

-----------------------------------------------------------------------------
(* One lemma per action *)

LEMMA MarkSentIInv ==
    ASSUME IInv, NEW p \in Procs, MarkSent(p)
    PROVE  IInv'
<1> USE AnswerAssumption DEF IInv, MarkSent, MayMarkSent, SetPhase, Goto
<1>1. TypeOK'
    BY DEF TypeOK, Phases, Replies, Answers, NoCall, NoAnswer, CallInv
<1>2. CallInv'
    BY <1>1 DEF TypeOK, CallInv, WireInv, NoCall, Answers, NoAnswer, Replies
<1>3. WireInv'
    BY <1>1 DEF TypeOK, CallInv, WireInv
<1>4. ToldInv'
    BY <1>1 DEF TypeOK, CallInv, ToldInv
<1>5. SuccessInv'
    BY <1>1 DEF TypeOK, CallInv, SuccessInv, Answers, Refused
<1>6. CallersFinite'
    BY DEF CallersFinite
<1>7. CourseInv'
    BY <1>1 DEF TypeOK, CallInv, WireInv, CourseInv, Course, NoCopy, NoCall, Answers, Refused
<1> QED
    BY <1>1, <1>2, <1>3, <1>4, <1>5, <1>6, <1>7 DEF IInv

LEMMA SendIInv ==
    ASSUME IInv, NEW p \in Procs, Send(p)
    PROVE  IInv'
<1> USE AnswerAssumption DEF IInv, Send, Goto
<1>1. TypeOK'
    BY DEF TypeOK, Phases, Replies, Answers, NoCall, NoAnswer, CallInv
<1>2. CallInv'
    BY <1>1 DEF TypeOK, CallInv, WireInv, NoCall, Answers, NoAnswer, Replies
<1>3. WireInv'
    BY <1>1 DEF TypeOK, CallInv, WireInv
<1>4. ToldInv'
    BY <1>1 DEF TypeOK, CallInv, ToldInv
<1>5. SuccessInv'
    BY <1>1 DEF TypeOK, CallInv, SuccessInv, Answers, Refused
<1>6. CallersFinite'
    BY DEF CallersFinite
<1>7. CourseInv'
    <2> SUFFICES ASSUME NEW x \in Ops, NEW q \in Procs, callers'[x] \subseteq {q}
                 PROVE  Course(x, q)'
        BY DEF CourseInv
    <2>1. callers[x] \subseteq {q} /\ Course(x, q)
        BY DEF CourseInv, TypeOK
    <2>2. call[p].op \in Ops /\ p \in callers[call[p].op] /\ call' = call /\ journal' = journal
        BY DEF CallInv
    <2>3. CASE x = call[p].op
        <3>1. q = p /\ NoCopy(x) /\ journal[x].phase = "sent" /\ journal[x].answer # Refused
            BY <2>1, <2>2, <2>3 DEF Course, TypeOK, Answers
        <3>2. pc'[p] = "wait" /\ \A w \in wire' : w.op = x => w.from = p
            BY <2>2, <2>3, <3>1 DEF NoCopy, TypeOK
        <3>3. receipts' = receipts
            OBVIOUS
        <3> QED
            BY <2>1, <2>2, <2>3, <3>1, <3>2, <3>3 DEF Course
    <2>4. CASE x # call[p].op
        BY <2>1, <2>2, <2>4 DEF TypeOK, Course, NoCopy, CallInv
    <2> QED
        BY <2>3, <2>4
<1> QED
    BY <1>1, <1>2, <1>3, <1>4, <1>5, <1>6, <1>7 DEF IInv

LEMMA ExchangeFailsIInv ==
    ASSUME IInv, NEW p \in Procs, ExchangeFails(p)
    PROVE  IInv'
<1> USE AnswerAssumption DEF IInv, ExchangeFails, MayMarkUnknown, SetPhase, Return, Goto, NoCall
<1>c. call[p].op \in Ops /\ journal[call[p].op].phase # "absent"
    BY DEF CallInv
<1>1. TypeOK'
    <2>1. wire' \subseteq [op : Ops, from : Procs \cup {None}]
        BY DEF TypeOK
    <2>2. CASE journal' = journal
        BY <2>1, <2>2 DEF TypeOK, Replies
    <2>3. CASE MayMarkUnknown(journal[call[p].op]) /\ SetPhase(call[p].op, "unknown")
        <3>1. journal' = [journal EXCEPT ![call[p].op].phase = "unknown"]
            BY <2>3
        <3>2. journal' \in [Ops -> Rows]
            BY <1>c, <3>1 DEF TypeOK, Rows, Phases
        <3>3. \A o \in Ops : /\ journal'[o].answer # None <=> journal'[o].phase = "committed"
                            /\ journal'[o].input # None <=> journal'[o].phase # "absent"
            BY <1>c, <2>3, <3>1 DEF TypeOK
        <3> QED
            BY <2>1, <3>2, <3>3 DEF TypeOK, Replies, Rows
    <2> QED
        BY <2>2, <2>3
<1>2. CallInv'
    BY <1>1 DEF TypeOK, CallInv, WireInv, NoCall, Answers, NoAnswer, Replies
<1>3. WireInv'
    BY <1>1 DEF TypeOK, CallInv, WireInv
<1>4. ToldInv'
    <2>1. told' = told /\ \A x \in Ops : journal'[x].answer = journal[x].answer
        BY <1>c DEF TypeOK
    <2> QED
        BY <2>1 DEF ToldInv, TypeOK
<1>5. SuccessInv'
    BY <1>1 DEF TypeOK, CallInv, SuccessInv, Answers, Refused
<1>6. CallersFinite'
    BY DEF CallersFinite
<1>7. CourseInv'
    BY <1>1 DEF TypeOK, CallInv, WireInv, CourseInv, Course, NoCopy, NoCall, Answers, Refused
<1> QED
    BY <1>1, <1>2, <1>3, <1>4, <1>5, <1>6, <1>7 DEF IInv

LEMMA RecordAnswerIInv ==
    ASSUME IInv, NEW p \in Procs, RecordAnswer(p)
    PROVE  IInv'
<1> USE AnswerAssumption DEF IInv, RecordAnswer, MayCommit, Committed, Return, Goto, NoCall
<1>1. TypeOK'
    <2> DEFINE o == call[p].op
    <2>1. o \in Ops /\ journal[o].phase # "absent" /\ call[p].reply \in Answers
          /\ call[p].reply # None
        BY DEF CallInv
    <2>2. told' \subseteq [op : Ops, answer : Answers]
        BY <2>1 DEF TypeOK
    <2>3. journal' \in [Ops -> Rows]
        <3>1. journal[o] \in Rows
            BY <2>1 DEF TypeOK, Rows
        <3>2. Committed(journal[o], call[p].reply) \in Rows
            BY <2>1, <3>1 DEF Rows, Phases
        <3>3. journal' = [journal EXCEPT ![o] = Committed(journal[o], call[p].reply)]
            OBVIOUS
        <3> HIDE DEF Committed
        <3> QED
            BY <3>2, <3>3 DEF TypeOK, Rows
    <2>4. \A x \in Ops : /\ journal'[x].answer # None <=> journal'[x].phase = "committed"
                         /\ journal'[x].input # None <=> journal'[x].phase # "absent"
        BY <2>1 DEF TypeOK
    <2> QED
        BY <2>2, <2>3, <2>4 DEF TypeOK, Rows, Replies, NoCall
<1>2. CallInv'
    BY <1>1 DEF TypeOK, CallInv, WireInv, NoCall, Answers, NoAnswer, Replies
<1>3. WireInv'
    BY <1>1 DEF TypeOK, CallInv, WireInv
<1>4. ToldInv'
    BY <1>1 DEF TypeOK, CallInv, ToldInv
<1>5. SuccessInv'
    BY <1>1 DEF TypeOK, CallInv, SuccessInv, Answers, Refused
<1>6. CallersFinite'
    BY DEF CallersFinite
<1>7. CourseInv'
    BY <1>1 DEF TypeOK, CallInv, WireInv, CourseInv, Course, NoCopy, NoCall, Answers, Refused
<1> QED
    BY <1>1, <1>2, <1>3, <1>4, <1>5, <1>6, <1>7 DEF IInv

LEMMA RetryLaterIInv ==
    ASSUME IInv, NEW p \in Procs, RetryLater(p)
    PROVE  IInv'
<1> USE AnswerAssumption DEF IInv, RetryLater, MayRetry, SetPhase, Return, Goto, NoCall
<1>1. TypeOK'
    BY DEF TypeOK, Phases, Replies, Answers, NoCall, NoAnswer, CallInv
<1>2. CallInv'
    BY <1>1 DEF TypeOK, CallInv, WireInv, NoCall, Answers, NoAnswer, Replies
<1>3. WireInv'
    BY <1>1 DEF TypeOK, CallInv, WireInv
<1>4. ToldInv'
    BY <1>1 DEF TypeOK, CallInv, ToldInv
<1>5. SuccessInv'
    BY <1>1 DEF TypeOK, CallInv, SuccessInv, Answers, Refused
<1>6. CallersFinite'
    BY DEF CallersFinite
<1>7. CourseInv'
    <2> SUFFICES ASSUME NEW x \in Ops, NEW q \in Procs, callers'[x] \subseteq {q}
                 PROVE  Course(x, q)'
        BY DEF CourseInv
    <2>1. callers[x] \subseteq {q} /\ Course(x, q)
        BY DEF CourseInv, TypeOK
    <2>2. /\ call[p].op \in Ops /\ p \in callers[call[p].op]
          /\ call[p].reply \notin Results /\ wire' = wire /\ receipts' = receipts
        BY DEF CallInv, NoAnswer
    <2>3. journal'[x].answer = journal[x].answer
        BY DEF TypeOK
    <2>4. CASE x = call[p].op
        BY <2>1, <2>2, <2>3, <2>4 DEF TypeOK, Course, NoCopy, CallInv
    <2>5. CASE x # call[p].op
        BY <2>1, <2>2, <2>3, <2>5, <1>1 DEF TypeOK, Course, NoCopy, CallInv
    <2> QED
        BY <2>4, <2>5
<1> QED
    BY <1>1, <1>2, <1>3, <1>4, <1>5, <1>6, <1>7 DEF IInv

LEMMA RecordUnknownIInv ==
    ASSUME IInv, NEW p \in Procs, RecordUnknown(p)
    PROVE  IInv'
<1> USE AnswerAssumption DEF IInv, RecordUnknown, MayMarkUnknown, SetPhase, Return, Goto, NoCall
<1>1. TypeOK'
    BY DEF TypeOK, Phases, Replies, Answers, NoCall, NoAnswer, CallInv
<1>2. CallInv'
    BY <1>1 DEF TypeOK, CallInv, WireInv, NoCall, Answers, NoAnswer, Replies
<1>3. WireInv'
    BY <1>1 DEF TypeOK, CallInv, WireInv
<1>4. ToldInv'
    BY <1>1 DEF TypeOK, CallInv, ToldInv
<1>5. SuccessInv'
    BY <1>1 DEF TypeOK, CallInv, SuccessInv, Answers, Refused
<1>6. CallersFinite'
    BY DEF CallersFinite
<1>7. CourseInv'
    BY <1>1 DEF TypeOK, CallInv, WireInv, CourseInv, Course, NoCopy, NoCall, Answers, Refused
<1> QED
    BY <1>1, <1>2, <1>3, <1>4, <1>5, <1>6, <1>7 DEF IInv

LEMMA AskReceiptIInv ==
    ASSUME IInv, NEW p \in Procs, AskReceipt(p)
    PROVE  IInv'
<1> USE AnswerAssumption DEF IInv, AskReceipt, Goto
<1>1. TypeOK'
    BY DEF TypeOK, Phases, Replies, Answers, NoCall, NoAnswer, CallInv
<1>2. CallInv'
    BY <1>1 DEF TypeOK, CallInv, WireInv, NoCall, Answers, NoAnswer, Replies
<1>3. WireInv'
    BY <1>1 DEF TypeOK, CallInv, WireInv
<1>4. ToldInv'
    BY <1>1 DEF TypeOK, CallInv, ToldInv
<1>5. SuccessInv'
    BY <1>1 DEF TypeOK, CallInv, SuccessInv, Answers, Refused
<1>6. CallersFinite'
    BY DEF CallersFinite
<1>7. CourseInv'
    BY <1>1 DEF TypeOK, CallInv, WireInv, CourseInv, Course, NoCopy, NoCall, Answers, Refused
<1> QED
    BY <1>1, <1>2, <1>3, <1>4, <1>5, <1>6, <1>7 DEF IInv

LEMMA AbandonIInv ==
    ASSUME IInv, NEW p \in Procs, Abandon(p)
    PROVE  IInv'
<1> USE AnswerAssumption DEF IInv, Abandon, Return, Goto, NoCall
<1>1. TypeOK'
    BY DEF TypeOK, Phases, Replies, Answers, NoCall, NoAnswer, CallInv
<1>2. CallInv'
    BY <1>1 DEF TypeOK, CallInv, WireInv, NoCall, Answers, NoAnswer, Replies
<1>3. WireInv'
    BY <1>1 DEF TypeOK, CallInv, WireInv
<1>4. ToldInv'
    BY <1>1 DEF TypeOK, CallInv, ToldInv
<1>5. SuccessInv'
    BY <1>1 DEF TypeOK, CallInv, SuccessInv, Answers, Refused
<1>6. CallersFinite'
    BY DEF CallersFinite
<1>7. CourseInv'
    BY <1>1 DEF TypeOK, CallInv, WireInv, CourseInv, Course, NoCopy, NoCall, Answers, Refused
<1> QED
    BY <1>1, <1>2, <1>3, <1>4, <1>5, <1>6, <1>7 DEF IInv

LEMMA PrepareIInv ==
    ASSUME IInv, NEW p \in Procs, NEW o \in Ops, NEW i \in Inputs, Prepare(p, o, i)
    PROVE  IInv'
<1> USE AnswerAssumption DEF IInv, Prepare, Goto, LookupNeeded, NoCall
<1>1. TypeOK'
    <2>a. journal \in [Ops -> Rows]
        BY DEF TypeOK, Rows
    <2>b. journal' = [journal EXCEPT ![o].input = i,
                                     ![o].phase = IF @ = "absent" THEN "prepared" ELSE @]
        OBVIOUS
    <2>c. journal' \in [Ops -> Rows]
        <3> HIDE DEF Prepare, IInv
        <3> QED
            BY <2>a, <2>b DEF Rows, Phases
    <2>1. \A x \in Ops : /\ journal'[x].answer # None <=> journal'[x].phase = "committed"
                         /\ journal'[x].input # None <=> journal'[x].phase # "absent"
        <3>1. \A x \in Ops : /\ journal[x].answer # None <=> journal[x].phase = "committed"
                             /\ journal[x].input # None <=> journal[x].phase # "absent"
            BY DEF TypeOK
        <3> HIDE DEF Prepare, IInv
        <3> QED
            BY <2>a, <2>b, <3>1 DEF Rows
    <2>2. told' \subseteq [op : Ops, answer : Answers]
        BY DEF TypeOK
    <2>3. /\ pc' \in [Procs -> {"idle", "mark", "send", "wait", "ask", "record"}]
          /\ call' \in [Procs -> [op : Ops \cup {None}, reply : Replies]]
        <3>1. CASE journal[o].phase = "committed"
            BY <3>1 DEF TypeOK
        <3>2. CASE journal[o].phase # "committed"
            <4>1. call' = [call EXCEPT ![p].op = o]
                  /\ \E l \in {"ask", "mark"} : pc' = [pc EXCEPT ![p] = l]
                BY <3>2
            <4> HIDE DEF Prepare
            <4> QED
                BY <4>1 DEF TypeOK
        <3> QED
            BY <3>1, <3>2
    <2> QED
        BY <2>c, <2>1, <2>2, <2>3 DEF TypeOK, Rows
<1>2. CallInv'
    BY <1>1 DEF TypeOK, CallInv, WireInv, NoCall, Answers, NoAnswer, Replies
<1>3. WireInv'
    BY <1>1 DEF TypeOK, CallInv, WireInv
<1>4. ToldInv'
    BY <1>1 DEF TypeOK, CallInv, ToldInv
<1>5. SuccessInv'
    BY <1>1 DEF TypeOK, CallInv, SuccessInv, Answers, Refused
<1>6. CallersFinite'
    BY FS_AddElement DEF CallersFinite, TypeOK
<1>7. CourseInv'
    <2> SUFFICES ASSUME NEW x \in Ops, NEW q \in Procs, callers'[x] \subseteq {q}
                 PROVE  Course(x, q)'
        BY DEF CourseInv
    <2>1. callers[x] \subseteq {q} /\ Course(x, q)
        BY DEF CourseInv, TypeOK
    <2>2. wire' = wire /\ receipts' = receipts /\ p \in callers'[o]
          /\ pc[p] = "idle" /\ call[p] = NoCall
        BY DEF CallInv, TypeOK
    <2>3. journal'[x].answer = journal[x].answer
        BY DEF TypeOK
    <2>4. CASE x = o
        <3>1. q = p /\ journal'[o].phase \notin {"absent"}
              /\ (journal'[o].phase = "prepared" => journal[o].phase \in {"absent", "prepared"})
            <4>1. q = p
                BY <2>1, <2>2, <2>4
            <4>2. journal'[o].phase = IF journal[o].phase = "absent" THEN "prepared"
                                      ELSE journal[o].phase
                BY DEF TypeOK
            <4> QED
                BY <4>1, <4>2
        <3>2. NoCopy(o)' <=> NoCopy(o)
            BY <2>2 DEF NoCopy
        <3>3. /\ pc'[p] \notin {"send", "wait", "record"} /\ call'[p].reply = None
              /\ pc'[p] = "mark" => journal'[o].phase = "prepared"
            BY <2>2 DEF TypeOK, Phases
        <3> QED
            BY <2>1, <2>2, <2>3, <2>4, <3>1, <3>2, <3>3 DEF Course, Answers
    <2>5. CASE x # o
        BY <2>1, <2>2, <2>3, <2>5 DEF TypeOK, Course, NoCopy
    <2> QED
        BY <2>4, <2>5
<1> QED
    BY <1>1, <1>2, <1>3, <1>4, <1>5, <1>6, <1>7 DEF IInv

LEMMA OwnerRunsIInv ==
    ASSUME IInv, NEW w \in wire, OwnerRuns(w)
    PROVE  IInv'
<1> USE AnswerAssumption DEF IInv, OwnerRuns, OwnerAnswers, Goto
<1>w. w.op \in Ops /\ w.from \in Procs \cup {None}
    BY DEF TypeOK
<1>1. TypeOK'
    <2>1. PICK answer \in OwnerAnswers(w.op) :
             /\ receipts' = [receipts EXCEPT ![w.op] = answer[1]]
             /\ w.from = None => UNCHANGED <<pc, call>>
             /\ w.from # None => /\ pc' = [pc EXCEPT ![w.from] = "record"]
                                /\ call' = [call EXCEPT ![w.from].reply = answer[2]]
        <3> HIDE DEF OwnerAnswers, IInv
        <3> QED
            BY Zenon
    <2>2. answer[1] \in Results \cup {None} /\ answer[2] \in Replies
        BY <1>w DEF TypeOK, Replies, Answers, NoAnswer
    <2>3. CASE w.from = None
        BY <1>w, <2>1, <2>2, <2>3 DEF TypeOK
    <2>4. CASE w.from # None
        <3>1. wire' \subseteq wire /\ UNCHANGED <<journal, callers, told>>
            OBVIOUS
        <3> HIDE DEF OwnerRuns, OwnerAnswers
        <3>2. /\ pc' \in [Procs -> {"idle", "mark", "send", "wait", "ask", "record"}]
              /\ call' \in [Procs -> [op : Ops \cup {None}, reply : Replies]]
            <4> DEFINE said == answer[2]
            <4>1. said \in Replies /\ call' = [call EXCEPT ![w.from].reply = said]
                BY <2>1, <2>2, <2>4
            <4>2. pc' = [pc EXCEPT ![w.from] = "record"] /\ w.from \in Procs
                BY <1>w, <2>1, <2>4
            <4> HIDE DEF said
            <4> QED
                BY <4>1, <4>2 DEF TypeOK
        <3>3. receipts' \in [Ops -> Results \cup {None}]
            BY <1>w, <2>1, <2>2 DEF TypeOK
        <3> QED
            BY <3>1, <3>2, <3>3 DEF TypeOK
    <2> QED
        BY <2>3, <2>4
<1>2. CallInv'
    BY <1>1 DEF TypeOK, CallInv, WireInv, NoCall, Answers, NoAnswer, Replies
<1>3. WireInv'
    BY <1>1 DEF TypeOK, CallInv, WireInv
<1>4. ToldInv'
    BY <1>1 DEF TypeOK, CallInv, ToldInv
<1>5. SuccessInv'
    BY <1>1 DEF TypeOK, CallInv, SuccessInv, Answers, Refused
<1>6. CallersFinite'
    BY DEF CallersFinite
<1>7. CourseInv'
    BY <1>1 DEF TypeOK, CallInv, WireInv, CourseInv, Course, NoCopy, NoCall, Answers, Refused
<1> QED
    BY <1>1, <1>2, <1>3, <1>4, <1>5, <1>6, <1>7 DEF IInv

LEMMA LostIInv ==
    ASSUME IInv, NEW w \in wire, Lost(w)
    PROVE  IInv'
<1> USE AnswerAssumption DEF IInv, Lost
<1>1. TypeOK'
    BY DEF TypeOK, Phases, Replies, Answers, NoCall, NoAnswer, CallInv
<1>2. CallInv'
    BY <1>1 DEF TypeOK, CallInv, WireInv, NoCall, Answers, NoAnswer, Replies
<1>3. WireInv'
    BY <1>1 DEF TypeOK, CallInv, WireInv
<1>4. ToldInv'
    BY <1>1 DEF TypeOK, CallInv, ToldInv
<1>5. SuccessInv'
    BY <1>1 DEF TypeOK, CallInv, SuccessInv, Answers, Refused
<1>6. CallersFinite'
    BY DEF CallersFinite
<1>7. CourseInv'
    BY <1>1 DEF TypeOK, CallInv, WireInv, CourseInv, Course, NoCopy, NoCall, Answers, Refused
<1> QED
    BY <1>1, <1>2, <1>3, <1>4, <1>5, <1>6, <1>7 DEF IInv

-----------------------------------------------------------------------------
LEMMA NextIInv ==
    ASSUME IInv, [Next]_vars
    PROVE  IInv'
<1>1. CASE UNCHANGED vars
    BY <1>1 DEF vars, IInv, TypeOK, CallInv, WireInv, ToldInv, SuccessInv, CallersFinite,
       CourseInv, Course, NoCopy
<1>2. ASSUME NEW p \in Procs, Caller(p)
      PROVE  IInv'
    BY <1>2, PrepareIInv, MarkSentIInv, SendIInv, ExchangeFailsIInv, RecordAnswerIInv,
       RetryLaterIInv, RecordUnknownIInv, AskReceiptIInv, AbandonIInv DEF Caller
<1>3. ASSUME NEW w \in wire, OwnerRuns(w) \/ Lost(w)
      PROVE  IInv'
    BY <1>3, OwnerRunsIInv, LostIInv
<1> QED
    BY <1>1, <1>2, <1>3 DEF Next

\* The inductive invariant holds whatever is lost, delayed, repeated or abandoned.
THEOREM Invariance == Spec => []IInv
<1>1. IInv /\ [Next]_vars => IInv'
    BY NextIInv
<1> QED
    BY InitIInv, <1>1, PTL DEF Spec

\* All the callers of an operation id that are given an answer are given the
\* same one, and a success is the result the owner keeps a receipt of, for any
\* number of processes that work on the id at once (RemoteCoordination::call).
THEOREM AnswersAgreeHolds == Spec => []AnswersAgree
<1>1. IInv => AnswersAgree
    BY DEF IInv, TypeOK, ToldInv, SuccessInv, AnswersAgree
<1> QED
    BY Invariance, <1>1, PTL

\* A refusal recorded for an operation of a single caller is final: it was not
\* applied, and no copy of it is left that could be (is_definitive_refusal).
THEOREM RefusalIsFinalHolds == Spec => []RefusalIsFinal
<1>1. ASSUME IInv, NEW o \in Ops, journal[o].answer = Refused, Cardinality(callers[o]) = 1
      PROVE  receipts[o] = None /\ ~ \E w \in wire : w.op = o
    <2>1. PICK p : callers[o] = {p}
        BY <1>1, FS_Singleton DEF IInv, CallersFinite
    <2>2. p \in Procs
        BY <1>1, <2>1 DEF IInv, TypeOK
    <2>3. Course(o, p)
        BY <1>1, <2>1, <2>2 DEF IInv, CourseInv
    <2> QED
        BY <1>1, <2>3 DEF Course, NoCopy
<1>2. IInv => RefusalIsFinal
    BY <1>1 DEF RefusalIsFinal
<1> QED
    BY Invariance, <1>2, PTL
=============================================================================
