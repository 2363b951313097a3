------------------------------ MODULE FabricMail ------------------------------
(***************************************************************************)
(* Fabric mail (fabric-store, messages.rs; fabric-runtime, coordination.rs, *)
(* LocalCoordination::mail).  A message is stored once under its frozen id  *)
(* and gets one numbered delivery per recipient.  A mailbox has one durable *)
(* cursor that several sessions of one actor share: each reads a page past  *)
(* the cursor, or past where it stopped, and marks what it read later.      *)
(***************************************************************************)
EXTENDS OrderBy, Integers, FiniteSets, Sequences, SequencesExt, FiniteSetsExt

CONSTANTS
    Mailboxes,      \* actors, and chair sessions with a mailbox of their own
    Messages,       \* message ids
    Bodies,         \* message contents
    Readers,        \* sessions that read mail
    MailboxOf,      \* the mailbox a session reads
    MailPage,       \* rows of one page
    NoMessage

ASSUME MailAssumption ==
    /\ \A r \in Readers : MailboxOf[r] \in Mailboxes
    /\ IsFiniteSet(Mailboxes)
    /\ MailPage \in Nat \ {0}
    /\ NoMessage \notin [to : SUBSET Mailboxes, body : Bodies]

VARIABLES
    messages,       \* messages table
    deliveries,     \* deliveries table: the delivery with seq s is deliveries[s]
    mailCursor,     \* mail_cursors
    readTo,         \* the cursor each session got with its last page
    given           \* history: deliveries handed to a session of the mailbox

mailVars == <<messages, deliveries, mailCursor, readTo, given>>

MailTypeOK ==
    /\ messages \in [Messages -> [to : SUBSET Mailboxes, body : Bodies] \cup {NoMessage}]
    /\ deliveries \in Seq([message : Messages, recipient : Mailboxes])
    /\ \A s \in DOMAIN deliveries :
          deliveries[s].recipient \in messages[deliveries[s].message].to
    /\ mailCursor \in [Mailboxes -> 0 .. Len(deliveries)]
    /\ readTo \in [Readers -> 0 .. Len(deliveries)]
    /\ given \subseteq DOMAIN deliveries

MailInit ==
    /\ messages = [m \in Messages |-> NoMessage]
    /\ deliveries = <<>>
    /\ mailCursor = [b \in Mailboxes |-> 0]
    /\ readTo = [r \in Readers |-> 0]
    /\ given = {}
-----------------------------------------------------------------------------
(* Wrong variants of the definitions below, each a bug the code could have; *)
(* substituting one must break the property named beside it.                *)
MutUnread(b, s) ==                                                 \* NoMailLost
    LET all == {i \in s + 1 .. Len(deliveries) : deliveries[i].recipient = b}
    IN {i \in all : Cardinality({j \in all : j > i}) < MailPage}
-----------------------------------------------------------------------------
(* insert_message *)

IsNew(m) == messages[m] = NoMessage

\* One delivery per recipient, numbered by the project's delivery sequence.
Delivered(m, to) ==
    LET order == SetToSeq(to)
    IN [i \in DOMAIN order |-> [message |-> m, recipient |-> order[i]]]

\* The same message again changes nothing; other content under the id is a
\* conflict.
InsertMessage(m, to, body) ==
    /\ to # {}
    /\ IF IsNew(m)
       THEN /\ messages' = [messages EXCEPT ![m] = [to |-> to, body |-> body]]
            /\ deliveries' = deliveries \o Delivered(m, to)
       ELSE /\ messages[m] = [to |-> to, body |-> body]
            /\ UNCHANGED <<messages, deliveries>>
    /\ UNCHANGED <<mailCursor, readTo, given>>

Send(m, to, body) == InsertMessage(m, to, body)
-----------------------------------------------------------------------------
(* read_mail and mark_mail_read *)

\* Deliveries of a mailbox past a position: the first page, by seq.
Unread(b, s) ==
    FirstOf({i \in s + 1 .. Len(deliveries) : deliveries[i].recipient = b}, MailPage)

\* A page past the durable cursor, or past where this session stopped.
ReadMail(r, after) ==
    LET page == Unread(MailboxOf[r], after) IN
    /\ after \in {mailCursor[MailboxOf[r]], readTo[r]}
    /\ given' = given \cup page
    /\ readTo' = [readTo EXCEPT ![r] = IF page = {} THEN after ELSE Max(page)]
    /\ UNCHANGED <<messages, deliveries, mailCursor>>

Highest(b) == Max({0} \cup {i \in DOMAIN deliveries : deliveries[i].recipient = b})

\* The cursor after a mark: it never goes back.
Marked(b, s) == Max({mailCursor[b], s})

MarkMailRead(r) ==
    LET b == MailboxOf[r] IN
    /\ readTo[r] <= Highest(b)
    /\ mailCursor' = [mailCursor EXCEPT ![b] = Marked(b, readTo[r])]
    /\ UNCHANGED <<messages, deliveries, readTo, given>>

\* A session starts anew and has read nothing itself.
NewSession(r) ==
    /\ readTo' = [readTo EXCEPT ![r] = 0]
    /\ UNCHANGED <<messages, deliveries, mailCursor, given>>
-----------------------------------------------------------------------------
MailReads ==
    \E r \in Readers :
        \/ \E after \in 0 .. Len(deliveries) : ReadMail(r, after)
        \/ MarkMailRead(r)
        \/ NewSession(r)

MailNext ==
    \/ \E m \in Messages, to \in SUBSET Mailboxes, body \in Bodies : Send(m, to, body)
    \/ MailReads

MailSpec == MailInit /\ [][MailNext]_mailVars
-----------------------------------------------------------------------------
(* Properties *)

\* Every message reaches each recipient exactly once, however often its sender
\* retries (insert_message's frozen id).
MailedOnce ==
    \A m \in Messages : messages[m] # NoMessage =>
        \A b \in Mailboxes :
            Cardinality({s \in DOMAIN deliveries :
                            deliveries[s] = [message |-> m, recipient |-> b]})
            = IF b \in messages[m].to THEN 1 ELSE 0

\* A mailbox's cursor passes only deliveries that some session of the mailbox
\* was given: a late mark of one session hides no mail from another
\* (read_mail's contiguous pages, mark_mail_read).
ReadBeforeMarked ==
    \A s \in DOMAIN deliveries :
        s <= mailCursor[deliveries[s].recipient] => s \in given

\* No mail is lost and none arrives twice, however senders retry and sessions
\* of one mailbox cross (insert_message, read_mail, mark_mail_read).
NoMailLost == MailTypeOK /\ MailedOnce /\ ReadBeforeMarked
=============================================================================
