----------------------------- MODULE FabricEvents -----------------------------
(***************************************************************************)
(* The project event stream and the run events pulled into it (front-door, *)
(* fabric.rs, Factory::pull_events and events; fabric-store, events.rs and  *)
(* federation.rs, ingest_run_events; run, store.rs, insert_event, and       *)
(* retention.rs).  Every host appends attempt changes to its own run store. *)
(* A reader of the home's stream first visits the hosts in order: it reads  *)
(* the host's cursor, fetches a page past it from the host, and adds the    *)
(* page and advances the cursor in one transaction.  No transaction spans   *)
(* the fetch, and several readers work at once.  Rows of other kinds (notes, *)
(* tasks, claims, mail) share the stream and are left out.                  *)
(***************************************************************************)
EXTENDS OrderBy, Integers, FiniteSets, Sequences, FiniteSetsExt, Functions

CONSTANTS
    Hosts,      \* host ids, visited in ascending order
    Home,       \* the coordination home
    Attempts,
    HostOf,     \* the host whose run store owns an attempt
    Expiring,   \* attempts retention collects once they are terminal
    Callers,    \* readers of the event stream
    PageSize,   \* MAX_RUN_EVENT_PAGE
    ReadLimit,  \* rows one read of the stream returns
    ScopesOf,   \* what each reader asks for: lane, local or all hosts
    MaxLog      \* bound on the events of each host

ASSUME HostAssumption ==
    /\ Hosts \subseteq Nat /\ IsFiniteSet(Hosts) /\ Home \in Hosts
    /\ HostOf \in [Attempts -> Hosts] /\ Expiring \subseteq Attempts
    /\ ScopesOf \in [Callers -> SUBSET {"lane", "local", "all"}]
    /\ MaxLog \in [Hosts -> Nat]
    /\ {PageSize, ReadLimit} \subseteq Nat \ {0}

VARIABLES
    log,        \* each host's run events; an expired one is no longer kept
    closed,     \* terminal attempts: their last event is in the log
    feed,       \* the project's events table, its run events only
    cursor,     \* run_event_cursors
    pc,         \* idle, or where a reader stands in pull_events
    pull,       \* its local variables there
    position    \* the cursor the reader holds for the stream

eventVars == <<log, closed, feed, cursor, pc, pull, position>>

RunEntry == [host : Hosts, sequence : Nat]
Pulls == [todo : SUBSET Hosts, peers : BOOLEAN, after : Nat,
          page : SUBSET Nat, truncated : BOOLEAN, unknown : SUBSET Hosts,
          more : BOOLEAN, due : [Hosts -> Nat]]

EventsTypeOK ==
    /\ log \in [Hosts -> Seq([attempt : Attempts, kept : BOOLEAN])]
    /\ \A h \in Hosts : \A s \in DOMAIN log[h] : HostOf[log[h][s].attempt] = h
    /\ closed \subseteq Attempts
    /\ feed \in Seq(RunEntry)
    /\ cursor \in [Hosts -> Nat]
    /\ \A h \in Hosts : cursor[h] <= Len(log[h])
    /\ pc \in [Callers -> {"idle", "hosts", "fetch", "ingest"}]
    /\ pull \in [Callers -> Pulls]
    /\ \A c \in Callers : /\ pull[c].page # {} => pc[c] = "ingest"
                          /\ pc[c] \in {"fetch", "ingest"} => pull[c].todo # {}
    /\ position \in [Callers -> 0 .. Len(feed)]

NoPull == [todo |-> {}, peers |-> FALSE, after |-> 0, page |-> {},
           truncated |-> FALSE, unknown |-> {}, more |-> FALSE,
           due |-> [h \in Hosts |-> 0]]

EventsInit ==
    /\ log = [h \in Hosts |-> <<>>]
    /\ closed = {}
    /\ feed = <<>>
    /\ cursor = [h \in Hosts |-> 0]
    /\ pc = [c \in Callers |-> "idle"]
    /\ pull = [c \in Callers |-> NoPull]
    /\ position = [c \in Callers |-> 0]
-----------------------------------------------------------------------------
(* Helpers *)

\* Sequence numbers of the events of a host past a position.
KeptAfter(h, s) == {i \in s + 1 .. Len(log[h]) : log[h][i].kept}

Newest(a) == Max({i \in DOMAIN log[HostOf[a]] : log[HostOf[a]][i].attempt = a})

\* The host a pull visits next: ascending host ids.
NextHost(c) == Min(pull[c].todo)

IsFed(h, s) == [host |-> h, sequence |-> s] \in Range(feed)
-----------------------------------------------------------------------------
(* Wrong variants of the definitions below, each a bug the code could have; *)
(* substituting one must break the property named beside it.                *)
MutAdvanced(h, page) == Len(log[h])                              \* FeedFaithful
MutIsTruncated(h, page) == FALSE                             \* CoverageIsHonest
MutExpired(a) ==                                                \* OutcomeIsSeen
    {i \in DOMAIN log[HostOf[a]] : log[HostOf[a]][i].attempt = a}
-----------------------------------------------------------------------------
(* The run stores *)

\* insert_event: a change of an attempt and its event commit together; the
\* sequence number is the table's next (AUTOINCREMENT).
Change(a, terminal) ==
    /\ a \notin closed
    /\ Len(log[HostOf[a]]) < MaxLog[HostOf[a]]
    /\ log' = [log EXCEPT ![HostOf[a]] = Append(@, [attempt |-> a, kept |-> TRUE])]
    /\ closed' = IF terminal THEN closed \cup {a} ELSE closed
    /\ UNCHANGED <<feed, cursor, pc, pull, position>>

\* What retention deletes: every event of the attempt but its newest.
Expired(a) ==
    {i \in DOMAIN log[HostOf[a]] : log[HostOf[a]][i].attempt = a} \ {Newest(a)}

Retention(a) ==
    LET h == HostOf[a] IN
    /\ a \in closed \cap Expiring
    /\ \E i \in Expired(a) : log[h][i].kept
    /\ log' = [log EXCEPT ![h] =
                 [i \in DOMAIN @ |-> IF i \in Expired(a) THEN [@[i] EXCEPT !.kept = FALSE]
                                                         ELSE @[i]]]
    /\ UNCHANGED <<closed, feed, cursor, pc, pull, position>>
-----------------------------------------------------------------------------
(* Factory::pull_events_from *)

\* A lane may not pull, so every host is unknown to it; a read served for a
\* peer asks no other peer.
StartPull(c, scope) ==
    /\ pc[c] = "idle"
    /\ pc' = [pc EXCEPT ![c] = "hosts"]
    /\ pull' = [pull EXCEPT ![c] =
                 [NoPull EXCEPT !.todo = IF scope = "lane" THEN {} ELSE Hosts,
                                !.unknown = IF scope = "lane" THEN Hosts ELSE {},
                                !.peers = scope = "all",
                                !.due = [h \in Hosts |-> IF scope = "all" THEN Len(log[h])
                                                                         ELSE 0]]]
    /\ UNCHANGED <<log, closed, feed, cursor, position>>

\* The host is left out of this pull's coverage.
Unknown(c, h) ==
    /\ pull' = [pull EXCEPT ![c].todo = @ \ {h}, ![c].after = 0, ![c].unknown = @ \cup {h}]
    /\ pc' = [pc EXCEPT ![c] = "hosts"]
    /\ UNCHANGED <<log, closed, feed, cursor, position>>

SkipPeer(c) ==
    /\ pc[c] = "hosts" /\ pull[c].todo # {}
    /\ NextHost(c) # Home /\ ~pull[c].peers
    /\ Unknown(c, NextHost(c))

\* run_event_cursor
ReadCursor(c) ==
    LET h == NextHost(c) IN
    /\ pc[c] = "hosts" /\ pull[c].todo # {}
    /\ h = Home \/ pull[c].peers
    /\ pull' = [pull EXCEPT ![c].after = cursor[h]]
    /\ pc' = [pc EXCEPT ![c] = "fetch"]
    /\ UNCHANGED <<log, closed, feed, cursor, position>>

\* BinaryRunOwner::events: the oldest events past the cursor, and whether more
\* exist past a full page.
PageOf(h, s) == FirstOf(KeptAfter(h, s), PageSize)

IsTruncated(h, page) == Cardinality(page) = PageSize /\ KeptAfter(h, Max(page)) # {}

\* The local store, or the peer over SSH, answers.
Fetch(c) ==
    LET h == NextHost(c)
        page == PageOf(h, pull[c].after)
    IN
    /\ pc[c] = "fetch"
    /\ pull' = [pull EXCEPT ![c].page = page, ![c].truncated = IsTruncated(h, page)]
    /\ pc' = [pc EXCEPT ![c] = "ingest"]
    /\ UNCHANGED <<log, closed, feed, cursor, position>>

PeerFails(c) ==
    /\ pc[c] = "fetch"
    /\ NextHost(c) # Home
    /\ Unknown(c, NextHost(c))

\* ingest_run_events: rows whose dedup key run:host:sequence is new.
NewRows(h, page) == Ascending({s \in page : ~IsFed(h, s)})

Advanced(h, page) == Max({cursor[h]} \cup page)

AfterPull(c, h) ==
    [pull[c] EXCEPT !.todo = @ \ {h}, !.more = @ \/ pull[c].truncated,
                    !.after = 0, !.page = {}, !.truncated = FALSE]

Ingest(c) ==
    LET h == NextHost(c)
        rows == NewRows(h, pull[c].page)
    IN
    /\ pc[c] = "ingest"
    /\ feed' = feed \o [i \in DOMAIN rows |-> [host |-> h, sequence |-> rows[i]]]
    /\ cursor' = [cursor EXCEPT ![h] = Advanced(h, pull[c].page)]
    /\ pull' = [pull EXCEPT ![c] = AfterPull(c, h)]
    /\ pc' = [pc EXCEPT ![c] = "hosts"]
    /\ UNCHANGED <<log, closed, position>>

\* The home's own store fails, the call is cancelled, a transaction is rolled
\* back or the process dies: the read ends without an answer.
PullFails(c) ==
    /\ pc[c] # "idle"
    /\ pc' = [pc EXCEPT ![c] = "idle"]
    /\ pull' = [pull EXCEPT ![c] = NoPull]
    /\ UNCHANGED <<log, closed, feed, cursor, position>>

\* Store::events: the next rows of the stream; the last one is the next cursor.
ReadFeed(c) ==
    /\ pc[c] = "hosts" /\ pull[c].todo = {}
    /\ position' = [position EXCEPT ![c] = Min({@ + ReadLimit, Len(feed)})]
    /\ pc' = [pc EXCEPT ![c] = "idle"]
    /\ pull' = [pull EXCEPT ![c] = NoPull]
    /\ UNCHANGED <<log, closed, feed, cursor>>

-----------------------------------------------------------------------------
Reader(c) ==
    \/ \E scope \in ScopesOf[c] : StartPull(c, scope)
    \/ SkipPeer(c) \/ ReadCursor(c) \/ Fetch(c) \/ PeerFails(c)
    \/ Ingest(c) \/ PullFails(c) \/ ReadFeed(c)

EventsNext ==
    \/ \E a \in Attempts, terminal \in BOOLEAN : Change(a, terminal)
    \/ \E a \in Attempts : Retention(a)
    \/ \E c \in Callers : Reader(c)

EventsSpec == EventsInit /\ [][EventsNext]_eventVars

\* Readers that always ask every host; the others may stop half-way.
Regulars == {c \in Callers : ScopesOf[c] = {"all"}}

\* Fairness: a regular reader keeps coming back for the stream and its steps
\* run.  Whatever fails is tried again by the next read, so a step that is
\* possible again and again succeeds in the end, for every host.
EventsFairness ==
    \A c \in Regulars :
        /\ WF_eventVars(Reader(c))
        /\ \A h \in Hosts :
            /\ SF_eventVars(ReadCursor(c) /\ NextHost(c) = h)
            /\ SF_eventVars(Fetch(c) /\ NextHost(c) = h)
            /\ SF_eventVars(Ingest(c) /\ NextHost(c) = h)
        /\ SF_eventVars(ReadFeed(c))

EventsFairSpec == EventsSpec /\ EventsFairness
-----------------------------------------------------------------------------
(* Properties *)

\* A run event enters the stream once, however often overlapping pages carry
\* it (the dedup key of ingest_run_events).
FedOnce ==
    \A i, j \in DOMAIN feed : feed[i] = feed[j] => i = j

\* "A reader must never skip events": what a host's cursor has passed is in the
\* stream, unless retention deleted it first (ingest_run_events).
FeedComplete ==
    \A h \in Hosts : \A s \in 1 .. cursor[h] : log[h][s].kept => IsFed(h, s)

\* A host's events stand in the stream in the order the host wrote them: an
\* event fed behind a later one is one that retention had deleted meanwhile
\* (the cursor read before the fetch, ORDER BY sequence).
HostOrder ==
    \A i, j \in DOMAIN feed :
        i < j /\ feed[i].host = feed[j].host /\ feed[i].sequence > feed[j].sequence
        => ~log[feed[j].host][feed[j].sequence].kept

\* The stream is faithful to every host's own log, though cursors are read
\* before pages are fetched and readers ingest overlapping pages: nothing twice,
\* nothing left behind a cursor, nothing out of order (ingest_run_events).
FeedFaithful == EventsTypeOK /\ FedOnce /\ FeedComplete /\ HostOrder

\* "Partial results never claim complete coverage": a finished pull that names
\* no unknown host and no pending page left out no event that existed when it
\* began (pull_events_from, EventCoverage).
CoverageIsHonest ==
    \A c \in Callers :
        pc[c] = "hosts" /\ pull[c].todo = {} /\ pull[c].unknown = {} /\ ~pull[c].more
        => \A h \in Hosts : \A s \in 1 .. pull[c].due[h] :
               log[h][s].kept => IsFed(h, s)

\* The end of every attempt reaches every regular reader, however long it was
\* away and whatever other readers leave half done: retention keeps an
\* attempt's newest event (retention.rs) and the cursors bring the reader to it.
OutcomeIsSeen ==
    \A a \in Attempts, c \in Regulars :
        a \in closed ~>
            \E i \in 1 .. position[c] :
                a \in closed /\ feed[i] = [host |-> HostOf[a], sequence |-> Newest(a)]
=============================================================================
