-------------------------- MODULE ProviderGuardian --------------------------
(***************************************************************************)
(* One attempt's guardian process (crates/supervisor/src/guardian.rs,      *)
(* Driver::run): it spawns a provider, drives the lifecycle machine of     *)
(* ProviderMachine once per loop turn, signals the provider, cleans its    *)
(* process group up, publishes process-exit.json and hands the attempt to  *)
(* the holder for settlement.  Around it run the provider and its          *)
(* descendants, the hosts that write cancel.json, storage that fails or    *)
(* writes without confirming durability, and crashes of the guardian.      *)
(*                                                                         *)
(* A loop turn is three steps, because the provider may exit between them: *)
(* the observations and the machine's decision (Turn), the TERM it asked   *)
(* for (Deliver), the KILL and drain deadlines (Kill, EndTurn).  Time is   *)
(* kept as the time left until each deadline.                              *)
(***************************************************************************)
EXTENDS ProviderMachine, FiniteSets

CONSTANTS
    WallMs,        \* plan.wall_ms, the runtime allowance
    FlushMs,       \* plan.root_flush_ms
    GraceMs,       \* plan.descendant_grace_ms
    SlotWaitMs,    \* plan.slot_wait_ms, the most slot waiting kept off the wall
    TerminalTries, \* length of the holder's settlement retry schedule
    Requests,      \* reasons a host writes into cancel.json
    Frames,        \* facts the provider's output may report
    Failing,       \* calls that may fail: "observe" (waitpid), "TERM", "KILL"
    Removable,     \* places somebody may delete, among Places
    MaxRemoved     \* bound on the places deleted

ASSUME BudgetAssumption ==
    /\ {WallMs, TerminalTries} \subseteq Nat \ {0}
    /\ {FlushMs, GraceMs, SlotWaitMs} \subseteq Nat
ASSUME EnvironmentAssumption ==
    /\ Requests \subseteq StopReasons
    /\ Frames \subseteq {"terminal", "rejected", "over"}
    /\ Failing \subseteq {"observe", "TERM", "KILL"}
    /\ Removable \subseteq {"attempt", "evidence", "lock"}
    /\ MaxRemoved \in Nat

VARIABLES
    pc,         \* where Driver::run stands
    m,          \* the machine's State
    g,          \* Driver::run's local variables
    timer,      \* time left to stop_at + grace (kill) and to drain_deadline
    slotUsed,   \* slot_extended_ms
    provider,   \* the provider process and the last signal sent to it
    kids,       \* whether other members of its group are alive
    says,       \* what the capture threads have decoded so far
    cancelFile, \* reason in cancel.json
    reservation,\* unresolved_cleanup in memory, visible and durable
    exitFile,   \* process-exit.json, visible and durable
    record,     \* the ProcessExit the guardian is publishing
    custody,    \* whether the guardian holds the attempt's custody lock
    tries,      \* settlement attempts left
    linked      \* places that still exist

vars == <<pc, m, g, timer, slotUsed, provider, kids, says, cancelFile,
          reservation, exitFile, record, custody, tries, linked>>

procVars == <<provider, kids, says, cancelFile, linked>>
diskVars == <<reservation, exitFile, record, custody, tries>>
-----------------------------------------------------------------------------
(* Wrong variants of definitions below, each a bug the code could have;   *)
(* substituting one must break the property named beside it.               *)
MutKillDue == timer.kill = 0 /\ ~g.killed /\ provider.last = "TERM"  \* ProviderStops
MutEndTurn ==                                                 \* ExitIsPublished
    /\ pc = "escalate"
    /\ \E drained \in BOOLEAN :
        pc' = IF g.cleanupPending /\ g.exit /\ drained THEN "cleanup" ELSE "turn"
    /\ UNCHANGED <<m, g, timer, slotUsed, procVars, diskVars>>
MutCleaned(complete) ==                                        \* RecordsAreTrue
    kids' = kids /\ provider' = [provider EXCEPT !.state = "reaped"]
MutReserve ==                                       \* SettledExitHasReservation
    /\ pc = "reserve"
    /\ reservation' = [reservation EXCEPT !.seen = reservation.mem]
    /\ pc' = "publish"
    /\ UNCHANGED <<m, g, timer, slotUsed, procVars, exitFile, record, custody, tries>>
MutResettled(r) == [r EXCEPT !.unresolved = FALSE,       \* PublishedFactsStand
                             !.stopReason = IF g.cancelled THEN "ExplicitCancellation"
                                                           ELSE @]

Larger(a, b) == IF a >= b THEN a ELSE b
KillMs == Larger(FlushMs, GraceMs)

\* The attempt directory, the writer's evidence directory and writer.lock.
Places == {"attempt", "evidence", "lock"}

Loop == {"turn", "deliver", "escalate"}
PCs == Loop \cup {"launch", "cleanup", "reserve", "publish", "linger",
                  "resettle", "republish", "release", "terminal", "reap",
                  "ended", "failed", "dead"}

Locals == [exit : BOOLEAN, stopReason : StopReasons \cup {None},
           due : StopReasons \cup {None}, cancelDelivered : BOOLEAN,
           killed : BOOLEAN, terminal : BOOLEAN, budgetStopSent : BOOLEAN,
           cleanupPending : BOOLEAN, complete : BOOLEAN, visible : BOOLEAN,
           published : BOOLEAN, cancelled : BOOLEAN]

Records == [neverSpawned : BOOLEAN, stopReason : StopReasons \cup {None},
            cancelDelivered : BOOLEAN, terminal : BOOLEAN, unresolved : BOOLEAN]

\* The reservation on disk: cleanup unresolved, resolved, being settled, gone.
Reserved == {"unresolved", "resolved", "settling", "cleared"}
ExitFacts == {None, "unresolved", "settled"}

TypeOK ==
    /\ pc \in PCs
    /\ m \in States(WallMs + SlotWaitMs, FlushMs)
    /\ g \in Locals
    /\ timer \in [kill : Off..KillMs, drain : Off..FlushMs]
    /\ slotUsed \in 0..SlotWaitMs
    /\ provider \in [state : {"none", "live", "exited", "reaped"},
                     last : {None, "TERM", "KILL"}]
    /\ kids \in BOOLEAN
    /\ says \in [terminal : BOOLEAN, rejected : BOOLEAN, over : BOOLEAN]
    /\ cancelFile \in Requests \cup {None}
    /\ reservation \in [mem : {"unresolved", "resolved"}, seen : Reserved,
                        kept : Reserved]
    /\ exitFile \in [seen : ExitFacts, kept : ExitFacts]
    /\ record \in Records
    /\ custody \in BOOLEAN
    /\ tries \in 0..TerminalTries
    /\ linked \subseteq Places

FreshLocals ==
    [exit |-> FALSE, stopReason |-> None, due |-> None, cancelDelivered |-> FALSE,
     killed |-> FALSE, terminal |-> FALSE, budgetStopSent |-> FALSE,
     cleanupPending |-> FALSE, complete |-> FALSE, visible |-> FALSE,
     published |-> FALSE, cancelled |-> FALSE]
NoTimer == [kill |-> Off, drain |-> Off]
NothingSaid == [terminal |-> FALSE, rejected |-> FALSE, over |-> FALSE]

Init ==
    /\ pc = "launch"
    /\ m = Prepared(WallMs)
    /\ g = FreshLocals
    /\ timer = NoTimer
    /\ slotUsed = 0
    /\ provider = [state |-> "none", last |-> None]
    /\ kids = FALSE
    /\ says = NothingSaid
    /\ cancelFile = None
    /\ reservation = [mem |-> "unresolved", seen |-> "unresolved",
                      kept |-> "unresolved"]
    /\ exitFile = [seen |-> None, kept |-> None]
    /\ record = [neverSpawned |-> FALSE, stopReason |-> None,
                 cancelDelivered |-> FALSE, terminal |-> FALSE,
                 unresolved |-> TRUE]
    /\ custody = TRUE
    /\ tries = TerminalTries
    /\ linked = Places
-----------------------------------------------------------------------------
(* Durable writes: an atomic replacement lands on stable storage, becomes  *)
(* visible without a confirmed directory sync, or fails.                   *)

WriteOutcomes == {"Durable", "Visible", "Failed"}

\* What a reader sees and what survives a power loss after such a write.
Written(file, value, outcome) ==
    [file EXCEPT !.seen = IF outcome = "Failed" THEN @ ELSE value,
                 !.kept = IF outcome = "Durable" THEN value ELSE @]

\* A write into a deleted directory cannot succeed.
Storable(dir, outcome) == dir \in linked \/ outcome = "Failed"
-----------------------------------------------------------------------------
(* Launch *)

\* spawn_provider succeeded: machine::step(Started) at time zero.  The provider
\* may fork from now on, so its group counts as inhabited.
Spawn ==
    /\ pc = "launch"
    /\ provider' = [provider EXCEPT !.state = "live"]
    /\ kids' = TRUE
    /\ m' = Step(m, <<"Started">>, Quiet, FlushMs).state
    /\ pc' = "turn"
    /\ UNCHANGED <<g, timer, slotUsed, says, cancelFile, linked, diskVars>>

\* Admission or lane ports refused, or the spawn failed: publish_never_spawned
\* makes the resolved reservation durable or gives up.
SpawnRefused ==
    /\ pc = "launch"
    /\ \E outcome \in WriteOutcomes :
        /\ Storable("evidence", outcome)
        /\ reservation' = Written([reservation EXCEPT !.mem = "resolved"],
                                  "resolved", outcome)
        /\ pc' = IF outcome = "Durable" THEN "publish" ELSE "failed"
    /\ m' = NeverSpawned
    /\ g' = [g EXCEPT !.complete = TRUE]
    /\ record' = [record EXCEPT !.neverSpawned = TRUE, !.unresolved = FALSE]
    /\ UNCHANGED <<timer, slotUsed, procVars, exitFile, custody, tries>>
-----------------------------------------------------------------------------
(* The supervision loop *)

\* A request for a stop the machine decides by itself only repeats its attempt.
RequestEvent(request) ==
    CASE request = "ExplicitCancellation" -> <<"Cancel">>
      [] request \in {"ProtocolRejected", "SupervisorSignal", "TokenBudget"} ->
            <<request>>
      [] request \in {"WallDeadline", "PostTerminalCleanup"} ->
            IF m.attempts[request] = "Delivered"
            THEN <<"Silence">> ELSE <<"RetryStop", request>>

\* The event of a turn, in the loop's order of preference.  `request` is what
\* read_cancel returned, None when cancel.json was not due.
EventOf(signal, request, newlyTerminal, over) ==
    CASE signal -> <<"SupervisorSignal">>
      [] ~signal /\ says.rejected -> <<"ProtocolRejected">>
      [] ~signal /\ ~says.rejected /\ request # None -> RequestEvent(request)
      [] ~signal /\ ~says.rejected /\ request = None /\ over -> <<"TokenBudget">>
      [] ~signal /\ ~says.rejected /\ request = None /\ ~over /\ newlyTerminal ->
            <<"Terminal">>
      [] OTHER -> <<"Silence">>

\* The WNOWAIT observation, which reports nothing when waiting fails.
ObservedExit(answered) == answered /\ provider.state = "exited"

\* read_cancel; cancel.json is read only when its poll or watch is due.
ReadCancel(polled) == IF polled THEN cancelFile ELSE None

\* Slot waiting a turn may keep off the wall: none once the exit is observed or
\* the plan's allowance is used up.
SlotWaits(exit) == IF ~exit /\ slotUsed < SlotWaitMs THEN {0, 1} ELSE {0}

\* The stop a machine step asks for, which an observed exit cancels.
DueStop(effects, exit) ==
    LET stops == {r \in StopReasons : <<"DeliverStop", r>> \in effects} IN
    IF stops # {} /\ ~exit THEN CHOOSE r \in stops : TRUE ELSE None

\* One turn up to the machine's decision: observe the exit, poll the signal
\* and, when due, cancel.json, pick the event, extend the wall deadline by a
\* slot wait, step the machine and note the stop it asks for.
Turn ==
    /\ pc = "turn"
    /\ \E observed \in {TRUE, "observe" \notin Failing},
          signal, polled, wallClock \in BOOLEAN, waited \in 0..1 :
        LET exit == g.exit \/ ObservedExit(observed)
            newlyTerminal == ~g.terminal /\ says.terminal
            terminal == g.terminal \/ newlyTerminal
            request == ReadCancel(polled)
            over == says.over /\ ~g.budgetStopSent /\ ~terminal /\ ~exit
            event == EventOf(signal, request, newlyTerminal, over)
            tick == [Quiet EXCEPT !.exit = exit, !.wallClock = wallClock]
            result == Step([m EXCEPT !.wall = @ + waited], event, tick, FlushMs)
            due == DueStop(result.effects, exit)
        IN
        /\ waited \in SlotWaits(exit)
        /\ slotUsed' = slotUsed + waited
        /\ m' = result.state
        /\ g' = [g EXCEPT
                    !.exit = exit, !.terminal = terminal, !.due = due,
                    !.budgetStopSent = @ \/ (event = <<"TokenBudget">> /\ request = None),
                    !.cleanupPending = @ \/ <<"BeginCleanup">> \in result.effects,
                    !.stopReason = IF @ = None THEN due ELSE @]
        /\ timer' = [kill |-> IF timer.kill = Off /\ due # None THEN KillMs
                                                                ELSE timer.kill,
                     drain |-> IF timer.drain = Off /\ exit THEN FlushMs
                                                            ELSE timer.drain]
        /\ pc' = IF due # None THEN "deliver" ELSE "escalate"
    /\ UNCHANGED <<procVars, diskVars>>

\* ProviderGroup::stop: no signal to an exited or reaped provider, to one it
\* could not observe, nor the same signal twice; otherwise kill(2) answers.
StopOutcomes(signal) ==
    IF provider.state # "live" \/ provider.last = signal THEN {"Failed"}
    ELSE {"Delivered"} \cup (IF Failing \cap {"observe", signal} # {}
                            THEN {"Failed"} ELSE {})

Signalled(signal, outcome) ==
    [provider EXCEPT !.last = IF outcome = "Delivered" THEN signal ELSE @]

\* The machine after the receipt of a delivery, fed back as a second step.
Receipt(reason, outcome) ==
    Step(m, <<"Silence">>, [Quiet EXCEPT !.delivery = <<reason, outcome>>], FlushMs)

\* Effect::DeliverStop
Deliver ==
    /\ pc = "deliver"
    /\ \E outcome \in StopOutcomes("TERM") :
        /\ provider' = Signalled("TERM", outcome)
        /\ m' = Receipt(g.due, outcome).state
        /\ g' = [g EXCEPT !.due = None,
                          !.cancelDelivered = @ \/ /\ g.due = "ExplicitCancellation"
                                                   /\ outcome = "Delivered"]
    /\ pc' = "escalate"
    /\ UNCHANGED <<timer, slotUsed, kids, says, cancelFile, linked, diskVars>>

\* The KILL deadline passes: one KILL, whether or not the exit was observed.
KillDue == timer.kill = 0 /\ ~g.killed

Kill ==
    /\ pc = "escalate"
    /\ KillDue
    /\ \E outcome \in StopOutcomes("KILL") :
        /\ provider' = Signalled("KILL", outcome)
        /\ m' = Receipt(g.stopReason, outcome).state
        /\ g' = [g EXCEPT !.killed = TRUE,
                          !.cancelDelivered = @ \/ /\ ~g.exit
                                                   /\ g.stopReason = "ExplicitCancellation"
                                                   /\ outcome = "Delivered"]
    /\ UNCHANGED <<pc, timer, slotUsed, kids, says, cancelFile, linked, diskVars>>

\* Both pipes drained or the drain deadline passed: leave the loop.
EndTurn ==
    /\ pc = "escalate"
    /\ ~KillDue
    /\ \E drained \in BOOLEAN :
        pc' = IF g.cleanupPending /\ g.exit /\ (drained \/ timer.drain = 0)
              THEN "cleanup" ELSE "turn"
    /\ UNCHANGED <<m, g, timer, slotUsed, procVars, diskVars>>
-----------------------------------------------------------------------------
(* Cleanup and durable exit publication *)

\* terminate_group: TERM, then KILL, to the group for a bounded time; members
\* may be shielded, uncounted or slow to die.
Survivors == {kids, FALSE}

\* Only a census that finds no live member, escapee or unknown is complete
\* (apply_census, marked_escapees, darwin_quiescent).
CensusClear(complete) == complete => ~kids'

\* Driver::cleanup: signal the group and its escapees, then count them.  The
\* exited leader is reaped unless waiting fails.
Cleaned(complete) ==
    /\ kids' \in Survivors
    /\ CensusClear(complete)
    /\ provider' \in {[provider EXCEPT !.state = "reaped"]}
                     \cup (IF complete THEN {} ELSE {provider})

SettleTick(complete) ==
    [Quiet EXCEPT !.cleanup = IF complete THEN "Complete" ELSE "Unresolved"]

\* Driver::run's first cleanup, the machine's settle step and the facts of the
\* exit record; the loop's deadlines and captures end here.
Cleanup ==
    /\ pc = "cleanup"
    /\ timer' = NoTimer
    /\ slotUsed' = 0
    /\ says' = NothingSaid
    /\ \E complete \in BOOLEAN :
        LET result == Step(m, <<"Silence">>, SettleTick(complete), FlushMs)
            terminal == g.terminal \/ says.terminal
        IN
        /\ Cleaned(complete)
        /\ m' = [result.state EXCEPT !.wall = 0, !.flush = Off]
        /\ g' = [g EXCEPT !.complete = complete, !.terminal = terminal]
        /\ reservation' = [reservation EXCEPT
                              !.mem = IF complete THEN "resolved" ELSE "unresolved"]
        /\ record' = [record EXCEPT !.stopReason = g.stopReason,
                                    !.cancelDelivered = g.cancelDelivered,
                                    !.terminal = terminal,
                                    !.unresolved = ~complete]
        /\ pc' = IF <<"PublishExit">> \in result.effects THEN "reserve" ELSE "failed"
    /\ UNCHANGED <<cancelFile, linked, exitFile, custody, tries>>

\* persist_reservation, retried until durable: the exit must agree with a
\* durable reservation.
Reserve ==
    /\ pc = "reserve"
    /\ \E outcome \in WriteOutcomes :
        /\ Storable("evidence", outcome)
        /\ reservation' = Written(reservation, reservation.mem, outcome)
        /\ pc' = IF outcome = "Durable" THEN "publish" ELSE "reserve"
    /\ UNCHANGED <<m, g, timer, slotUsed, procVars, exitFile, record, custody, tries>>

\* retire_unlinked_writer: the deleted lock's inode is proven idle.
Retirable == "lock" \notin linked /\ ~kids'

\* The evidence directory is gone: retire once cleanup is complete, publishing
\* nothing.
AbandonReserve ==
    /\ pc = "reserve"
    /\ "evidence" \notin linked
    /\ \E complete, retired \in BOOLEAN :
        /\ g.complete => complete
        /\ IF g.complete THEN UNCHANGED <<provider, kids>> ELSE Cleaned(complete)
        /\ retired => Retirable
        /\ g' = [g EXCEPT !.complete = complete]
        /\ pc' = IF complete \/ retired THEN "failed" ELSE "reserve"
    /\ UNCHANGED <<m, timer, slotUsed, says, cancelFile, linked, diskVars>>

ExitFact == IF record.unresolved THEN "unresolved" ELSE "settled"

\* publish_until_durable, one attempt: write without replacing, or sync the
\* directory of a record already visible.
Publish ==
    /\ pc = "publish"
    /\ "attempt" \in linked
    /\ \E outcome \in WriteOutcomes :
        LET tick == [Quiet EXCEPT !.publication =
                        IF outcome = "Failed" THEN "Pending" ELSE outcome]
            result == Step(m, <<"Silence">>, tick, FlushMs)
            durable == result.state.phase = "Published"
        IN
        /\ g.visible => outcome # "Visible"
        /\ exitFile' = Written(exitFile, ExitFact, outcome)
        /\ m' = result.state
        /\ g' = [g EXCEPT !.published = durable,
                          !.visible = @ \/ <<"RetryPublishedDirectorySync">> \in result.effects]
        /\ pc' = IF ~durable THEN "publish"
                 ELSE IF g.complete THEN "release" ELSE "linger"
    /\ UNCHANGED <<timer, slotUsed, procVars, reservation, record, custody, tries>>

\* The attempt directory was provably removed: nowhere to publish.
AbandonPublish ==
    /\ pc = "publish"
    /\ "attempt" \notin linked
    /\ pc' = IF g.complete THEN "reap" ELSE "linger"
    /\ UNCHANGED <<m, g, timer, slotUsed, procVars, diskVars>>

\* An unresolved exit keeps the guardian cleaning until the group is gone or a
\* supervisor signal has had one more cleanup.
Linger ==
    /\ pc = "linger"
    /\ \E complete, retired, signal \in BOOLEAN :
        /\ Cleaned(complete)
        /\ retired => Retirable
        /\ g' = [g EXCEPT !.cancelled = @ \/ cancelFile = "ExplicitCancellation"]
        /\ pc' = IF complete /\ g.published THEN "resettle"
                 ELSE IF complete \/ retired \/ signal THEN "reap" ELSE "linger"
    /\ UNCHANGED <<m, timer, slotUsed, says, cancelFile, linked, diskVars>>

\* The settled record: a cancellation names itself only where no stop did.
Resettled(r) ==
    [r EXCEPT !.unresolved = FALSE,
              !.stopReason = IF g.cancelled /\ @ = None THEN "ExplicitCancellation"
                                                        ELSE @]

\* republish_settled, first half: the reservation is made resolved first.
Resettle ==
    /\ pc = "resettle"
    /\ \E outcome \in WriteOutcomes :
        /\ Storable("evidence", outcome)
        /\ reservation' = [Written(reservation, "resolved", outcome) EXCEPT
                              !.mem = IF outcome = "Durable" THEN "resolved"
                                                             ELSE "unresolved"]
        /\ pc' = IF outcome = "Durable" THEN "republish" ELSE "reap"
        /\ record' = IF outcome = "Durable" THEN Resettled(record) ELSE record
    /\ UNCHANGED <<m, g, timer, slotUsed, procVars, exitFile, custody, tries>>

\* Second half: the one replacement of process-exit.json.
Republish ==
    /\ pc = "republish"
    /\ \E outcome \in WriteOutcomes :
        /\ Storable("attempt", outcome)
        /\ exitFile' = Written(exitFile, "settled", outcome)
        /\ pc' = IF outcome = "Durable" THEN "release" ELSE "reap"
    /\ UNCHANGED <<m, g, timer, slotUsed, procVars, reservation, record, custody, tries>>
-----------------------------------------------------------------------------
(* Settlement *)

\* release: mark the reservation settling, then give up attempt custody.
Release ==
    /\ pc = "release"
    /\ \E outcome \in WriteOutcomes, prepared \in BOOLEAN :
        LET settling == outcome = "Durable" /\ prepared IN
        /\ Storable("evidence", outcome)
        /\ reservation' = Written(reservation, "settling", outcome)
        /\ custody' = (custody /\ ~settling)
        /\ pc' = IF settling THEN "terminal" ELSE "reap"
    /\ UNCHANGED <<m, g, timer, slotUsed, procVars, exitFile, record, tries>>

\* The holder's terminal commit and its verification, on a bounded schedule;
\* a settled reservation is cleared.
Settle ==
    /\ pc = "terminal"
    /\ tries > 0
    /\ tries' = tries - 1
    /\ \E settled, cleared \in BOOLEAN :
        /\ reservation' = IF settled /\ cleared
                          THEN [reservation EXCEPT !.seen = "cleared", !.kept = "cleared"]
                          ELSE reservation
        /\ pc' = IF settled \/ tries = 1 THEN "reap" ELSE "terminal"
    /\ UNCHANGED <<m, g, timer, slotUsed, procVars, exitFile, record, custody>>

\* finish_fenced: the known-dead leader is reaped, then the guardian exits.
Reap ==
    /\ pc = "reap"
    /\ provider' = IF provider.state = "none" THEN provider
                   ELSE [provider EXCEPT !.state = "reaped"]
    /\ pc' = "ended"
    /\ custody' = FALSE
    /\ UNCHANGED <<m, g, timer, slotUsed, kids, says, cancelFile, linked,
                   reservation, exitFile, record, tries>>
-----------------------------------------------------------------------------
(* The environment *)

Running == pc \notin {"ended", "failed", "dead"}

Passed(t) == IF t > 0 THEN t - 1 ELSE t

TimePasses ==
    /\ pc \in Loop
    /\ m.wall > 0 \/ m.flush > 0 \/ timer.kill > 0 \/ timer.drain > 0
    /\ m' = [m EXCEPT !.wall = Passed(@), !.flush = Passed(@)]
    /\ timer' = [kill |-> Passed(timer.kill), drain |-> Passed(timer.drain)]
    /\ UNCHANGED <<pc, g, slotUsed, procVars, diskVars>>

ProviderExits ==
    /\ pc \in Loop
    /\ provider.state = "live"
    /\ provider' = [provider EXCEPT !.state = "exited"]
    /\ UNCHANGED <<pc, m, g, timer, slotUsed, kids, says, cancelFile, linked, diskVars>>

\* A killed process cannot refuse.
KilledExits == provider.last = "KILL" /\ ProviderExits

\* The group empties by itself; before the loop ends nobody looks.
KidsExit ==
    /\ Running /\ pc \notin Loop
    /\ kids
    /\ kids' = FALSE
    /\ UNCHANGED <<pc, m, g, timer, slotUsed, provider, says, cancelFile, linked, diskVars>>

\* A frame of the provider is decoded: terminal, rejected, usage over budget.
Says(fact) ==
    /\ pc \in Loop
    /\ ~says[fact]
    /\ says' = [says EXCEPT ![fact] = TRUE]
    /\ UNCHANGED <<pc, m, g, timer, slotUsed, provider, kids, cancelFile, linked, diskVars>>

\* reconcile calls an attempt overdue by its recorded deadline, which slot
\* waits do not move.
Overdue == m.wall <= slotUsed

\* custody::stop: cancel.json is created, or an unlike request replaced.
WriteCancel(reason) ==
    /\ Running /\ "attempt" \in linked
    /\ cancelFile # reason
    /\ reason = "WallDeadline" => pc \in Loop /\ Overdue
    /\ cancelFile' = reason
    /\ UNCHANGED <<pc, m, g, timer, slotUsed, provider, kids, says, linked, diskVars>>

\* A deletion shows only in the writes outside the loop.
RemoveDirectory(dir) ==
    /\ Running /\ pc \notin Loop
    /\ dir \in linked
    /\ Cardinality(Places \ linked) < MaxRemoved
    /\ linked' = linked \ {dir}
    /\ UNCHANGED <<pc, m, g, timer, slotUsed, provider, kids, says, cancelFile, diskVars>>

Forgotten ==
    /\ m' = Prepared(WallMs) /\ g' = FreshLocals
    /\ timer' = NoTimer /\ slotUsed' = 0

\* The guardian is killed: the kernel drops its locks and its memory is gone.
GuardianDies ==
    /\ Running
    /\ pc' = "dead"
    /\ custody' = FALSE
    /\ Forgotten
    /\ UNCHANGED <<procVars, reservation, exitFile, record, tries>>

\* The host loses power: only durable writes remain and every process is gone.
HostCrash ==
    /\ pc' = "dead"
    /\ custody' = FALSE
    /\ kids' = FALSE
    /\ provider' = [provider EXCEPT !.state = IF @ = "none" THEN @ ELSE "reaped"]
    /\ reservation' = [reservation EXCEPT !.seen = reservation.kept]
    /\ exitFile' = [exitFile EXCEPT !.seen = exitFile.kept]
    /\ Forgotten
    /\ UNCHANGED <<says, cancelFile, record, tries, linked>>
-----------------------------------------------------------------------------
Guardian ==
    \/ Spawn \/ SpawnRefused \/ Turn \/ Deliver \/ Kill \/ EndTurn
    \/ Cleanup \/ Reserve \/ AbandonReserve \/ Publish \/ AbandonPublish
    \/ Linger \/ Resettle \/ Republish \/ Release \/ Settle \/ Reap

Environment ==
    \/ TimePasses \/ ProviderExits \/ KidsExit
    \/ \E fact \in Frames : Says(fact)
    \/ \E reason \in Requests : WriteCancel(reason)
    \/ \E dir \in Removable : RemoveDirectory(dir)

Crash == GuardianDies \/ HostCrash

Next == Guardian \/ Environment \/ Crash

Spec == Init /\ [][Next]_vars

\* Fairness: the guardian keeps running, time passes, a killed provider dies,
\* and storage recovers (the publication loops retry without limit because it
\* may).
Fairness ==
    /\ WF_vars(Guardian)
    /\ WF_vars(TimePasses)
    /\ WF_vars(KilledExits)
    /\ SF_vars(Reserve /\ pc' = "publish")
    /\ SF_vars(Publish /\ g'.published)

FairSpec == Spec /\ Fairness
-----------------------------------------------------------------------------
(* Properties *)

\* A provider is stopped for one reason only: the machine never opens a second
\* stop attempt beside the one the guardian recorded as stop_reason first, and
\* no attempt is opened for a provider whose exit was observed first
\* (request_stop and the order of checks in machine::step).
OneStopReason ==
    /\ \A r \in StopReasons : m.attempts[r] # None => r = g.stopReason
    /\ g.stopReason # None => m.attempts[g.stopReason] # None

\* The published exit tells the truth: no exit record while the provider
\* lives, none marked settled while a group member lives,
\* cancel_delivered_before_exit only when the provider was signalled for it,
\* and a stop reason that is the only one the machine acted on.
RecordsAreTrue ==
    /\ TypeOK /\ OneStopReason
    /\ exitFile.seen # None =>
          provider.state \in IF record.neverSpawned THEN {"none"} ELSE {"exited", "reaped"}
    /\ exitFile.seen = "settled" => ~kids
    /\ record.cancelDelivered => /\ provider.last # None
                                 /\ record.stopReason = "ExplicitCancellation"

\* A crash at any point leaves the conservative facts: a settled exit is never
\* visible, even unconfirmed, unless the resolved reservation is durable
\* (persist_reservation before publication, republish_settled's order).
SettledExitHasReservation ==
    exitFile.seen = "settled" => reservation.kept # "unresolved"

\* The writer fence outlives the attempt: the reservation goes to settlement,
\* and a running guardian gives its custody lock up, only once a settled exit
\* is durable (release, publish_until_durable, republish_settled).
FenceUntilSettled ==
    \/ reservation.seen \in {"settling", "cleared"}
    \/ reservation.kept \in {"settling", "cleared"}
    \/ Running /\ ~custody
    => exitFile.kept = "settled"

\* A durable exit record is final but for one replacement of an unresolved
\* exit by a settled one; the facts it published stand, except that a late
\* cancellation may name itself where no stop was recorded.
PublishedFactsStand ==
    [][exitFile.kept # None =>
        /\ exitFile'.kept \in {exitFile.kept, "settled"}
        /\ record'.stopReason \in IF record.stopReason = None
                                  THEN {None, "ExplicitCancellation"}
                                  ELSE {record.stopReason}
        /\ [record' EXCEPT !.stopReason = None, !.unresolved = FALSE]
             = [record EXCEPT !.stopReason = None, !.unresolved = FALSE]]_vars

\* A live provider is stopped in the end: its runtime allowance runs out, slot
\* waits are bounded, and a TERM it ignores or that could not be delivered is
\* followed by a KILL; only a KILL that fails, which is not repeated, leaves it
\* (Driver::run's loop, machine::step).
ProviderStops ==
    provider.state = "live" ~> \/ provider.state # "live" \/ pc = "dead"
                               \/ g.killed /\ provider.last # "KILL"

\* An observed exit is published durably unless the guardian dies or its
\* directories are deleted: no failed write ends the retry loops of Driver::run
\* and publish_until_durable, and cleanup that ran out of time does not make the
\* machine withhold PublishExit.
ExitIsPublished ==
    g.exit ~> exitFile.kept # None \/ pc = "dead" \/ linked # Places
=============================================================================
