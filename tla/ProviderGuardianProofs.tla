----------------------- MODULE ProviderGuardianProofs -----------------------
(***************************************************************************)
(* Proofs about ProviderGuardian, for any budgets, requests, frames and    *)
(* failing calls, and any number of deleted places.                        *)
(*                                                                         *)
(* The machine opens a stop attempt only while none is open, so the        *)
(* guardian's first stop reason is the only one; the guardian's stages     *)
(* order the durable writes: the reservation before the exit, the exit     *)
(* before the reservation is handed to settlement.  Both orders are kept   *)
(* as facts about the stage the guardian stands at, which is what makes    *)
(* the published facts inductive across crashes.                           *)
(***************************************************************************)
EXTENDS ProviderGuardian, TLAPS

\* Stages of the guardian by what it still owes.
BeforeExit == Loop \cup {"launch", "cleanup", "reserve"}
AfterLoop == {"cleanup", "reserve", "publish", "linger", "resettle", "republish",
              "release", "terminal", "reap"}
Lingering == {"linger", "resettle", "republish"}

Active == {"Running", "TerminalGrace", "Stopping", "Cleaning"}

\* The machine and the guardian's own account of a stop agree.
MachineInv ==
    /\ OneStopReason
    /\ pc \in Loop => m.phase \in Active
    /\ m.phase \in {"Prepared", "Running", "TerminalGrace"} =>
          \A r \in StopReasons : m.attempts[r] = None
    /\ pc = "deliver" => m.phase = "Stopping" /\ g.due # None /\ g.due = g.stopReason
    /\ pc = "cleanup" => g.exit
    /\ pc \in Loop \cup {"cleanup"} /\ g.exit => m.phase = "Cleaning"
    /\ pc \in {"reserve", "publish"} => m.phase = "Exited"
    /\ pc = "launch" => m = Prepared(WallMs)
    /\ m.wall <= WallMs + slotUsed
    /\ timer.kill # Off => g.stopReason # None

\* What the guardian's stage says about the processes.
ProcessInv ==
    /\ pc = "launch" => provider.state = "none" /\ ~kids
    /\ pc \in Loop \cup {"launch", "cleanup", "reserve"} \cup Lingering => ~record.neverSpawned
    /\ pc \in Loop \cup {"launch"} => record.unresolved
    /\ record.neverSpawned => provider.state = "none"
    /\ g.exit => provider.state \in {"exited", "reaped"}
    /\ pc \in AfterLoop => record.neverSpawned \/ provider.state \in {"exited", "reaped"}
    /\ ~record.unresolved \/ pc \in {"resettle", "republish"} => ~kids

\* A cancellation that is said to have been delivered was.
CancelInv ==
    /\ g.cancelDelivered => /\ provider.last # None
                            /\ g.stopReason = "ExplicitCancellation"
    /\ record.cancelDelivered => /\ provider.last # None
                                 /\ record.stopReason = "ExplicitCancellation"

\* The exit record follows the reservation.
ExitInv ==
    /\ pc \in BeforeExit => exitFile.seen = None
    /\ pc \in BeforeExit \cup {"publish"} => exitFile.kept = None
    /\ exitFile.kept # None => exitFile.seen \in {exitFile.kept, "settled"}
    /\ exitFile.seen # None =>
          provider.state \in IF record.neverSpawned THEN {"none"} ELSE {"exited", "reaped"}
    /\ exitFile.seen = "settled" => ~kids
    /\ pc \in {"reserve", "publish"} => (g.complete <=> ~record.unresolved)
    /\ pc = "publish" /\ record.neverSpawned => g.complete
    /\ pc = "reserve" => (reservation.mem = "resolved" <=> ~record.unresolved)
    /\ (pc = "publish" /\ ~record.unresolved) \/ pc = "republish" =>
          reservation.kept # "unresolved"
    /\ SettledExitHasReservation

\* Settlement follows the settled exit.
FenceInv ==
    /\ FenceUntilSettled
    /\ pc \in {"release", "terminal"} => exitFile.kept = "settled"

IInv ==
    /\ TypeOK
    /\ MachineInv
    /\ ProcessInv
    /\ CancelInv
    /\ ExitInv
    /\ FenceInv

-----------------------------------------------------------------------------
(* The machine *)

Stopped(s, reason) == [s EXCEPT !.phase = "Stopping", !.attempts[reason] = "Asked"]

\* Nothing is owed to the machine: no attempt was made.
Unstopped(s) == \A r \in StopReasons : s.attempts[r] = None

Calm(tick) == tick.delivery = <<>> /\ tick.cleanup = None

\* What the machine may decide in a turn of the loop: to stop for one reason,
\* which is new to it only when it had none, or to go on without a stop.
Stops(s, tick, result, r) ==
    /\ Unstopped(s) \/ s.attempts[r] # None
    /\ s.phase # "Cleaning" /\ ~tick.exit
    /\ result.state = Stopped(s, r)
    /\ result.effects = {<<"DeliverStop", r>>}

GoesOn(s, tick, result) ==
    /\ result.state.phase \in Active
    /\ result.state.phase \in {"Running", "TerminalGrace"} => Unstopped(s)
    /\ s.phase = "Cleaning" \/ tick.exit => result.state.phase = "Cleaning"
    /\ result.state.attempts = s.attempts
    /\ result.state.wall = s.wall
    /\ \A r \in StopReasons : <<"DeliverStop", r>> \notin result.effects

\* The machine's type is kept by a stop and by the receipt of a delivery.
LEMMA StoppedType ==
    ASSUME NEW w \in Nat, NEW f \in Nat, NEW s \in States(w, f), NEW reason \in StopReasons
    PROVE  /\ Stopped(s, reason) \in States(w, f)
           /\ Stopped(s, reason).phase = "Stopping"
           /\ Stopped(s, reason).wall = s.wall
           /\ Stopped(s, reason).attempts[reason] = "Asked"
           /\ \A r \in StopReasons \ {reason} : Stopped(s, reason).attempts[r] = s.attempts[r]
BY DEF Stopped, States, Attempts, Phases

\* The receipt of a delivery opens and closes no attempt.
LEMMA ReceiptedType ==
    ASSUME NEW w \in Nat, NEW f \in Nat, NEW s \in States(w, f), NEW d, d # <<>>,
           d[1] \in StopReasons, d[2] \in {"Delivered", "Failed"}
    PROVE  /\ Receipted(s, d) \in States(w, f)
           /\ Receipted(s, d).phase = s.phase
           /\ Receipted(s, d).wall = s.wall
           /\ \A r \in StopReasons : Receipted(s, d).attempts[r] = None <=> s.attempts[r] = None
<1>1. CASE s.attempts[d[1]] = None
    BY <1>1 DEF Receipted
<1>2. CASE s.attempts[d[1]] # None
    <2>1. Receipted(s, d) = [s EXCEPT !.attempts[d[1]] = d[2]]
        BY <1>2 DEF Receipted
    <2> QED
        BY <1>2, <2>1 DEF States, Attempts, None
<1> QED
    BY <1>1, <1>2

\* A stop is requested only of an unstopped machine, and then asks for its own
\* delivery.
LEMMA RequestStopIs ==
    ASSUME NEW s, NEW reason \in StopReasons, Unstopped(s),
           s.phase \in {"Running", "TerminalGrace"}
    PROVE  RequestStop(s, reason) = Result(Stopped(s, reason), {<<"DeliverStop", reason>>})
<1>1. s.attempts[reason] = None
    BY DEF Unstopped
<1> QED
    BY <1>1 DEF RequestStop, Stopped, None

\* The stop due is one the machine asked for; an observed exit leaves none.
LEMMA DueStopIs ==
    ASSUME NEW effects, NEW exit \in BOOLEAN
    PROVE  LET due == DueStop(effects, exit) IN
           \/ due = None /\ (exit \/ \A r \in StopReasons : <<"DeliverStop", r>> \notin effects)
           \/ ~exit /\ due \in StopReasons /\ <<"DeliverStop", due>> \in effects
<1> DEFINE stops == {r \in StopReasons : <<"DeliverStop", r>> \in effects}
<1>1. CASE stops = {} \/ exit
    BY <1>1 DEF DueStop
<1>2. CASE stops # {} /\ ~exit
    <2>1. DueStop(effects, exit) = CHOOSE r \in stops : TRUE
        BY <1>2 DEF DueStop
    <2>2. (CHOOSE r \in stops : TRUE) \in stops
        BY <1>2
    <2> QED
        BY <1>2, <2>1, <2>2
<1> QED
    BY <1>1, <1>2

\* Without a receipt a step is the machine's decision.
LEMMA UndeliveredStep ==
    ASSUME NEW s, NEW event, NEW tick, NEW flushMs, tick.delivery = <<>>
    PROVE  /\ Step(s, event, tick, flushMs).state = Decide(s, event, tick, flushMs).state
           /\ Step(s, event, tick, flushMs).effects = Decide(s, event, tick, flushMs).effects
<1>1. Receipted(s, tick.delivery) = s /\ Rejected(s, tick.delivery) = {}
    BY DEF Receipted, Rejected
<1> QED
    BY <1>1 DEF Step, Result

\* In a turn an unexited machine stops for one reason, its first, or goes on.
LEMMA TurnDecides ==
    ASSUME NEW w \in Nat, NEW f \in Nat, NEW s \in States(w, f), NEW event, NEW tick,
           Calm(tick), tick.exit \in BOOLEAN, s.phase \in Active,
           s.phase \in {"Running", "TerminalGrace"} => Unstopped(s),
           event[1] = "RetryStop" => event[2] \in StopReasons
    PROVE  LET result == Decide(s, event, tick, f) IN
           /\ result.state \in States(w, f)
           /\ GoesOn(s, tick, result) \/ \E r \in StopReasons : Stops(s, tick, result, r)
<1> DEFINE result == Decide(s, event, tick, f)
<1> SUFFICES /\ result.state \in States(w, f)
             /\ GoesOn(s, tick, result) \/ \E r \in StopReasons : Stops(s, tick, result, r)
    OBVIOUS
<1> USE DEF Active
<1>1. CASE s.phase \in Unexited /\ tick.exit
    <2>1. result = Result([s EXCEPT !.exit = TRUE, !.phase = "Cleaning"], {<<"BeginCleanup">>})
        BY <1>1 DEF Decide
    <2> HIDE DEF result
    <2> QED
        BY <1>1, <2>1 DEF Result, GoesOn, States, Phases, Unexited
<1>2. ASSUME NEW r \in StopReasons, s.phase \in {"Running", "TerminalGrace"}, ~tick.exit,
             result = RequestStop(s, r)
      PROVE  result.state \in States(w, f) /\ Stops(s, tick, result, r)
    <2>1. Unstopped(s) /\ result = Result(Stopped(s, r), {<<"DeliverStop", r>>})
        BY <1>2, RequestStopIs
    <2> HIDE DEF result
    <2> QED
        BY <1>2, <2>1, StoppedType DEF Result, Stops
<1>3. CASE /\ s.phase \in {"Running", "TerminalGrace"} /\ ~tick.exit
           /\ s.wall = 0 \/ tick.wallClock
    <2>1. result = RequestStop(s, "WallDeadline")
        BY <1>3 DEF Decide
    <2> QED
        BY <1>2, <1>3, <2>1 DEF StopReasons
<1>4. CASE s.phase = "Running" /\ ~tick.exit /\ ~(s.wall = 0 \/ tick.wallClock)
    <2>1. result = OnRunning(s, event, f)
        BY <1>4 DEF Decide
    <2>2. CASE event = <<"Terminal">>
        <3>1. result = Result([s EXCEPT !.phase = "TerminalGrace", !.flush = f],
                              {<<"CloseStdin">>})
            <4>1. StopOf(event) = None
                BY <2>2 DEF StopOf
            <4> QED
                BY <2>1, <2>2, <4>1 DEF OnRunning
        <3>2. \A r \in StopReasons : <<"DeliverStop", r>> # <<"CloseStdin">>
            OBVIOUS
        <3> DEFINE t == [s EXCEPT !.phase = "TerminalGrace", !.flush = f]
        <3>3. /\ t \in States(w, f) /\ t.phase = "TerminalGrace"
              /\ t.attempts = s.attempts /\ t.wall = s.wall
            <4>1. f \in Off..f
                BY DEF Off
            <4> QED
                BY <4>1 DEF States, Phases
        <3>4. result.state = t /\ result.effects = {<<"CloseStdin">>}
            BY <3>1 DEF Result
        <3> HIDE DEF result, t
        <3> QED
            BY <1>4, <3>2, <3>3, <3>4 DEF GoesOn
    <2>3. CASE event # <<"Terminal">> /\ StopOf(event) # None
        <3>1. StopOf(event) \in StopReasons
            BY <2>3 DEF StopOf, StopReasons
        <3>2. result = RequestStop(s, StopOf(event))
            BY <2>1, <2>3 DEF OnRunning
        <3> QED
            BY <1>2, <1>4, <3>1, <3>2
    <2>4. CASE event # <<"Terminal">> /\ StopOf(event) = None
        <3>1. result = Result(s, {})
            BY <2>1, <2>4 DEF OnRunning
        <3> HIDE DEF result
        <3> QED
            BY <1>4, <3>1 DEF Result, GoesOn
    <2> QED
        BY <2>2, <2>3, <2>4
<1>5. CASE s.phase = "TerminalGrace" /\ ~tick.exit /\ ~(s.wall = 0 \/ tick.wallClock)
    <2>1. result = OnTerminalGrace(s, event)
        BY <1>5 DEF Decide
    <2>2. \/ result = RequestStop(s, "PostTerminalCleanup")
          \/ StopOf(event) # None /\ result = RequestStop(s, StopOf(event))
          \/ result = Result(s, {})
        BY <2>1 DEF OnTerminalGrace
    <2>3. StopOf(event) # None => StopOf(event) \in StopReasons
        BY DEF StopOf, StopReasons
    <2>4. CASE result = Result(s, {})
        <3> HIDE DEF result
        <3> QED
            BY <1>5, <2>4 DEF Result, GoesOn
    <2> QED
        BY <1>2, <1>5, <2>2, <2>3, <2>4 DEF StopReasons
<1>6. CASE s.phase = "Stopping" /\ ~tick.exit
    <2>1. result = IF event[1] = "RetryStop" THEN RetryStop(s, event[2]) ELSE Result(s, {})
        BY <1>6 DEF Decide, OnStopping, Calm, None
    <2>2. CASE result = Result(s, {})
        <3> HIDE DEF result
        <3> QED
            BY <1>6, <2>2 DEF Result, GoesOn
    <2>3. CASE result # Result(s, {})
        <3>1. /\ event[2] \in StopReasons /\ s.attempts[event[2]] # None
              /\ result = Result([s EXCEPT !.attempts[event[2]] = "Asked"],
                                 {<<"DeliverStop", event[2]>>})
            BY <2>1, <2>3 DEF RetryStop
        <3>2. [s EXCEPT !.attempts[event[2]] = "Asked"] = Stopped(s, event[2])
            BY <1>6, <3>1 DEF Stopped, States
        <3> HIDE DEF result
        <3> QED
            BY <1>6, <3>1, <3>2, StoppedType DEF Result, Stops
    <2> QED
        BY <2>2, <2>3
<1>7. CASE s.phase = "Cleaning"
    <2>1. result = Result(s, {})
        BY <1>7 DEF Decide, OnCleaning, Calm, Unexited, None
    <2> HIDE DEF result
    <2> QED
        BY <1>7, <2>1 DEF Result, GoesOn
<1> QED
    BY <1>1, <1>3, <1>4, <1>5, <1>6, <1>7 DEF Unexited

\* The receipt of a delivery changes the named attempt and nothing else.
LEMMA ReceiptDecides ==
    ASSUME NEW w \in Nat, NEW f \in Nat, NEW s \in States(w, f), NEW tick,
           s.phase \in {"Stopping", "Cleaning"},
           tick.delivery # <<>>, tick.delivery[1] \in StopReasons,
           tick.delivery[2] \in {"Delivered", "Failed"},
           ~tick.exit, ~tick.wallClock, tick.cleanup = None
    PROVE  Step(s, <<"Silence">>, tick, f).state = Receipted(s, tick.delivery)
<1> DEFINE t == Receipted(s, tick.delivery)
<1>1. t.phase = s.phase
    BY ReceiptedType
<1> HIDE DEF t
<1>2. Decide(t, <<"Silence">>, tick, f) = Result(t, {})
    <2>1. CASE s.phase = "Stopping"
        BY <1>1, <2>1 DEF Decide, OnStopping, Unexited, None
    <2>2. CASE s.phase = "Cleaning"
        BY <1>1, <2>2 DEF Decide, OnCleaning, Unexited, None
    <2> QED
        BY <2>1, <2>2
<1> QED
    BY <1>2 DEF Step, Result, t

\* A receipt fed back to the guardian's machine.
LEMMA ReceiptIs ==
    ASSUME NEW w \in Nat, m \in States(w, FlushMs), m.phase \in {"Stopping", "Cleaning"},
           NEW reason \in StopReasons, NEW outcome \in {"Delivered", "Failed"}
    PROVE  /\ Receipt(reason, outcome).state \in States(w, FlushMs)
           /\ Receipt(reason, outcome).state.phase = m.phase
           /\ Receipt(reason, outcome).state.wall = m.wall
           /\ \A r \in StopReasons :
                Receipt(reason, outcome).state.attempts[r] = None <=> m.attempts[r] = None
<1> DEFINE d == <<reason, outcome>>
           tick == [Quiet EXCEPT !.delivery = d]
<1>1. d # <<>> /\ d[1] = reason /\ d[2] = outcome
    OBVIOUS
<1>2. tick.delivery = d /\ ~tick.exit /\ ~tick.wallClock /\ tick.cleanup = None
    BY DEF Quiet
<1>3. Receipt(reason, outcome) = Step(m, <<"Silence">>, tick, FlushMs)
    BY DEF Receipt
<1> HIDE DEF tick, d
<1>4. FlushMs \in Nat
    BY BudgetAssumption
<1>5. Receipt(reason, outcome).state = Receipted(m, d)
    <2>1. /\ tick.delivery # <<>> /\ tick.delivery[1] \in StopReasons
          /\ tick.delivery[2] \in {"Delivered", "Failed"}
        BY <1>1, <1>2
    <2>2. Step(m, <<"Silence">>, tick, FlushMs).state = Receipted(m, tick.delivery)
        BY <1>2, <1>4, <2>1, ReceiptDecides
    <2> QED
        BY <1>2, <1>3, <2>2
<1> QED
    BY <1>1, <1>4, <1>5, ReceiptedType

-----------------------------------------------------------------------------
(* Budgets, durable writes and cleanup *)

\* The budgets of the plan are natural numbers.
LEMMA Budgets ==
    /\ WallMs \in Nat /\ WallMs # 0 /\ FlushMs \in Nat /\ SlotWaitMs \in Nat
    /\ KillMs \in Nat /\ TerminalTries \in Nat
BY BudgetAssumption DEF KillMs, Larger

\* A prepared machine has its allowance and no attempt.
LEMMA PreparedType ==
    ASSUME NEW w \in Nat, NEW w1 \in 0..w
    PROVE  /\ Prepared(w1) \in States(w, FlushMs)
           /\ Prepared(w1).phase = "Prepared" /\ Prepared(w1).wall = w1
           /\ \A r \in StopReasons : Prepared(w1).attempts[r] = None
BY Budgets DEF Prepared, States, Attempts, Phases, Off

\* The machine of an attempt that never spawned.
LEMMA NeverSpawnedType ==
    /\ NeverSpawned \in States(WallMs + SlotWaitMs, FlushMs)
    /\ NeverSpawned.phase = "Exited" /\ NeverSpawned.wall = 0
    /\ \A r \in StopReasons : NeverSpawned.attempts[r] = None
<1>1. WallMs + SlotWaitMs \in Nat /\ 0 \in 0..(WallMs + SlotWaitMs)
    BY Budgets
<1>2. /\ Prepared(0) \in States(WallMs + SlotWaitMs, FlushMs)
      /\ Prepared(0).wall = 0 /\ \A r \in StopReasons : Prepared(0).attempts[r] = None
    BY <1>1, PreparedType
<1> QED
    BY <1>2 DEF NeverSpawned, States, Phases

ReservationFiles == [mem : {"unresolved", "resolved"}, seen : Reserved, kept : Reserved]
ExitFiles == [seen : ExitFacts, kept : ExitFacts]

\* What a durable write leaves of a file, whatever its outcome.
LEMMA WrittenReservation ==
    ASSUME NEW r \in ReservationFiles, NEW value \in Reserved, NEW outcome \in WriteOutcomes
    PROVE  /\ Written(r, value, outcome) \in ReservationFiles
           /\ Written(r, value, outcome).mem = r.mem
           /\ Written(r, value, outcome).seen = IF outcome = "Failed" THEN r.seen ELSE value
           /\ Written(r, value, outcome).kept = IF outcome = "Durable" THEN value ELSE r.kept
BY DEF Written, ReservationFiles

\* The same for the exit record.
LEMMA WrittenExit ==
    ASSUME NEW r \in ExitFiles, NEW value \in ExitFacts, NEW outcome \in WriteOutcomes
    PROVE  /\ Written(r, value, outcome) \in ExitFiles
           /\ Written(r, value, outcome).seen = IF outcome = "Failed" THEN r.seen ELSE value
           /\ Written(r, value, outcome).kept = IF outcome = "Durable" THEN value ELSE r.kept
BY DEF Written, ExitFiles

Providers == [state : {"none", "live", "exited", "reaped"}, last : {None, "TERM", "KILL"}]

\* A cleanup never revives anybody.
LEMMA CleanedMeans ==
    ASSUME provider \in Providers, kids \in BOOLEAN, NEW complete \in BOOLEAN, Cleaned(complete)
    PROVE  /\ provider' \in Providers /\ kids' \in BOOLEAN
           /\ provider'.last = provider.last
           /\ provider'.state \in {provider.state, "reaped"}
           /\ kids' => kids
           /\ complete => ~kids'
<1>1. kids' \in BOOLEAN /\ (kids' => kids)
    <2>1. kids' \in {kids, FALSE}
        BY DEF Cleaned, Survivors
    <2>2. CASE kids' = kids
        BY <2>2
    <2>3. CASE kids' = FALSE
        BY <2>3
    <2> QED
        BY <2>1, <2>2, <2>3
<1>2. provider' = provider \/ provider' = [provider EXCEPT !.state = "reaped"]
    BY DEF Cleaned
<1>3. complete => ~kids'
    BY DEF Cleaned, CensusClear
<1>4. provider' \in Providers /\ provider'.last = provider.last
      /\ provider'.state \in {provider.state, "reaped"}
    BY <1>2 DEF Providers
<1> QED
    BY <1>1, <1>3, <1>4

\* A guardian starts without a stop, an exit or a deadline.
LEMMA FreshType ==
    /\ FreshLocals \in Locals /\ FreshLocals.stopReason = None
    /\ ~FreshLocals.exit /\ ~FreshLocals.cancelDelivered
    /\ NoTimer \in [kill : Off..KillMs, drain : Off..FlushMs] /\ NoTimer.kill = Off
BY Budgets DEF FreshLocals, Locals, NoTimer, Off

\* What a dead guardian's memory counts as.
LEMMA ForgottenIs ==
    ASSUME Forgotten
    PROVE  /\ m' \in States(WallMs + SlotWaitMs, FlushMs) /\ m'.phase = "Prepared"
           /\ m'.wall = WallMs /\ \A r \in StopReasons : m'.attempts[r] = None
           /\ g' \in Locals /\ g'.stopReason = None /\ ~g'.exit /\ ~g'.cancelDelivered
           /\ timer' \in [kill : Off..KillMs, drain : Off..FlushMs] /\ timer'.kill = Off
           /\ slotUsed' = 0
<1>1. WallMs \in 0..(WallMs + SlotWaitMs) /\ WallMs + SlotWaitMs \in Nat
    BY Budgets
<1> QED
    BY <1>1, PreparedType, FreshType DEF Forgotten

\* The spawned provider's machine runs.
LEMMA StartedIs ==
    ASSUME NEW w \in Nat, NEW s \in States(w, FlushMs), s.phase = "Prepared", s.wall # 0
    PROVE  Step(s, <<"Started">>, Quiet, FlushMs).state = [s EXCEPT !.phase = "Running"]
<1>1. Quiet.delivery = <<>>
    BY DEF Quiet
<1>2. OnPrepared(s, <<"Started">>) = Result([s EXCEPT !.phase = "Running"], {})
    BY DEF OnPrepared
<1>3. Decide(s, <<"Started">>, Quiet, FlushMs) = OnPrepared(s, <<"Started">>)
    BY DEF Decide, Unexited
<1> QED
    BY <1>1, <1>2, <1>3, UndeliveredStep DEF Result

\* The settle step leaves Cleaning and asks for the exit's publication, whether
\* or not cleanup completed.
LEMMA SettledIs ==
    ASSUME NEW s, NEW complete \in BOOLEAN, s.phase = "Cleaning"
    PROVE  LET result == Step(s, <<"Silence">>, SettleTick(complete), FlushMs) IN
           /\ result.state = [s EXCEPT !.phase = "Exited"]
           /\ result.effects = {<<"PublishExit">>}
<1> DEFINE tick == SettleTick(complete)
<1>1. tick.delivery = <<>> /\ tick.cleanup \in {"Complete", "Unresolved"}
    BY DEF SettleTick, Quiet
<1> HIDE DEF tick
<1>2. Decide(s, <<"Silence">>, tick, FlushMs)
        = Result([s EXCEPT !.phase = "Exited"], {<<"PublishExit">>})
    BY <1>1 DEF Decide, Unexited, OnCleaning
<1>3. /\ Step(s, <<"Silence">>, tick, FlushMs).state = [s EXCEPT !.phase = "Exited"]
      /\ Step(s, <<"Silence">>, tick, FlushMs).effects = {<<"PublishExit">>}
    BY <1>1, <1>2, UndeliveredStep DEF Result
<1> QED
    BY <1>3 DEF tick

\* The machine is Published exactly when the publication is durable.
LEMMA PublicationIs ==
    ASSUME NEW s, NEW publication \in {"Pending", "Visible", "Durable"}, s.phase = "Exited"
    PROVE  Step(s, <<"Silence">>, [Quiet EXCEPT !.publication = publication], FlushMs).state
            = IF publication = "Durable" THEN [s EXCEPT !.phase = "Published"] ELSE s
<1> DEFINE tick == [Quiet EXCEPT !.publication = publication]
<1>1. tick.delivery = <<>> /\ tick.publication = publication
    BY DEF Quiet
<1> HIDE DEF tick
<1>2. Decide(s, <<"Silence">>, tick, FlushMs) = OnExited(s, tick)
    BY DEF Decide, Unexited
<1>3. OnExited(s, tick).state
        = IF publication = "Durable" THEN [s EXCEPT !.phase = "Published"] ELSE s
    BY <1>1 DEF OnExited, Result
<1>4. Step(s, <<"Silence">>, tick, FlushMs).state = OnExited(s, tick).state
    BY <1>1, <1>2, UndeliveredStep
<1> QED
    BY <1>3, <1>4 DEF tick

\* The event of a turn retries a stop only for a reason.
LEMMA EventIs ==
    ASSUME TypeOK, NEW signal \in BOOLEAN, NEW polled \in BOOLEAN, NEW newlyTerminal, NEW over
    PROVE  LET event == EventOf(signal, ReadCancel(polled), newlyTerminal, over) IN
           event[1] = "RetryStop" => event[2] \in StopReasons
<1> DEFINE request == ReadCancel(polled)
           event == EventOf(signal, request, newlyTerminal, over)
<1>1. request = None \/ request \in StopReasons
    BY EnvironmentAssumption DEF TypeOK, ReadCancel
<1> HIDE DEF request
<1>2. request # None =>
        (RequestEvent(request)[1] = "RetryStop" => RequestEvent(request)[2] \in StopReasons)
    <2>1. request \in {"WallDeadline", "PostTerminalCleanup"} =>
            RequestEvent(request) \in {<<"Silence">>, <<"RetryStop", request>>}
        BY DEF RequestEvent
    <2>2. request \in {"ProtocolRejected", "SupervisorSignal", "TokenBudget"} =>
            RequestEvent(request) = <<request>>
        BY DEF RequestEvent
    <2>3. request = "ExplicitCancellation" => RequestEvent(request) = <<"Cancel">>
        BY DEF RequestEvent
    <2> QED
        BY <1>1, <2>1, <2>2, <2>3 DEF StopReasons
<1>3. \/ event = RequestEvent(request) /\ request # None
      \/ event \in {<<"SupervisorSignal">>, <<"ProtocolRejected">>, <<"TokenBudget">>,
                    <<"Terminal">>, <<"Silence">>}
    BY DEF EventOf
<1>4. event[1] = "RetryStop" => event[2] \in StopReasons
    <2> HIDE DEF event
    <2> QED
        BY <1>2, <1>3
<1> QED
    BY <1>4 DEF request

\* What one turn of the loop leaves behind.
TurnTaken ==
    /\ pc = "turn" /\ pc' \in {"deliver", "escalate"}
    /\ m' \in States(WallMs + SlotWaitMs, FlushMs) /\ m'.phase \in Active
    /\ m'.phase \in {"Running", "TerminalGrace"} => Unstopped(m')
    /\ slotUsed' \in 0..SlotWaitMs /\ m'.wall <= WallMs + slotUsed'
    /\ timer' \in [kill : Off..KillMs, drain : Off..FlushMs]
    /\ timer'.kill # Off => g'.stopReason # None
    /\ g' \in Locals /\ g'.cancelDelivered = g.cancelDelivered
    /\ g'.exit => provider.state \in {"exited", "reaped"} /\ m'.phase = "Cleaning"
    /\ g.stopReason # None => g'.stopReason = g.stopReason
    /\ OneStopReason'
    /\ pc' = "deliver" => m'.phase = "Stopping" /\ g'.due # None /\ g'.due = g'.stopReason
    /\ UNCHANGED <<procVars, diskVars>>

\* A turn observes the exit, extends the deadline, steps the machine and notes
\* the stop it asks for: the first one is the only one.
LEMMA TurnTakes ==
    ASSUME IInv, Turn
    PROVE  TurnTaken
<1> USE Budgets
<1>1. PICK observed \in {TRUE, "observe" \notin Failing},
           signal, polled, wallClock \in BOOLEAN, waited \in 0..1 :
        LET exit == g.exit \/ ObservedExit(observed)
            newlyTerminal == ~g.terminal /\ says.terminal
            terminal == g.terminal \/ newlyTerminal
            request == ReadCancel(polled)
            over == says.over /\ ~g.budgetStopSent /\ ~terminal /\ ~exit
            event == EventOf(signal, request, newlyTerminal, over)
            tick == [Quiet EXCEPT !.exit = exit, !.wallClock = wallClock]
            result == Step([m EXCEPT !.wall = @ + waited], event, tick, FlushMs)
            due == DueStop(result.effects, exit)
        IN
        /\ waited \in SlotWaits(exit)
        /\ slotUsed' = slotUsed + waited
        /\ m' = result.state
        /\ g' = [g EXCEPT
                    !.exit = exit, !.terminal = terminal, !.due = due,
                    !.budgetStopSent = @ \/ (event = <<"TokenBudget">> /\ request = None),
                    !.cleanupPending = @ \/ <<"BeginCleanup">> \in result.effects,
                    !.stopReason = IF @ = None THEN due ELSE @]
        /\ timer' = [kill |-> IF timer.kill = Off /\ due # None THEN KillMs
                                                                ELSE timer.kill,
                     drain |-> IF timer.drain = Off /\ exit THEN FlushMs
                                                            ELSE timer.drain]
        /\ pc' = IF due # None THEN "deliver" ELSE "escalate"
    BY Zenon DEF Turn
<1> DEFINE exit == g.exit \/ ObservedExit(observed)
           newlyTerminal == ~g.terminal /\ says.terminal
           terminal == g.terminal \/ newlyTerminal
           request == ReadCancel(polled)
           over == says.over /\ ~g.budgetStopSent /\ ~terminal /\ ~exit
           event == EventOf(signal, request, newlyTerminal, over)
           tick == [Quiet EXCEPT !.exit = exit, !.wallClock = wallClock]
           s == [m EXCEPT !.wall = @ + waited]
           result == Step(s, event, tick, FlushMs)
           due == DueStop(result.effects, exit)
           budget == g.budgetStopSent \/ (event = <<"TokenBudget">> /\ request = None)
           pending == g.cleanupPending \/ <<"BeginCleanup">> \in result.effects
<1>2. /\ waited \in SlotWaits(exit)
      /\ slotUsed' = slotUsed + waited
      /\ m' = result.state
      /\ timer' = [kill |-> IF timer.kill = Off /\ due # None THEN KillMs ELSE timer.kill,
                   drain |-> IF timer.drain = Off /\ exit THEN FlushMs ELSE timer.drain]
      /\ pc' = IF due # None THEN "deliver" ELSE "escalate"
    BY <1>1
<1>3. g' = [g EXCEPT !.exit = exit, !.terminal = terminal, !.due = due,
                     !.budgetStopSent = budget, !.cleanupPending = pending,
                     !.stopReason = IF @ = None THEN due ELSE @]
    BY <1>1
<1>4. /\ pc = "turn" /\ UNCHANGED <<procVars, diskVars>>
      /\ m \in States(WallMs + SlotWaitMs, FlushMs) /\ g \in Locals
      /\ timer \in [kill : Off..KillMs, drain : Off..FlushMs] /\ slotUsed \in 0..SlotWaitMs
      /\ provider.state \in {"none", "live", "exited", "reaped"}
    BY DEF IInv, TypeOK, Turn
<1>5. /\ OneStopReason /\ m.phase \in Active
      /\ m.phase \in {"Running", "TerminalGrace"} => Unstopped(m)
      /\ g.exit => m.phase = "Cleaning" /\ provider.state \in {"exited", "reaped"}
      /\ m.wall <= WallMs + slotUsed
      /\ timer.kill # Off => g.stopReason # None
    BY <1>4 DEF IInv, MachineInv, ProcessInv, Loop, Unstopped
<1>6. /\ exit \in BOOLEAN /\ terminal \in BOOLEAN /\ budget \in BOOLEAN /\ pending \in BOOLEAN
      /\ g.exit => exit
      /\ exit => provider.state \in {"exited", "reaped"}
    BY <1>4, <1>5 DEF Locals, ObservedExit
<1>7. event[1] = "RetryStop" => event[2] \in StopReasons
    <2>1. TypeOK
        BY DEF IInv
    <2> QED
        BY <2>1, EventIs
<1>8. Calm(tick) /\ tick.exit = exit /\ tick.delivery = <<>>
    BY DEF Calm, Quiet
<1> HIDE DEF exit, terminal, event, tick, budget, pending
<1>9. /\ slotUsed' \in 0..SlotWaitMs /\ waited \in Nat
      /\ s \in States(WallMs + SlotWaitMs, FlushMs)
      /\ s.phase = m.phase /\ s.attempts = m.attempts /\ s.wall = m.wall + waited
      /\ s.wall <= WallMs + slotUsed'
    <2>1. slotUsed + waited \in 0..SlotWaitMs /\ waited \in Nat
        BY <1>2, <1>4 DEF SlotWaits
    <2>2. m.wall \in 0..(WallMs + SlotWaitMs) /\ m.wall + waited \in 0..(WallMs + SlotWaitMs)
          /\ m.wall + waited <= WallMs + (slotUsed + waited)
        <3>1. m.wall \in 0..(WallMs + SlotWaitMs)
            BY <1>4 DEF States
        <3> QED
            BY <1>4, <1>5, <2>1, <3>1
    <2> QED
        BY <1>2, <1>4, <2>1, <2>2 DEF States
<1> HIDE DEF s
<1> DEFINE decided == Decide(s, event, tick, FlushMs)
<1>10. /\ decided.state \in States(WallMs + SlotWaitMs, FlushMs)
       /\ GoesOn(s, tick, decided) \/ \E r \in StopReasons : Stops(s, tick, decided, r)
    <2>1. /\ WallMs + SlotWaitMs \in Nat
          /\ s.phase \in {"Running", "TerminalGrace"} => Unstopped(s)
        BY <1>5, <1>9 DEF Unstopped
    <2> HIDE DEF decided
    <2> QED
        BY <1>5, <1>6, <1>7, <1>8, <1>9, <2>1, TurnDecides DEF decided
<1>11. m' = decided.state /\ result.effects = decided.effects
    BY <1>2, <1>8, UndeliveredStep
<1> HIDE DEF result, decided
<1>12. \/ /\ due = None
          /\ exit \/ \A r \in StopReasons : <<"DeliverStop", r>> \notin decided.effects
       \/ ~exit /\ due \in StopReasons /\ <<"DeliverStop", due>> \in decided.effects
    BY <1>6, <1>11, DueStopIs
<1> HIDE DEF due
<1>13. /\ g' \in Locals /\ g'.cancelDelivered = g.cancelDelivered /\ g'.exit = exit
       /\ g'.due = due /\ g'.stopReason = IF g.stopReason = None THEN due ELSE g.stopReason
    <2>1. due \in StopReasons \cup {None}
        BY <1>12
    <2> DEFINE reason == IF g.stopReason = None THEN due ELSE g.stopReason
    <2>2. reason \in StopReasons \cup {None}
        BY <1>4, <2>1 DEF Locals
    <2>3. g' = [g EXCEPT !.exit = exit, !.terminal = terminal, !.due = due,
                         !.budgetStopSent = budget, !.cleanupPending = pending,
                         !.stopReason = reason]
        BY <1>3
    <2> HIDE DEF reason
    <2>4. /\ g' \in Locals /\ g'.cancelDelivered = g.cancelDelivered /\ g'.exit = exit
          /\ g'.due = due /\ g'.stopReason = reason
        <3>1. g \in Locals
            BY <1>4
        <3>2. g'.due = due /\ g'.stopReason = reason
            BY <2>3, <3>1 DEF Locals
        <3>3. g'.exit = exit
            BY <2>3, <3>1 DEF Locals
        <3>4. g'.cancelDelivered = g.cancelDelivered
            BY <2>3, <3>1 DEF Locals
        <3> DEFINE k == [g EXCEPT !.exit = exit, !.terminal = terminal, !.due = due]
        <3>5. k \in Locals
            BY <1>6, <2>1, <3>1 DEF Locals
        <3>6. g' = [k EXCEPT !.budgetStopSent = budget, !.cleanupPending = pending,
                             !.stopReason = reason]
            BY <2>3, <3>1 DEF Locals
        <3> HIDE DEF k
        <3>7. g' \in Locals
            BY <1>6, <2>2, <3>5, <3>6 DEF Locals
        <3> QED
            BY <3>2, <3>3, <3>4, <3>7
    <2> QED
        BY <2>4 DEF reason
<1>14. timer' \in [kill : Off..KillMs, drain : Off..FlushMs]
       /\ timer'.kill = IF timer.kill = Off /\ due # None THEN KillMs ELSE timer.kill
    BY <1>2, <1>4 DEF Off
<1>15. g.stopReason = None \/ g.stopReason \in StopReasons
    BY <1>4 DEF Locals
<1>16. CASE GoesOn(s, tick, decided)
    <2>1. due = None /\ g'.stopReason = g.stopReason
        BY <1>12, <1>13, <1>16 DEF GoesOn, None, StopReasons
    <2>2. /\ m'.phase \in Active /\ m'.attempts = m.attempts /\ m'.wall = s.wall
          /\ m'.phase \in {"Running", "TerminalGrace"} => Unstopped(m)
          /\ exit => m'.phase = "Cleaning"
        BY <1>8, <1>9, <1>11, <1>16 DEF GoesOn, Unstopped
    <2>3. OneStopReason'
        BY <1>5, <2>1, <2>2 DEF OneStopReason
    <2>4. m'.phase \in {"Running", "TerminalGrace"} => Unstopped(m')
        BY <2>2 DEF Unstopped
    <2> QED
        BY <1>2, <1>4, <1>5, <1>6, <1>9, <1>10, <1>11, <1>13, <1>14, <2>1, <2>2, <2>3, <2>4
           DEF TurnTaken
<1>17. ASSUME NEW r \in StopReasons, Stops(s, tick, decided, r)
       PROVE  TurnTaken
    <2>1. /\ ~exit /\ m' = Stopped(s, r) /\ decided.effects = {<<"DeliverStop", r>>}
          /\ Unstopped(m) \/ m.attempts[r] # None
        BY <1>8, <1>9, <1>11, <1>17 DEF Stops, Unstopped
    <2>2. due = r
        BY <1>12, <2>1
    <2>3. /\ m'.phase = "Stopping" /\ m'.wall = s.wall /\ m'.attempts[r] = "Asked"
          /\ \A q \in StopReasons : q # r => m'.attempts[q] = m.attempts[q]
        <3>1. WallMs + SlotWaitMs \in Nat
            OBVIOUS
        <3> QED
            BY <1>9, <2>1, <3>1, StoppedType
    <2>4. r # None /\ g'.stopReason = r
        <3>1. r # None
            BY DEF StopReasons, None
        <3>2. CASE Unstopped(m)
            <4>1. g.stopReason = None
                BY <1>5, <1>15, <3>2 DEF OneStopReason, Unstopped
            <4> QED
                BY <1>13, <2>2, <3>1, <4>1
        <3>3. CASE m.attempts[r] # None
            BY <1>5, <1>13, <2>2, <3>1, <3>3 DEF OneStopReason
        <3> QED
            BY <2>1, <3>1, <3>2, <3>3
    <2>5. \A q \in StopReasons : q # r => m.attempts[q] = None
        <3>1. CASE Unstopped(m)
            BY <3>1 DEF Unstopped
        <3>2. CASE m.attempts[r] # None
            BY <1>5, <3>2 DEF OneStopReason
        <3> QED
            BY <2>1, <3>1, <3>2
    <2>6. OneStopReason'
        BY <2>3, <2>4, <2>5 DEF OneStopReason, None
    <2>7. g.stopReason # None => g'.stopReason = g.stopReason
        BY <1>13
    <2> QED
        BY <1>2, <1>4, <1>9, <1>10, <1>11, <1>13, <1>14, <2>1, <2>2, <2>3, <2>4, <2>6, <2>7
           DEF TurnTaken, Active
<1> QED
    BY <1>10, <1>16, <1>17

-----------------------------------------------------------------------------
(* One lemma per step of the guardian, its provider and its host *)

\* The launch satisfies the invariant.
LEMMA InitIInv ==
    ASSUME Init
    PROVE  IInv
<1>1. TypeOK
    <2>1. WallMs \in 0..(WallMs + SlotWaitMs) /\ WallMs + SlotWaitMs \in Nat
        BY Budgets
    <2>2. Prepared(WallMs) \in States(WallMs + SlotWaitMs, FlushMs)
        BY <2>1, PreparedType
    <2> QED
        <3>1. /\ m \in States(WallMs + SlotWaitMs, FlushMs) /\ g \in Locals
              /\ timer \in [kill : Off..KillMs, drain : Off..FlushMs] /\ pc \in PCs
              /\ slotUsed \in 0..SlotWaitMs /\ tries \in 0..TerminalTries
            BY <2>2, Budgets, FreshType DEF Init, PCs
        <3>2. /\ kids \in BOOLEAN /\ custody \in BOOLEAN /\ linked \subseteq Places
              /\ cancelFile \in Requests \cup {None}
            BY Zenon DEF Init
        <3>3. /\ provider \in [state : {"none", "live", "exited", "reaped"},
                               last : {None, "TERM", "KILL"}]
              /\ says \in [terminal : BOOLEAN, rejected : BOOLEAN, over : BOOLEAN]
            BY DEF Init, NothingSaid
        <3>4. /\ reservation \in [mem : {"unresolved", "resolved"}, seen : Reserved,
                                  kept : Reserved]
              /\ exitFile \in [seen : ExitFacts, kept : ExitFacts]
            BY DEF Init, Reserved, ExitFacts
        <3>5. record \in Records
            BY DEF Init, Records
        <3> QED
            BY <3>1, <3>2, <3>3, <3>4, <3>5 DEF TypeOK
<1>2. MachineInv
    <2>1. /\ Prepared(WallMs).wall = WallMs /\ Prepared(WallMs).phase = "Prepared"
          /\ \A r \in StopReasons : Prepared(WallMs).attempts[r] = None
        BY Budgets, PreparedType
    <2> QED
        BY <2>1, Budgets DEF Init, MachineInv, OneStopReason, FreshLocals, NoTimer, Loop
<1>3. ProcessInv /\ CancelInv
    BY DEF Init, ProcessInv, CancelInv, FreshLocals, Loop, AfterLoop, Lingering
<1>4. ExitInv /\ FenceInv
    BY DEF Init, ExitInv, FenceInv, SettledExitHasReservation, FenceUntilSettled, Running,
       None
<1> QED
    BY <1>1, <1>2, <1>3, <1>4 DEF IInv

LEMMA SpawnIInv ==
    ASSUME IInv, Spawn
    PROVE  IInv'
<1> USE Budgets DEF IInv, Spawn, procVars, diskVars
<1>s. /\ pc = "launch" /\ pc' = "turn"
      /\ m' \in States(WallMs + SlotWaitMs, FlushMs) /\ m'.phase = "Running"
      /\ m'.wall = m.wall /\ m'.attempts = m.attempts /\ m.phase = "Prepared"
      /\ provider' \in Providers /\ provider'.state = "live" /\ provider'.last = provider.last
      /\ kids' /\ kids' \in BOOLEAN
      /\ UNCHANGED <<g, timer, slotUsed, says, cancelFile, linked, diskVars>>
    <2>1. m.phase = "Prepared" /\ m.wall # 0 /\ WallMs + SlotWaitMs \in Nat
        BY PreparedType DEF MachineInv
    <2>2. m' = [m EXCEPT !.phase = "Running"]
        BY <2>1, StartedIs DEF TypeOK
    <2>3. /\ m' \in States(WallMs + SlotWaitMs, FlushMs) /\ m'.phase = "Running"
          /\ m'.wall = m.wall /\ m'.attempts = m.attempts
        BY <2>2 DEF TypeOK, States, Phases
    <2>4. provider' \in Providers /\ provider'.state = "live" /\ provider'.last = provider.last
        BY DEF TypeOK, Providers
    <2> QED
        BY <2>1, <2>3, <2>4
<1> HIDE DEF Spawn
<1>1. TypeOK'
    BY <1>s DEF TypeOK, PCs, Loop, Providers
<1>2. MachineInv'
    BY <1>s, <1>1 DEF TypeOK, MachineInv, OneStopReason, Loop, Active, Locals, None,
       ProcessInv
<1>3. ProcessInv'
    BY <1>s, <1>1 DEF TypeOK, ProcessInv, Loop, Lingering, AfterLoop
<1>4. CancelInv'
    BY <1>s, <1>1 DEF TypeOK, CancelInv, None
<1>5. ExitInv'
    BY <1>s, <1>1 DEF TypeOK, ExitInv, BeforeExit, Loop, SettledExitHasReservation,
       ProcessInv, None
<1>6. FenceInv'
    BY <1>s, <1>1 DEF TypeOK, FenceInv, FenceUntilSettled, Running
<1> QED
    BY <1>1, <1>2, <1>3, <1>4, <1>5, <1>6

LEMMA SpawnRefusedIInv ==
    ASSUME IInv, SpawnRefused
    PROVE  IInv'
<1> USE Budgets DEF IInv, SpawnRefused, procVars, diskVars
<1>s. /\ pc = "launch" /\ pc' \in {"publish", "failed"}
      /\ m' \in States(WallMs + SlotWaitMs, FlushMs) /\ m'.phase = "Exited" /\ m'.wall = 0
      /\ \A r \in StopReasons : m'.attempts[r] = None
      /\ g' \in Locals /\ g'.stopReason = g.stopReason /\ g'.exit = g.exit /\ g'.due = g.due
      /\ g'.cancelDelivered = g.cancelDelivered /\ g'.complete
      /\ record' \in Records /\ record'.neverSpawned /\ ~record'.unresolved
      /\ record'.cancelDelivered = record.cancelDelivered
      /\ record'.stopReason = record.stopReason
      /\ reservation' \in ReservationFiles
      /\ reservation'.seen \in {reservation.seen, "resolved"}
      /\ reservation'.kept \in {reservation.kept, "resolved"}
      /\ pc' = "publish" => reservation'.kept = "resolved"
      /\ UNCHANGED <<timer, slotUsed, procVars, exitFile, custody, tries>>
    <2>1. PICK outcome \in WriteOutcomes :
            /\ reservation' = Written([reservation EXCEPT !.mem = "resolved"],
                                      "resolved", outcome)
            /\ pc' = IF outcome = "Durable" THEN "publish" ELSE "failed"
        OBVIOUS
    <2>2. /\ [reservation EXCEPT !.mem = "resolved"] \in ReservationFiles
          /\ [reservation EXCEPT !.mem = "resolved"].seen = reservation.seen
          /\ [reservation EXCEPT !.mem = "resolved"].kept = reservation.kept
        BY DEF TypeOK, ReservationFiles
    <2>3. /\ g' \in Locals /\ g'.stopReason = g.stopReason /\ g'.exit = g.exit /\ g'.due = g.due
          /\ g'.cancelDelivered = g.cancelDelivered /\ g'.complete
        BY DEF TypeOK, Locals
    <2>4. /\ record' \in Records /\ record'.neverSpawned /\ ~record'.unresolved
          /\ record'.cancelDelivered = record.cancelDelivered
          /\ record'.stopReason = record.stopReason
        BY DEF TypeOK, Records
    <2>5. /\ reservation' \in ReservationFiles
          /\ reservation'.seen \in {reservation.seen, "resolved"}
          /\ reservation'.kept \in {reservation.kept, "resolved"}
          /\ pc' = "publish" => reservation'.kept = "resolved"
        <3> DEFINE r == [reservation EXCEPT !.mem = "resolved"]
        <3>1. r \in ReservationFiles /\ r.seen = reservation.seen /\ r.kept = reservation.kept
              /\ reservation' = Written(r, "resolved", outcome)
            BY <2>1, <2>2
        <3> HIDE DEF SpawnRefused, r
        <3>2. "resolved" \in Reserved
            BY DEF Reserved
        <3> QED
            BY <2>1, <3>1, <3>2, WrittenReservation
    <2> QED
        BY <2>1, <2>3, <2>4, <2>5, NeverSpawnedType
<1> HIDE DEF SpawnRefused
<1>1. TypeOK'
    BY <1>s DEF TypeOK, PCs, Loop, ReservationFiles
<1>2. MachineInv'
    BY <1>s, PreparedType, <1>1 DEF TypeOK, MachineInv, OneStopReason, Loop, Active,
       Locals, None
<1>3. ProcessInv'
    BY <1>s, <1>1 DEF TypeOK, ProcessInv, Loop, Lingering, AfterLoop
<1>4. CancelInv'
    BY <1>s, <1>1 DEF TypeOK, CancelInv, None
<1>5. ExitInv'
    BY <1>s, <1>1 DEF TypeOK, ExitInv, BeforeExit, Loop, SettledExitHasReservation,
       ProcessInv, None
<1>6. FenceInv'
    BY <1>s, <1>1 DEF TypeOK, FenceInv, FenceUntilSettled, Running
<1> QED
    BY <1>1, <1>2, <1>3, <1>4, <1>5, <1>6

LEMMA TurnIInv ==
    ASSUME IInv, Turn
    PROVE  IInv'
<1> USE Budgets DEF IInv, Turn, procVars, diskVars
<1>s. TurnTaken
    BY TurnTakes
<1> HIDE DEF Turn
<1>1. TypeOK'
    BY <1>s DEF TypeOK, PCs, Loop, TurnTaken
<1>2. MachineInv'
    BY <1>s, <1>1 DEF TypeOK, MachineInv, OneStopReason, Loop, Active, Locals, None,
       TurnTaken, Unstopped
<1>3. ProcessInv'
    BY <1>s, <1>1 DEF TypeOK, ProcessInv, Loop, Lingering, AfterLoop, TurnTaken,
       Unstopped
<1>4. CancelInv'
    BY <1>s, <1>1 DEF TypeOK, CancelInv, None, TurnTaken, Unstopped
<1>5. ExitInv'
    BY <1>s, <1>1 DEF TypeOK, ExitInv, BeforeExit, Loop, SettledExitHasReservation,
       ProcessInv, None, TurnTaken, Unstopped
<1>6. FenceInv'
    BY <1>s, <1>1 DEF TypeOK, FenceInv, FenceUntilSettled, Running, TurnTaken,
       Unstopped
<1> QED
    BY <1>1, <1>2, <1>3, <1>4, <1>5, <1>6

LEMMA DeliverIInv ==
    ASSUME IInv, Deliver
    PROVE  IInv'
<1> USE Budgets DEF IInv, Deliver, procVars, diskVars
<1>s. /\ pc = "deliver" /\ pc' = "escalate"
      /\ m' \in States(WallMs + SlotWaitMs, FlushMs) /\ m'.phase = m.phase /\ m'.wall = m.wall
      /\ \A r \in StopReasons : m'.attempts[r] = None <=> m.attempts[r] = None
      /\ g' \in Locals /\ g'.stopReason = g.stopReason /\ g'.exit = g.exit
      /\ g'.complete = g.complete
      /\ g'.cancelDelivered =>
            \/ g.cancelDelivered
            \/ g.stopReason = "ExplicitCancellation" /\ provider'.last = "TERM"
      /\ provider' \in Providers /\ provider'.state = provider.state
      /\ provider'.last \in {provider.last, "TERM"}
      /\ UNCHANGED <<timer, slotUsed, kids, says, cancelFile, linked, diskVars>>
    <2>1. PICK outcome \in {"Delivered", "Failed"} :
            /\ provider' = Signalled("TERM", outcome)
            /\ m' = Receipt(g.due, outcome).state
            /\ g' = [g EXCEPT !.due = None,
                              !.cancelDelivered = @ \/ /\ g.due = "ExplicitCancellation"
                                                       /\ outcome = "Delivered"]
        BY DEF StopOutcomes
    <2>2. g.due \in StopReasons /\ g.due = g.stopReason /\ m.phase = "Stopping"
        BY DEF TypeOK, Locals, MachineInv
    <2>3. /\ m' \in States(WallMs + SlotWaitMs, FlushMs)
          /\ m'.phase = m.phase /\ m'.wall = m.wall
          /\ \A r \in StopReasons : m'.attempts[r] = None <=> m.attempts[r] = None
        BY <2>1, <2>2, ReceiptIs DEF TypeOK
    <2>4. /\ provider' \in Providers /\ provider'.state = provider.state
          /\ provider'.last = IF outcome = "Delivered" THEN "TERM" ELSE provider.last
        BY <2>1 DEF TypeOK, Signalled, Providers
    <2>5. g \in Locals
        BY DEF TypeOK
    <2> HIDE DEF Deliver, IInv
    <2>6. /\ g' \in Locals /\ g'.stopReason = g.stopReason /\ g'.exit = g.exit
          /\ g'.complete = g.complete
          /\ g'.cancelDelivered =>
                g.cancelDelivered \/ (g.due = "ExplicitCancellation" /\ outcome = "Delivered")
        BY <2>1, <2>5 DEF Locals
    <2> QED
        BY <2>2, <2>3, <2>4, <2>6 DEF Deliver
<1> HIDE DEF Deliver
<1>1. TypeOK'
    BY <1>s DEF TypeOK, PCs, Loop, Providers
<1>2. MachineInv'
    BY <1>s, <1>1 DEF TypeOK, MachineInv, OneStopReason, Loop, Active, Locals, None
<1>3. ProcessInv'
    BY <1>s, <1>1 DEF TypeOK, ProcessInv, Loop, Lingering, AfterLoop
<1>4. CancelInv'
    BY <1>s, <1>1 DEF TypeOK, CancelInv, None
<1>5. ExitInv'
    BY <1>s, <1>1 DEF TypeOK, ExitInv, BeforeExit, Loop, SettledExitHasReservation,
       ProcessInv, None
<1>6. FenceInv'
    BY <1>s, <1>1 DEF TypeOK, FenceInv, FenceUntilSettled, Running
<1> QED
    BY <1>1, <1>2, <1>3, <1>4, <1>5, <1>6

LEMMA KillIInv ==
    ASSUME IInv, Kill
    PROVE  IInv'
<1> USE Budgets DEF IInv, Kill, procVars, diskVars
<1>s. /\ pc = "escalate" /\ pc' = "escalate"
      /\ m' \in States(WallMs + SlotWaitMs, FlushMs) /\ m'.phase = m.phase /\ m'.wall = m.wall
      /\ \A r \in StopReasons : m'.attempts[r] = None <=> m.attempts[r] = None
      /\ g' \in Locals /\ g'.stopReason = g.stopReason /\ g'.exit = g.exit /\ g'.due = g.due
      /\ g'.complete = g.complete
      /\ g'.cancelDelivered =>
            \/ g.cancelDelivered
            \/ g.stopReason = "ExplicitCancellation" /\ provider'.last = "KILL"
      /\ provider' \in Providers /\ provider'.state = provider.state
      /\ provider'.last \in {provider.last, "KILL"}
      /\ UNCHANGED <<timer, slotUsed, kids, says, cancelFile, linked, diskVars>>
    <2>1. PICK outcome \in {"Delivered", "Failed"} :
            /\ provider' = Signalled("KILL", outcome)
            /\ m' = Receipt(g.stopReason, outcome).state
            /\ g' = [g EXCEPT !.killed = TRUE,
                              !.cancelDelivered = @ \/ /\ ~g.exit
                                                       /\ g.stopReason = "ExplicitCancellation"
                                                       /\ outcome = "Delivered"]
        BY DEF StopOutcomes
    <2>2. g.stopReason \in StopReasons /\ m.phase \in {"Stopping", "Cleaning"}
        <3>1. g.stopReason # None /\ m.attempts[g.stopReason] # None
            BY DEF KillDue, Off, MachineInv, OneStopReason
        <3>2. g.stopReason \in StopReasons
            BY <3>1 DEF TypeOK, Locals
        <3> QED
            BY <3>1, <3>2 DEF MachineInv, Active, Loop
    <2>3. /\ m' \in States(WallMs + SlotWaitMs, FlushMs)
          /\ m'.phase = m.phase /\ m'.wall = m.wall
          /\ \A r \in StopReasons : m'.attempts[r] = None <=> m.attempts[r] = None
        BY <2>1, <2>2, ReceiptIs DEF TypeOK
    <2>4. /\ provider' \in Providers /\ provider'.state = provider.state
          /\ provider'.last = IF outcome = "Delivered" THEN "KILL" ELSE provider.last
        BY <2>1 DEF TypeOK, Signalled, Providers
    <2>5. g \in Locals
        BY DEF TypeOK
    <2> HIDE DEF Kill, IInv
    <2>6. /\ g' \in Locals /\ g'.stopReason = g.stopReason /\ g'.exit = g.exit /\ g'.due = g.due
          /\ g'.complete = g.complete
          /\ g'.cancelDelivered =>
                \/ g.cancelDelivered
                \/ g.stopReason = "ExplicitCancellation" /\ outcome = "Delivered"
        BY <2>1, <2>5 DEF Locals
    <2> QED
        BY <2>2, <2>3, <2>4, <2>6 DEF Kill
<1> HIDE DEF Kill
<1>1. TypeOK'
    BY <1>s DEF TypeOK, PCs, Loop, Providers
<1>2. MachineInv'
    BY <1>s, <1>1 DEF TypeOK, MachineInv, OneStopReason, Loop, Active, Locals, None
<1>3. ProcessInv'
    BY <1>s, <1>1 DEF TypeOK, ProcessInv, Loop, Lingering, AfterLoop
<1>4. CancelInv'
    BY <1>s, <1>1 DEF TypeOK, CancelInv, None
<1>5. ExitInv'
    BY <1>s, <1>1 DEF TypeOK, ExitInv, BeforeExit, Loop, SettledExitHasReservation,
       ProcessInv, None
<1>6. FenceInv'
    BY <1>s, <1>1 DEF TypeOK, FenceInv, FenceUntilSettled, Running
<1> QED
    BY <1>1, <1>2, <1>3, <1>4, <1>5, <1>6

LEMMA EndTurnIInv ==
    ASSUME IInv, EndTurn
    PROVE  IInv'
<1> USE Budgets DEF IInv, EndTurn, procVars, diskVars
<1>s. /\ pc = "escalate" /\ pc' \in {"cleanup", "turn"}
      /\ pc' = "cleanup" => g.exit
      /\ UNCHANGED <<m, g, timer, slotUsed, procVars, diskVars>>
    OBVIOUS
<1> HIDE DEF EndTurn
<1>1. TypeOK'
    BY <1>s DEF TypeOK, PCs, Loop
<1>2. MachineInv'
    BY <1>s, <1>1 DEF TypeOK, MachineInv, OneStopReason, Loop, Active, Locals, None
<1>3. ProcessInv'
    BY <1>s, <1>1 DEF TypeOK, ProcessInv, Loop, Lingering, AfterLoop
<1>4. CancelInv'
    BY <1>s, <1>1 DEF TypeOK, CancelInv, None
<1>5. ExitInv'
    BY <1>s, <1>1 DEF TypeOK, ExitInv, BeforeExit, Loop, SettledExitHasReservation,
       ProcessInv, None
<1>6. FenceInv'
    BY <1>s, <1>1 DEF TypeOK, FenceInv, FenceUntilSettled, Running
<1> QED
    BY <1>1, <1>2, <1>3, <1>4, <1>5, <1>6

LEMMA CleanupIInv ==
    ASSUME IInv, Cleanup
    PROVE  IInv'
<1> USE Budgets DEF IInv, Cleanup, procVars, diskVars
<1>s. /\ pc = "cleanup" /\ pc' = "reserve"
      /\ m' \in States(WallMs + SlotWaitMs, FlushMs) /\ m'.phase = "Exited" /\ m'.wall = 0
      /\ m'.attempts = m.attempts
      /\ g' \in Locals /\ g'.stopReason = g.stopReason /\ g'.exit = g.exit
      /\ g'.cancelDelivered = g.cancelDelivered
      /\ timer' \in [kill : Off..KillMs, drain : Off..FlushMs] /\ timer'.kill = Off
      /\ slotUsed' = 0 /\ says' = NothingSaid
      /\ provider' \in Providers /\ kids' \in BOOLEAN /\ provider'.last = provider.last
      /\ provider'.state \in {provider.state, "reaped"}
      /\ (kids' => kids) /\ (g'.complete => ~kids')
      /\ reservation' \in ReservationFiles
      /\ reservation'.seen = reservation.seen /\ reservation'.kept = reservation.kept
      /\ reservation'.mem = "resolved" <=> ~record'.unresolved
      /\ record' \in Records /\ record'.neverSpawned = record.neverSpawned
      /\ record'.stopReason = g.stopReason /\ record'.cancelDelivered = g.cancelDelivered
      /\ g'.complete <=> ~record'.unresolved
      /\ UNCHANGED <<cancelFile, linked, exitFile, custody, tries>>
    <2>1. PICK complete \in BOOLEAN :
            LET result == Step(m, <<"Silence">>, SettleTick(complete), FlushMs)
                terminal == g.terminal \/ says.terminal
            IN
            /\ Cleaned(complete)
            /\ m' = [result.state EXCEPT !.wall = 0, !.flush = Off]
            /\ g' = [g EXCEPT !.complete = complete, !.terminal = terminal]
            /\ reservation' = [reservation EXCEPT
                                  !.mem = IF complete THEN "resolved" ELSE "unresolved"]
            /\ record' = [record EXCEPT !.stopReason = g.stopReason,
                                        !.cancelDelivered = g.cancelDelivered,
                                        !.terminal = terminal,
                                        !.unresolved = ~complete]
            /\ pc' = IF <<"PublishExit">> \in result.effects THEN "reserve" ELSE "failed"
        OBVIOUS
    <2>2. /\ provider \in Providers /\ kids \in BOOLEAN /\ reservation \in ReservationFiles
          /\ g \in Locals /\ record \in Records /\ says.terminal \in BOOLEAN
          /\ m \in States(WallMs + SlotWaitMs, FlushMs) /\ m.phase = "Cleaning"
        BY DEF TypeOK, MachineInv, Providers, ReservationFiles
    <2>t. PICK terminal \in BOOLEAN : terminal = (g.terminal \/ says.terminal)
        BY <2>2 DEF Locals
    <2>r. /\ Step(m, <<"Silence">>, SettleTick(complete), FlushMs).state
                = [m EXCEPT !.phase = "Exited"]
          /\ Step(m, <<"Silence">>, SettleTick(complete), FlushMs).effects = {<<"PublishExit">>}
        BY <2>2, SettledIs
    <2> DEFINE exited == [m EXCEPT !.phase = "Exited"]
    <2>3. m' = [exited EXCEPT !.wall = 0, !.flush = Off] /\ pc' = "reserve"
        BY <2>1, <2>r
    <2>4. /\ g' = [g EXCEPT !.complete = complete, !.terminal = terminal]
          /\ reservation' = [reservation EXCEPT
                                !.mem = IF complete THEN "resolved" ELSE "unresolved"]
          /\ record' = [record EXCEPT !.stopReason = g.stopReason,
                                      !.cancelDelivered = g.cancelDelivered,
                                      !.terminal = terminal,
                                      !.unresolved = ~complete]
        BY <2>1, <2>t
    <2>5. /\ pc = "cleanup" /\ timer' = NoTimer /\ slotUsed' = 0 /\ says' = NothingSaid
          /\ UNCHANGED <<cancelFile, linked, exitFile, custody, tries>>
        OBVIOUS
    <2>6. /\ provider' \in Providers /\ kids' \in BOOLEAN /\ provider'.last = provider.last
          /\ provider'.state \in {provider.state, "reaped"}
          /\ (kids' => kids) /\ (complete => ~kids')
        BY <2>1, <2>2, CleanedMeans
    <2> HIDE DEF Cleanup, IInv
    <2>7. /\ m' \in States(WallMs + SlotWaitMs, FlushMs) /\ m'.phase = "Exited" /\ m'.wall = 0
          /\ m'.attempts = m.attempts
        <3>1. /\ exited \in States(WallMs + SlotWaitMs, FlushMs) /\ exited.phase = "Exited"
              /\ exited.attempts = m.attempts
            BY <2>2 DEF States, Phases
        <3>2. 0 \in 0..(WallMs + SlotWaitMs) /\ Off \in Off..FlushMs
            BY DEF Off
        <3> HIDE DEF exited
        <3> QED
            BY <2>3, <3>1, <3>2 DEF States
    <2>8. /\ g' \in Locals /\ g'.stopReason = g.stopReason /\ g'.exit = g.exit
          /\ g'.cancelDelivered = g.cancelDelivered
          /\ g'.complete <=> complete
        BY <2>2, <2>4 DEF Locals
    <2>9. /\ reservation' \in ReservationFiles
          /\ reservation'.seen = reservation.seen /\ reservation'.kept = reservation.kept
          /\ reservation'.mem = "resolved" <=> complete
        BY <2>2, <2>4 DEF ReservationFiles
    <2>10. /\ record' \in Records /\ record'.neverSpawned = record.neverSpawned
           /\ record'.stopReason = g.stopReason /\ record'.cancelDelivered = g.cancelDelivered
           /\ record'.unresolved <=> ~complete
        BY <2>2, <2>4 DEF Locals, Records
    <2> QED
        BY <2>3, <2>5, <2>6, <2>7, <2>8, <2>9, <2>10, FreshType
<1> HIDE DEF Cleanup
<1>1. TypeOK'
    BY <1>s DEF TypeOK, PCs, Loop, Providers, ReservationFiles, NothingSaid
<1>2. MachineInv'
    BY <1>s, <1>1 DEF TypeOK, MachineInv, OneStopReason, Loop, Active, Locals, None
<1>3. ProcessInv'
    BY <1>s, <1>1 DEF TypeOK, ProcessInv, Loop, Lingering, AfterLoop
<1>4. CancelInv'
    BY <1>s, <1>1 DEF TypeOK, CancelInv, None
<1>5. ExitInv'
    BY <1>s, <1>1 DEF TypeOK, ExitInv, BeforeExit, Loop, SettledExitHasReservation,
       ProcessInv, None
<1>6. FenceInv'
    BY <1>s, <1>1 DEF TypeOK, FenceInv, FenceUntilSettled, Running
<1> QED
    BY <1>1, <1>2, <1>3, <1>4, <1>5, <1>6

LEMMA ReserveIInv ==
    ASSUME IInv, Reserve
    PROVE  IInv'
<1> USE Budgets DEF IInv, Reserve, procVars, diskVars
<1>s. /\ pc = "reserve" /\ pc' \in {"reserve", "publish"}
      /\ reservation' \in ReservationFiles /\ reservation'.mem = reservation.mem
      /\ reservation'.seen \in {reservation.seen, reservation.mem}
      /\ reservation'.kept \in {reservation.kept, reservation.mem}
      /\ pc' = "publish" => reservation'.kept = reservation.mem
      /\ reservation.mem \in {"resolved", "unresolved"}
      /\ UNCHANGED <<m, g, timer, slotUsed, procVars, exitFile, record, custody, tries>>
    <2>1. PICK outcome \in WriteOutcomes :
            /\ reservation' = Written(reservation, reservation.mem, outcome)
            /\ pc' = IF outcome = "Durable" THEN "publish" ELSE "reserve"
        OBVIOUS
    <2>2. /\ reservation \in ReservationFiles /\ reservation.mem \in Reserved
          /\ reservation.mem \in {"resolved", "unresolved"}
        BY DEF TypeOK, ReservationFiles, Reserved
    <2> QED
        BY <2>1, <2>2, WrittenReservation
<1> HIDE DEF Reserve
<1>1. TypeOK'
    BY <1>s DEF TypeOK, PCs, Loop, ReservationFiles
<1>2. MachineInv'
    BY <1>s, <1>1 DEF TypeOK, MachineInv, OneStopReason, Loop, Active, Locals, None
<1>3. ProcessInv'
    BY <1>s, <1>1 DEF TypeOK, ProcessInv, Loop, Lingering, AfterLoop
<1>4. CancelInv'
    BY <1>s, <1>1 DEF TypeOK, CancelInv, None
<1>5. ExitInv'
    BY <1>s, <1>1 DEF TypeOK, ExitInv, BeforeExit, Loop, SettledExitHasReservation,
       ProcessInv, None
<1>6. FenceInv'
    BY <1>s, <1>1 DEF TypeOK, FenceInv, FenceUntilSettled, Running
<1> QED
    BY <1>1, <1>2, <1>3, <1>4, <1>5, <1>6

LEMMA AbandonReserveIInv ==
    ASSUME IInv, AbandonReserve
    PROVE  IInv'
<1> USE Budgets DEF IInv, AbandonReserve, procVars, diskVars
<1>s. /\ pc = "reserve" /\ pc' \in {"reserve", "failed"}
      /\ provider' \in Providers /\ kids' \in BOOLEAN /\ provider'.last = provider.last
      /\ provider'.state \in {provider.state, "reaped"}
      /\ (kids' => kids)
      /\ g' \in Locals /\ g'.stopReason = g.stopReason /\ g'.exit = g.exit
      /\ g'.cancelDelivered = g.cancelDelivered
      /\ pc' = "reserve" => (g'.complete <=> g.complete)
      /\ UNCHANGED <<m, timer, slotUsed, says, cancelFile, linked, diskVars>>
    <2>1. PICK complete \in BOOLEAN, retired \in BOOLEAN :
            /\ g.complete => complete
            /\ IF g.complete THEN UNCHANGED <<provider, kids>> ELSE Cleaned(complete)
            /\ g' = [g EXCEPT !.complete = complete]
            /\ pc' = IF complete \/ retired THEN "failed" ELSE "reserve"
        OBVIOUS
    <2>2. provider \in Providers /\ kids \in BOOLEAN /\ g \in Locals
        BY DEF TypeOK, Providers
    <2>3. /\ provider' \in Providers /\ kids' \in BOOLEAN /\ provider'.last = provider.last
          /\ provider'.state \in {provider.state, "reaped"}
          /\ (kids' => kids)
        <3>1. CASE g.complete
            BY <2>1, <2>2, <3>1
        <3>2. CASE ~g.complete
            BY <2>1, <2>2, <3>2, CleanedMeans
        <3> QED
            BY <3>1, <3>2
    <2>4. /\ pc = "reserve"
          /\ UNCHANGED <<m, timer, slotUsed, says, cancelFile, linked, diskVars>>
        OBVIOUS
    <2> HIDE DEF AbandonReserve, IInv
    <2>5. /\ g' \in Locals /\ g'.stopReason = g.stopReason /\ g'.exit = g.exit
          /\ g'.cancelDelivered = g.cancelDelivered /\ (g'.complete <=> complete)
        BY <2>1, <2>2 DEF Locals
    <2> QED
        BY <2>1, <2>3, <2>4, <2>5
<1> HIDE DEF AbandonReserve
<1>1. TypeOK'
    BY <1>s DEF TypeOK, PCs, Loop, Providers
<1>2. MachineInv'
    BY <1>s, <1>1 DEF TypeOK, MachineInv, OneStopReason, Loop, Active, Locals, None
<1>3. ProcessInv'
    BY <1>s, <1>1 DEF TypeOK, ProcessInv, Loop, Lingering, AfterLoop
<1>4. CancelInv'
    BY <1>s, <1>1 DEF TypeOK, CancelInv, None
<1>5. ExitInv'
    BY <1>s, <1>1 DEF TypeOK, ExitInv, BeforeExit, Loop, SettledExitHasReservation,
       ProcessInv, None
<1>6. FenceInv'
    BY <1>s, <1>1 DEF TypeOK, FenceInv, FenceUntilSettled, Running
<1> QED
    BY <1>1, <1>2, <1>3, <1>4, <1>5, <1>6

LEMMA PublishIInv ==
    ASSUME IInv, Publish
    PROVE  IInv'
<1> USE Budgets DEF IInv, Publish, procVars, diskVars
<1>s. /\ pc = "publish" /\ pc' \in {"publish", "release", "linger"}
      /\ m' \in States(WallMs + SlotWaitMs, FlushMs) /\ m'.wall = m.wall
      /\ m'.attempts = m.attempts /\ m'.phase \in {"Exited", "Published"}
      /\ pc' = "publish" => m'.phase = "Exited"
      /\ g' \in Locals /\ g'.stopReason = g.stopReason /\ g'.exit = g.exit
      /\ g'.cancelDelivered = g.cancelDelivered /\ (g'.complete <=> g.complete)
      /\ exitFile' \in ExitFiles /\ exitFile'.seen \in {exitFile.seen, ExitFact}
      /\ pc' = "publish" => exitFile'.kept = exitFile.kept
      /\ pc' # "publish" => exitFile'.kept = ExitFact /\ exitFile'.seen = ExitFact
      /\ pc' = "release" => g.complete
      /\ pc' = "linger" => ~g.complete
      /\ UNCHANGED <<timer, slotUsed, procVars, reservation, record, custody, tries>>
    <2>1. PICK outcome \in WriteOutcomes :
            LET tick == [Quiet EXCEPT !.publication =
                            IF outcome = "Failed" THEN "Pending" ELSE outcome]
                result == Step(m, <<"Silence">>, tick, FlushMs)
                durable == result.state.phase = "Published"
            IN
            /\ exitFile' = Written(exitFile, ExitFact, outcome)
            /\ m' = result.state
            /\ g' = [g EXCEPT !.published = durable,
                              !.visible = \/ @
                                          \/ <<"RetryPublishedDirectorySync">>
                                                \in result.effects]
            /\ pc' = IF ~durable THEN "publish"
                     ELSE IF g.complete THEN "release" ELSE "linger"
        OBVIOUS
    <2>2. /\ m \in States(WallMs + SlotWaitMs, FlushMs) /\ m.phase = "Exited"
          /\ g \in Locals /\ exitFile \in ExitFiles /\ ExitFact \in ExitFacts
        BY DEF TypeOK, MachineInv, ExitFiles, ExitFact, ExitFacts
    <2> DEFINE publication == IF outcome = "Failed" THEN "Pending" ELSE outcome
    <2>3. /\ publication \in {"Pending", "Visible", "Durable"}
          /\ publication = "Durable" <=> outcome = "Durable"
        BY DEF WriteOutcomes
    <2>4. m' = IF outcome = "Durable" THEN [m EXCEPT !.phase = "Published"] ELSE m
        <3>1. m' = Step(m, <<"Silence">>, [Quiet EXCEPT !.publication = publication],
                        FlushMs).state
            BY <2>1
        <3> HIDE DEF publication, Publish, IInv
        <3> QED
            BY <2>2, <2>3, <3>1, PublicationIs
    <2>5. PICK published \in BOOLEAN, visible \in BOOLEAN :
            /\ published <=> m'.phase = "Published"
            /\ g' = [g EXCEPT !.published = published, !.visible = visible]
            /\ pc' = IF ~published THEN "publish"
                     ELSE IF g.complete THEN "release" ELSE "linger"
        <3>1. g.visible \in BOOLEAN
            BY <2>2 DEF Locals
        <3> QED
            BY <2>1, <3>1
    <2>6. /\ pc = "publish"
          /\ UNCHANGED <<timer, slotUsed, procVars, reservation, record, custody, tries>>
        OBVIOUS
    <2>7. exitFile' = Written(exitFile, ExitFact, outcome)
        BY <2>1
    <2> HIDE DEF Publish, IInv
    <2>8. /\ m' \in States(WallMs + SlotWaitMs, FlushMs) /\ m'.wall = m.wall
          /\ m'.attempts = m.attempts
          /\ m'.phase = IF outcome = "Durable" THEN "Published" ELSE "Exited"
        BY <2>2, <2>4 DEF States, Phases
    <2>9. /\ g' \in Locals /\ g'.stopReason = g.stopReason /\ g'.exit = g.exit
          /\ g'.cancelDelivered = g.cancelDelivered /\ (g'.complete <=> g.complete)
        BY <2>2, <2>5 DEF Locals
    <2>10. /\ exitFile' \in ExitFiles
           /\ exitFile'.seen = IF outcome = "Failed" THEN exitFile.seen ELSE ExitFact
           /\ exitFile'.kept = IF outcome = "Durable" THEN ExitFact ELSE exitFile.kept
        BY <2>2, <2>7, WrittenExit
    <2> QED
        BY <2>5, <2>6, <2>8, <2>9, <2>10
<1> HIDE DEF Publish
<1>1. TypeOK'
    BY <1>s DEF TypeOK, PCs, Loop, ExitFiles
<1>2. MachineInv'
    BY <1>s, <1>1 DEF TypeOK, MachineInv, OneStopReason, Loop, Active, Locals, None
<1>3. ProcessInv'
    BY <1>s, <1>1 DEF TypeOK, ProcessInv, Loop, Lingering, AfterLoop, ExitInv
<1>4. CancelInv'
    BY <1>s, <1>1 DEF TypeOK, CancelInv, None
<1>5. ExitInv'
    BY <1>s, <1>1 DEF TypeOK, ExitInv, BeforeExit, Loop, SettledExitHasReservation,
       ProcessInv, None, AfterLoop, Lingering, ExitFacts, ExitFact
<1>6. FenceInv'
    BY <1>s, <1>1 DEF TypeOK, FenceInv, FenceUntilSettled, Running, ExitFact,
       ExitInv, ExitFacts, None
<1> QED
    BY <1>1, <1>2, <1>3, <1>4, <1>5, <1>6

LEMMA AbandonPublishIInv ==
    ASSUME IInv, AbandonPublish
    PROVE  IInv'
<1> USE Budgets DEF IInv, AbandonPublish, procVars, diskVars
<1>1. TypeOK'
    BY DEF TypeOK, PCs, Loop
<1>2. MachineInv'
    BY <1>1 DEF TypeOK, MachineInv, OneStopReason, Loop, Active, Locals, None
<1>3. ProcessInv'
    BY <1>1 DEF TypeOK, ProcessInv, Loop, Lingering, AfterLoop, ExitInv
<1>4. CancelInv'
    BY <1>1 DEF TypeOK, CancelInv, None
<1>5. ExitInv'
    BY <1>1 DEF TypeOK, ExitInv, BeforeExit, Loop, SettledExitHasReservation,
       ProcessInv, None
<1>6. FenceInv'
    BY <1>1 DEF TypeOK, FenceInv, FenceUntilSettled, Running
<1> QED
    BY <1>1, <1>2, <1>3, <1>4, <1>5, <1>6

LEMMA LingerIInv ==
    ASSUME IInv, Linger
    PROVE  IInv'
<1> USE Budgets DEF IInv, Linger, procVars, diskVars
<1>s. /\ pc = "linger" /\ pc' \in {"linger", "resettle", "reap"}
      /\ provider' \in Providers /\ kids' \in BOOLEAN /\ provider'.last = provider.last
      /\ provider'.state \in {provider.state, "reaped"}
      /\ (kids' => kids) /\ (pc' = "resettle" => ~kids')
      /\ g' \in Locals /\ g'.stopReason = g.stopReason /\ g'.exit = g.exit
      /\ g'.cancelDelivered = g.cancelDelivered
      /\ UNCHANGED <<m, timer, slotUsed, says, cancelFile, linked, diskVars>>
    <2>1. PICK complete, retired, signal \in BOOLEAN :
            /\ Cleaned(complete)
            /\ g' = [g EXCEPT !.cancelled = @ \/ cancelFile = "ExplicitCancellation"]
            /\ pc' = IF complete /\ g.published THEN "resettle"
                     ELSE IF complete \/ retired \/ signal THEN "reap" ELSE "linger"
        OBVIOUS
    <2>2. provider \in Providers /\ kids \in BOOLEAN /\ g \in Locals
        BY DEF TypeOK, Providers
    <2>3. /\ provider' \in Providers /\ kids' \in BOOLEAN /\ provider'.last = provider.last
          /\ provider'.state \in {provider.state, "reaped"}
          /\ (kids' => kids) /\ (complete => ~kids')
        BY <2>1, <2>2, CleanedMeans
    <2>4. pc = "linger" /\ UNCHANGED <<m, timer, slotUsed, says, cancelFile, linked, diskVars>>
        OBVIOUS
    <2> HIDE DEF Linger, IInv
    <2>5. /\ g' \in Locals /\ g'.stopReason = g.stopReason /\ g'.exit = g.exit
          /\ g'.cancelDelivered = g.cancelDelivered
        BY <2>1, <2>2 DEF Locals
    <2> QED
        BY <2>1, <2>3, <2>4, <2>5
<1> HIDE DEF Linger
<1>1. TypeOK'
    BY <1>s DEF TypeOK, PCs, Loop, Providers
<1>2. MachineInv'
    BY <1>s, <1>1 DEF TypeOK, MachineInv, OneStopReason, Loop, Active, Locals, None
<1>3. ProcessInv'
    BY <1>s, <1>1 DEF TypeOK, ProcessInv, Loop, Lingering, AfterLoop
<1>4. CancelInv'
    BY <1>s, <1>1 DEF TypeOK, CancelInv, None
<1>5. ExitInv'
    BY <1>s, <1>1 DEF TypeOK, ExitInv, BeforeExit, Loop, SettledExitHasReservation,
       ProcessInv, None, AfterLoop, Lingering, ExitFacts
<1>6. FenceInv'
    BY <1>s, <1>1 DEF TypeOK, FenceInv, FenceUntilSettled, Running
<1> QED
    BY <1>1, <1>2, <1>3, <1>4, <1>5, <1>6

LEMMA ResettleIInv ==
    ASSUME IInv, Resettle
    PROVE  IInv'
<1> USE Budgets DEF IInv, Resettle, procVars, diskVars
<1>s. /\ pc = "resettle" /\ pc' \in {"republish", "reap"}
      /\ reservation' \in ReservationFiles
      /\ reservation'.seen \in {reservation.seen, "resolved"}
      /\ reservation'.kept \in {reservation.kept, "resolved"}
      /\ pc' = "republish" => reservation'.kept = "resolved"
      /\ record' \in Records /\ record'.neverSpawned = record.neverSpawned
      /\ record'.cancelDelivered = record.cancelDelivered
      /\ record'.terminal = record.terminal
      /\ record'.stopReason \in IF record.stopReason = None
                                THEN {None, "ExplicitCancellation"} ELSE {record.stopReason}
      /\ UNCHANGED <<m, g, timer, slotUsed, procVars, exitFile, custody, tries>>
    <2>1. PICK outcome \in WriteOutcomes :
            /\ reservation' = [Written(reservation, "resolved", outcome) EXCEPT
                                  !.mem = IF outcome = "Durable" THEN "resolved"
                                                                 ELSE "unresolved"]
            /\ pc' = IF outcome = "Durable" THEN "republish" ELSE "reap"
            /\ record' = IF outcome = "Durable" THEN Resettled(record) ELSE record
        OBVIOUS
    <2>2. reservation \in ReservationFiles /\ "resolved" \in Reserved /\ record \in Records
        BY DEF TypeOK, ReservationFiles, Reserved
    <2>3. pc = "resettle"
          /\ UNCHANGED <<m, g, timer, slotUsed, procVars, exitFile, custody, tries>>
        OBVIOUS
    <2> HIDE DEF Resettle, IInv
    <2> DEFINE w == Written(reservation, "resolved", outcome)
    <2>4. /\ w \in ReservationFiles
          /\ w.seen = IF outcome = "Failed" THEN reservation.seen ELSE "resolved"
          /\ w.kept = IF outcome = "Durable" THEN "resolved" ELSE reservation.kept
        BY <2>2, WrittenReservation
    <2>5. reservation' = [w EXCEPT !.mem = IF outcome = "Durable" THEN "resolved"
                                                                ELSE "unresolved"]
        BY <2>1
    <2> HIDE DEF w
    <2>6. /\ reservation' \in ReservationFiles
          /\ reservation'.seen = w.seen /\ reservation'.kept = w.kept
        BY <2>4, <2>5 DEF ReservationFiles
    <2>7. /\ Resettled(record) \in Records
          /\ Resettled(record).neverSpawned = record.neverSpawned
          /\ Resettled(record).cancelDelivered = record.cancelDelivered
          /\ Resettled(record).terminal = record.terminal
          /\ Resettled(record).stopReason \in
                IF record.stopReason = None THEN {None, "ExplicitCancellation"}
                                            ELSE {record.stopReason}
        BY <2>2 DEF Resettled, Records, StopReasons
    <2>8. CASE outcome = "Durable"
        BY <2>1, <2>3, <2>4, <2>6, <2>7, <2>8
    <2>9. CASE outcome # "Durable"
        BY <2>1, <2>2, <2>3, <2>4, <2>6, <2>9 
    <2> QED
        BY <2>8, <2>9
<1> HIDE DEF Resettle
<1>1. TypeOK'
    BY <1>s DEF TypeOK, PCs, Loop, ReservationFiles
<1>2. MachineInv'
    BY <1>s, <1>1 DEF TypeOK, MachineInv, OneStopReason, Loop, Active, Locals, None
<1>3. ProcessInv'
    BY <1>s, <1>1 DEF TypeOK, ProcessInv, Loop, Lingering, AfterLoop
<1>4. CancelInv'
    BY <1>s, <1>1 DEF TypeOK, CancelInv, None
<1>5. ExitInv'
    BY <1>s, <1>1 DEF TypeOK, ExitInv, BeforeExit, Loop, SettledExitHasReservation,
       ProcessInv, None
<1>6. FenceInv'
    BY <1>s, <1>1 DEF TypeOK, FenceInv, FenceUntilSettled, Running
<1> QED
    BY <1>1, <1>2, <1>3, <1>4, <1>5, <1>6

LEMMA RepublishIInv ==
    ASSUME IInv, Republish
    PROVE  IInv'
<1> USE Budgets DEF IInv, Republish, procVars, diskVars
<1>s. /\ pc = "republish" /\ pc' \in {"release", "reap"}
      /\ exitFile' \in ExitFiles /\ exitFile'.seen \in {exitFile.seen, "settled"}
      /\ \/ exitFile'.kept = "settled" /\ exitFile'.seen = "settled"
         \/ exitFile'.kept = exitFile.kept /\ pc' = "reap"
      /\ UNCHANGED <<m, g, timer, slotUsed, procVars, reservation, record, custody, tries>>
    <2>1. PICK outcome \in WriteOutcomes :
            /\ exitFile' = Written(exitFile, "settled", outcome)
            /\ pc' = IF outcome = "Durable" THEN "release" ELSE "reap"
        OBVIOUS
    <2>2. exitFile \in ExitFiles /\ "settled" \in ExitFacts
        BY DEF TypeOK, ExitFiles, ExitFacts
    <2> QED
        BY <2>1, <2>2, WrittenExit
<1> HIDE DEF Republish
<1>1. TypeOK'
    BY <1>s DEF TypeOK, PCs, Loop, ExitFiles
<1>2. MachineInv'
    BY <1>s, <1>1 DEF TypeOK, MachineInv, OneStopReason, Loop, Active, Locals, None
<1>3. ProcessInv'
    BY <1>s, <1>1 DEF TypeOK, ProcessInv, Loop, Lingering, AfterLoop
<1>4. CancelInv'
    BY <1>s, <1>1 DEF TypeOK, CancelInv, None
<1>5. ExitInv'
    BY <1>s, <1>1 DEF TypeOK, ExitInv, BeforeExit, Loop, SettledExitHasReservation,
       ProcessInv, None, AfterLoop, Lingering, ExitFacts
<1>6. FenceInv'
    BY <1>s, <1>1 DEF TypeOK, FenceInv, FenceUntilSettled, Running
<1> QED
    BY <1>1, <1>2, <1>3, <1>4, <1>5, <1>6

LEMMA ReleaseIInv ==
    ASSUME IInv, Release
    PROVE  IInv'
<1> USE Budgets DEF IInv, Release, procVars, diskVars
<1>s. /\ pc = "release" /\ pc' \in {"terminal", "reap"}
      /\ reservation' \in ReservationFiles
      /\ reservation'.kept \in {reservation.kept, "settling"}
      /\ custody' \in BOOLEAN
      /\ UNCHANGED <<m, g, timer, slotUsed, procVars, exitFile, record, tries>>
    <2>1. PICK outcome \in WriteOutcomes, prepared \in BOOLEAN :
            /\ reservation' = Written(reservation, "settling", outcome)
            /\ custody' = (custody /\ ~(outcome = "Durable" /\ prepared))
            /\ pc' = IF outcome = "Durable" /\ prepared THEN "terminal" ELSE "reap"
        OBVIOUS
    <2>2. reservation \in ReservationFiles /\ "settling" \in Reserved
        BY DEF TypeOK, ReservationFiles, Reserved
    <2> QED
        BY <2>1, <2>2, WrittenReservation
<1> HIDE DEF Release
<1>1. TypeOK'
    BY <1>s DEF TypeOK, PCs, Loop, ReservationFiles
<1>2. MachineInv'
    BY <1>s, <1>1 DEF TypeOK, MachineInv, OneStopReason, Loop, Active, Locals, None
<1>3. ProcessInv'
    BY <1>s, <1>1 DEF TypeOK, ProcessInv, Loop, Lingering, AfterLoop
<1>4. CancelInv'
    BY <1>s, <1>1 DEF TypeOK, CancelInv, None
<1>5. ExitInv'
    BY <1>s, <1>1 DEF TypeOK, ExitInv, BeforeExit, Loop, SettledExitHasReservation,
       ProcessInv, None
<1>6. FenceInv'
    BY <1>s, <1>1 DEF TypeOK, FenceInv, FenceUntilSettled, Running
<1> QED
    BY <1>1, <1>2, <1>3, <1>4, <1>5, <1>6

LEMMA SettleIInv ==
    ASSUME IInv, Settle
    PROVE  IInv'
<1> USE Budgets DEF IInv, Settle, procVars, diskVars
<1>s. /\ pc = "terminal" /\ pc' \in {"terminal", "reap"}
      /\ reservation' \in ReservationFiles
      /\ reservation'.kept \in {reservation.kept, "cleared"}
      /\ tries' \in 0..TerminalTries
      /\ UNCHANGED <<m, g, timer, slotUsed, procVars, exitFile, record, custody>>
    <2>1. \/ reservation' = reservation
          \/ reservation' = [reservation EXCEPT !.seen = "cleared", !.kept = "cleared"]
        OBVIOUS
    <2>2. reservation \in ReservationFiles
        BY DEF TypeOK, ReservationFiles
    <2>3. /\ reservation' \in ReservationFiles
          /\ reservation'.kept \in {reservation.kept, "cleared"}
        BY <2>1, <2>2 DEF ReservationFiles, Reserved
    <2>4. tries' \in 0..TerminalTries
        BY DEF TypeOK
    <2>5. pc' \in {"terminal", "reap"}
        OBVIOUS
    <2> QED
        BY <2>3, <2>4, <2>5
<1> HIDE DEF Settle
<1>1. TypeOK'
    BY <1>s DEF TypeOK, PCs, Loop, ReservationFiles
<1>2. MachineInv'
    BY <1>s, <1>1 DEF TypeOK, MachineInv, OneStopReason, Loop, Active, Locals, None
<1>3. ProcessInv'
    BY <1>s, <1>1 DEF TypeOK, ProcessInv, Loop, Lingering, AfterLoop
<1>4. CancelInv'
    BY <1>s, <1>1 DEF TypeOK, CancelInv, None
<1>5. ExitInv'
    BY <1>s, <1>1 DEF TypeOK, ExitInv, BeforeExit, Loop, SettledExitHasReservation,
       ProcessInv, None
<1>6. FenceInv'
    BY <1>s, <1>1 DEF TypeOK, FenceInv, FenceUntilSettled, Running
<1> QED
    BY <1>1, <1>2, <1>3, <1>4, <1>5, <1>6

LEMMA ReapIInv ==
    ASSUME IInv, Reap
    PROVE  IInv'
<1> USE Budgets DEF IInv, Reap, procVars, diskVars
<1>1. TypeOK'
    BY DEF TypeOK, PCs, Loop
<1>2. MachineInv'
    BY <1>1 DEF TypeOK, MachineInv, OneStopReason, Loop, Active, Locals, None
<1>3. ProcessInv'
    BY <1>1 DEF TypeOK, ProcessInv, Loop, Lingering, AfterLoop
<1>4. CancelInv'
    BY <1>1 DEF TypeOK, CancelInv, None
<1>5. ExitInv'
    BY <1>1 DEF TypeOK, ExitInv, BeforeExit, Loop, SettledExitHasReservation,
       ProcessInv, None
<1>6. FenceInv'
    BY <1>1 DEF TypeOK, FenceInv, FenceUntilSettled, Running
<1> QED
    BY <1>1, <1>2, <1>3, <1>4, <1>5, <1>6

LEMMA TimePassesIInv ==
    ASSUME IInv, TimePasses
    PROVE  IInv'
<1> USE Budgets DEF IInv, TimePasses, procVars, diskVars
<1>s. /\ pc \in Loop
      /\ m' \in States(WallMs + SlotWaitMs, FlushMs) /\ m'.phase = m.phase
      /\ m'.attempts = m.attempts /\ m'.wall <= m.wall
      /\ timer' \in [kill : Off..KillMs, drain : Off..FlushMs]
      /\ timer'.kill # Off => timer.kill # Off
      /\ UNCHANGED <<pc, g, slotUsed, procVars, diskVars>>
    <2>1. /\ m \in States(WallMs + SlotWaitMs, FlushMs)
          /\ timer \in [kill : Off..KillMs, drain : Off..FlushMs]
          /\ m' = [m EXCEPT !.wall = Passed(@), !.flush = Passed(@)]
          /\ timer' = [kill |-> Passed(timer.kill), drain |-> Passed(timer.drain)]
        BY DEF TypeOK
    <2>2. /\ m.wall \in 0..(WallMs + SlotWaitMs) /\ m.flush \in Off..FlushMs
          /\ timer.kill \in Off..KillMs /\ timer.drain \in Off..FlushMs
        BY <2>1 DEF States
    <2>3. /\ Passed(m.wall) \in 0..(WallMs + SlotWaitMs) /\ Passed(m.wall) <= m.wall
          /\ Passed(m.flush) \in Off..FlushMs
          /\ Passed(timer.kill) \in Off..KillMs /\ Passed(timer.drain) \in Off..FlushMs
          /\ Passed(timer.kill) # Off => timer.kill # Off
        BY <2>2 DEF Passed, Off
    <2>4. pc \in Loop /\ UNCHANGED <<pc, g, slotUsed, procVars, diskVars>>
        OBVIOUS
    <2> HIDE DEF TimePasses, IInv
    <2>5. /\ m' \in States(WallMs + SlotWaitMs, FlushMs) /\ m'.phase = m.phase
          /\ m'.attempts = m.attempts /\ m'.wall <= m.wall
        BY <2>1, <2>2, <2>3 DEF States
    <2>6. /\ timer' \in [kill : Off..KillMs, drain : Off..FlushMs]
          /\ timer'.kill # Off => timer.kill # Off
        BY <2>1, <2>3
    <2> QED
        BY <2>4, <2>5, <2>6
<1> HIDE DEF TimePasses
<1>1. TypeOK'
    BY <1>s DEF TypeOK, PCs, Loop
<1>2. MachineInv'
    BY <1>s, <1>1 DEF TypeOK, MachineInv, OneStopReason, Loop, Active, Locals, None,
       States
<1>3. ProcessInv'
    BY <1>s, <1>1 DEF TypeOK, ProcessInv, Loop, Lingering, AfterLoop
<1>4. CancelInv'
    BY <1>s, <1>1 DEF TypeOK, CancelInv, None
<1>5. ExitInv'
    BY <1>s, <1>1 DEF TypeOK, ExitInv, BeforeExit, Loop, SettledExitHasReservation,
       ProcessInv, None
<1>6. FenceInv'
    BY <1>s, <1>1 DEF TypeOK, FenceInv, FenceUntilSettled, Running
<1> QED
    BY <1>1, <1>2, <1>3, <1>4, <1>5, <1>6

LEMMA ProviderExitsIInv ==
    ASSUME IInv, ProviderExits
    PROVE  IInv'
<1> USE Budgets DEF IInv, ProviderExits, procVars, diskVars
<1>1. TypeOK'
    BY DEF TypeOK, PCs, Loop
<1>2. MachineInv'
    BY <1>1 DEF TypeOK, MachineInv, OneStopReason, Loop, Active, Locals, None
<1>3. ProcessInv'
    BY <1>1 DEF TypeOK, ProcessInv, Loop, Lingering, AfterLoop
<1>4. CancelInv'
    BY <1>1 DEF TypeOK, CancelInv, None
<1>5. ExitInv'
    BY <1>1 DEF TypeOK, ExitInv, BeforeExit, Loop, SettledExitHasReservation,
       ProcessInv, None
<1>6. FenceInv'
    BY <1>1 DEF TypeOK, FenceInv, FenceUntilSettled, Running
<1> QED
    BY <1>1, <1>2, <1>3, <1>4, <1>5, <1>6

LEMMA KidsExitIInv ==
    ASSUME IInv, KidsExit
    PROVE  IInv'
<1> USE Budgets DEF IInv, KidsExit, procVars, diskVars
<1>s. /\ ~kids' /\ kids' \in BOOLEAN
      /\ UNCHANGED <<pc, m, g, timer, slotUsed, provider, says, cancelFile, linked, diskVars>>
    BY Zenon
<1> HIDE DEF KidsExit
<1>1. TypeOK'
    BY <1>s DEF TypeOK, PCs, Loop
<1>2. MachineInv'
    BY <1>s, <1>1 DEF TypeOK, MachineInv, OneStopReason, Loop, Active, Locals, None
<1>3. ProcessInv'
    BY <1>s, <1>1 DEF TypeOK, ProcessInv, Loop, Lingering, AfterLoop
<1>4. CancelInv'
    BY <1>s, <1>1 DEF TypeOK, CancelInv, None
<1>5. ExitInv'
    BY <1>s, <1>1 DEF TypeOK, ExitInv, BeforeExit, Loop, SettledExitHasReservation,
       ProcessInv, None
<1>6. FenceInv'
    BY <1>s, <1>1 DEF TypeOK, FenceInv, FenceUntilSettled, Running
<1> QED
    BY <1>1, <1>2, <1>3, <1>4, <1>5, <1>6

LEMMA SaysIInv ==
    ASSUME IInv, NEW fact \in Frames, Says(fact)
    PROVE  IInv'
<1> USE Budgets DEF IInv, Says, procVars, diskVars
<1>1. TypeOK'
    BY DEF TypeOK, PCs, Loop
<1>2. MachineInv'
    BY <1>1 DEF TypeOK, MachineInv, OneStopReason, Loop, Active, Locals, None
<1>3. ProcessInv'
    BY <1>1 DEF TypeOK, ProcessInv, Loop, Lingering, AfterLoop
<1>4. CancelInv'
    BY <1>1 DEF TypeOK, CancelInv, None
<1>5. ExitInv'
    BY <1>1 DEF TypeOK, ExitInv, BeforeExit, Loop, SettledExitHasReservation,
       ProcessInv, None
<1>6. FenceInv'
    BY <1>1 DEF TypeOK, FenceInv, FenceUntilSettled, Running
<1> QED
    BY <1>1, <1>2, <1>3, <1>4, <1>5, <1>6

LEMMA WriteCancelIInv ==
    ASSUME IInv, NEW reason \in Requests, WriteCancel(reason)
    PROVE  IInv'
<1> USE Budgets DEF IInv, WriteCancel, procVars, diskVars
<1>1. TypeOK'
    BY DEF TypeOK, PCs, Loop
<1>2. MachineInv'
    BY <1>1 DEF TypeOK, MachineInv, OneStopReason, Loop, Active, Locals, None
<1>3. ProcessInv'
    BY <1>1 DEF TypeOK, ProcessInv, Loop, Lingering, AfterLoop
<1>4. CancelInv'
    BY <1>1 DEF TypeOK, CancelInv, None
<1>5. ExitInv'
    BY <1>1 DEF TypeOK, ExitInv, BeforeExit, Loop, SettledExitHasReservation,
       ProcessInv, None
<1>6. FenceInv'
    BY <1>1 DEF TypeOK, FenceInv, FenceUntilSettled, Running
<1> QED
    BY <1>1, <1>2, <1>3, <1>4, <1>5, <1>6

LEMMA RemoveDirectoryIInv ==
    ASSUME IInv, NEW dir \in Removable, RemoveDirectory(dir)
    PROVE  IInv'
<1> USE Budgets DEF IInv, RemoveDirectory, procVars, diskVars
<1>1. TypeOK'
    BY DEF TypeOK, PCs, Loop
<1>2. MachineInv'
    BY <1>1 DEF TypeOK, MachineInv, OneStopReason, Loop, Active, Locals, None
<1>3. ProcessInv'
    BY <1>1 DEF TypeOK, ProcessInv, Loop, Lingering, AfterLoop
<1>4. CancelInv'
    BY <1>1 DEF TypeOK, CancelInv, None
<1>5. ExitInv'
    BY <1>1 DEF TypeOK, ExitInv, BeforeExit, Loop, SettledExitHasReservation,
       ProcessInv, None
<1>6. FenceInv'
    BY <1>1 DEF TypeOK, FenceInv, FenceUntilSettled, Running
<1> QED
    BY <1>1, <1>2, <1>3, <1>4, <1>5, <1>6

LEMMA GuardianDiesIInv ==
    ASSUME IInv, GuardianDies
    PROVE  IInv'
<1> USE Budgets DEF IInv, GuardianDies, procVars, diskVars
<1>s. /\ pc' = "dead" /\ ~custody' /\ custody' \in BOOLEAN /\ Forgotten
      /\ UNCHANGED <<provider, kids, says, cancelFile, linked, reservation, exitFile, record,
                     tries>>
    BY Zenon
<1> HIDE DEF GuardianDies, Forgotten
<1>1. TypeOK'
    BY <1>s, ForgottenIs DEF TypeOK, PCs, Loop
<1>2. MachineInv'
    BY <1>s, ForgottenIs, <1>1 DEF TypeOK, MachineInv, OneStopReason, Loop, Active,
       Locals, None
<1>3. ProcessInv'
    BY <1>s, ForgottenIs, <1>1 DEF TypeOK, ProcessInv, Loop, Lingering, AfterLoop
<1>4. CancelInv'
    BY <1>s, ForgottenIs, <1>1 DEF TypeOK, CancelInv, None
<1>5. ExitInv'
    BY <1>s, ForgottenIs, <1>1 DEF TypeOK, ExitInv, BeforeExit, Loop,
       SettledExitHasReservation, ProcessInv, None
<1>6. FenceInv'
    BY <1>s, ForgottenIs, <1>1 DEF TypeOK, FenceInv, FenceUntilSettled, Running
<1> QED
    BY <1>1, <1>2, <1>3, <1>4, <1>5, <1>6

LEMMA HostCrashIInv ==
    ASSUME IInv, HostCrash
    PROVE  IInv'
<1> USE Budgets DEF IInv, HostCrash, procVars, diskVars
<1>s. /\ pc' = "dead" /\ ~custody' /\ custody' \in BOOLEAN /\ ~kids' /\ kids' \in BOOLEAN
      /\ provider' \in Providers /\ provider'.last = provider.last
      /\ provider'.state = IF provider.state = "none" THEN "none" ELSE "reaped"
      /\ reservation' \in ReservationFiles /\ reservation'.mem = reservation.mem
      /\ reservation'.seen = reservation.kept /\ reservation'.kept = reservation.kept
      /\ exitFile' \in ExitFiles
      /\ exitFile'.seen = exitFile.kept /\ exitFile'.kept = exitFile.kept
      /\ Forgotten
      /\ UNCHANGED <<says, cancelFile, linked, record, tries>>
    <2>1. provider \in Providers /\ reservation \in ReservationFiles /\ exitFile \in ExitFiles
        BY DEF TypeOK, Providers, ReservationFiles, ExitFiles
    <2>2. /\ provider' \in Providers /\ provider'.last = provider.last
          /\ provider'.state = IF provider.state = "none" THEN "none" ELSE "reaped"
        BY <2>1 DEF Providers
    <2>3. /\ reservation' \in ReservationFiles /\ reservation'.mem = reservation.mem
          /\ reservation'.seen = reservation.kept /\ reservation'.kept = reservation.kept
        BY <2>1 DEF ReservationFiles
    <2>4. /\ exitFile' \in ExitFiles
          /\ exitFile'.seen = exitFile.kept /\ exitFile'.kept = exitFile.kept
        BY <2>1 DEF ExitFiles
    <2> QED
        BY <2>2, <2>3, <2>4
<1> HIDE DEF HostCrash
<1>1. TypeOK'
    BY <1>s, ForgottenIs DEF TypeOK, PCs, Loop, Providers, ReservationFiles,
       ExitFiles
<1>2. MachineInv'
    BY <1>s, ForgottenIs, <1>1 DEF TypeOK, MachineInv, OneStopReason, Loop, Active,
       Locals, None
<1>3. ProcessInv'
    BY <1>s, ForgottenIs, <1>1 DEF TypeOK, ProcessInv, Loop, Lingering, AfterLoop
<1>4. CancelInv'
    BY <1>s, ForgottenIs, <1>1 DEF TypeOK, CancelInv, None
<1>5. ExitInv'
    BY <1>s, ForgottenIs, <1>1 DEF TypeOK, ExitInv, BeforeExit, Loop,
       SettledExitHasReservation, ProcessInv, None
<1>6. FenceInv'
    BY <1>s, ForgottenIs, <1>1 DEF TypeOK, FenceInv, FenceUntilSettled, Running
<1> QED
    BY <1>1, <1>2, <1>3, <1>4, <1>5, <1>6

-----------------------------------------------------------------------------
(* Theorems *)

\* Every step keeps the invariant.
LEMMA NextIInv ==
    ASSUME IInv, [Next]_vars
    PROVE  IInv'
<1>1. CASE Guardian
    BY <1>1, SpawnIInv, SpawnRefusedIInv, TurnIInv, DeliverIInv, KillIInv, EndTurnIInv,
       CleanupIInv, ReserveIInv, AbandonReserveIInv, PublishIInv, AbandonPublishIInv,
       LingerIInv, ResettleIInv, RepublishIInv, ReleaseIInv, SettleIInv, ReapIInv
       DEF Guardian
<1>2. CASE Environment
    BY <1>2, TimePassesIInv, ProviderExitsIInv, KidsExitIInv, SaysIInv, WriteCancelIInv,
       RemoveDirectoryIInv DEF Environment
<1>3. CASE Crash
    BY <1>3, GuardianDiesIInv, HostCrashIInv DEF Crash
<1>4. CASE UNCHANGED vars
    <2>1. TypeOK'
        BY <1>4 DEF IInv, TypeOK, vars
    <2>2. MachineInv' /\ ProcessInv' /\ CancelInv'
        BY <1>4 DEF IInv, MachineInv, OneStopReason, ProcessInv, CancelInv, vars
    <2>3. ExitInv' /\ FenceInv'
        BY <1>4 DEF IInv, ExitInv, SettledExitHasReservation, FenceInv, FenceUntilSettled,
           Running, vars
    <2> QED
        BY <2>1, <2>2, <2>3 DEF IInv
<1> QED
    BY <1>1, <1>2, <1>3, <1>4 DEF Next

\* The inductive invariant holds whatever the provider, its host, the storage
\* and the crashes do (Driver::run).
THEOREM Invariance == Spec => []IInv
<1>1. Init => IInv
    BY InitIInv
<1>2. IInv /\ [Next]_vars => IInv'
    BY NextIInv
<1> QED
    BY <1>1, <1>2, PTL DEF Spec

\* The published exit tells the truth, for any budgets and any failing calls:
\* no exit while the provider lives, none settled while a member of its group
\* lives, a delivered cancellation only where the provider was signalled for
\* it, and one stop reason (Driver::run, machine::step).
THEOREM RecordsAreTrueHolds == Spec => []RecordsAreTrue
<1>1. IInv => RecordsAreTrue
    BY DEF IInv, RecordsAreTrue, MachineInv, ExitInv, CancelInv
<1> QED
    BY <1>1, Invariance, PTL

\* A settled exit is visible only after the resolved reservation is durable,
\* through every crash (persist_reservation, republish_settled).
THEOREM SettledExitHasReservationHolds == Spec => []SettledExitHasReservation
<1>1. IInv => SettledExitHasReservation
    BY DEF IInv, ExitInv
<1> QED
    BY <1>1, Invariance, PTL

\* The reservation goes to settlement and a running guardian drops its lock
\* only once a settled exit is durable (release, publish_until_durable).
THEOREM FenceUntilSettledHolds == Spec => []FenceUntilSettled
<1>1. IInv => FenceUntilSettled
    BY DEF IInv, FenceInv
<1> QED
    BY <1>1, Invariance, PTL

\* The durable exit record only ever goes from unresolved to settled.
LEMMA ExitStands ==
    ASSUME IInv, [Next]_vars, exitFile.kept # None
    PROVE  exitFile'.kept \in {exitFile.kept, "settled"}
<1>1. pc \notin BeforeExit \cup {"publish"}
    BY DEF IInv, ExitInv
<1>2. exitFile \in ExitFiles /\ "settled" \in ExitFacts
    BY DEF IInv, TypeOK, ExitFiles, ExitFacts
<1>3. CASE Republish
    <2>1. PICK outcome \in WriteOutcomes : exitFile' = Written(exitFile, "settled", outcome)
        BY <1>3 DEF Republish
    <2> QED
        BY <1>2, <2>1, WrittenExit
<1>4. CASE HostCrash
    BY <1>2, <1>4 DEF HostCrash, ExitFiles
<1>5. CASE UNCHANGED exitFile
    BY <1>5
<1>6. ~Publish /\ ~Spawn
    BY <1>1 DEF Publish, Spawn, BeforeExit
<1>7. Republish \/ HostCrash \/ UNCHANGED exitFile
    BY <1>6 DEF Next, Guardian, Environment, Crash, SpawnRefused, Turn, Deliver, Kill, EndTurn,
       Cleanup, Reserve, AbandonReserve, AbandonPublish, Linger, Resettle, Release, Settle,
       Reap, TimePasses, ProviderExits, KidsExit, Says, WriteCancel, RemoveDirectory,
       GuardianDies, diskVars, vars
<1> QED
    BY <1>3, <1>4, <1>5, <1>7

\* Once an exit is durable the record it was written from changes only when a
\* cleanup is resettled.
LEMMA RecordStands ==
    ASSUME IInv, [Next]_vars, exitFile.kept # None
    PROVE  \/ record' = record
           \/ record' = Resettled(record)
<1>1. pc \notin BeforeExit \cup {"publish"}
    BY DEF IInv, ExitInv
<1>2. ~SpawnRefused /\ ~Cleanup
    BY <1>1 DEF SpawnRefused, Cleanup, BeforeExit
<1>3. CASE Resettle
    BY <1>3 DEF Resettle
<1>4. Resettle \/ UNCHANGED record
    BY <1>2 DEF Next, Guardian, Environment, Crash, Spawn, Turn, Deliver, Kill, EndTurn,
       Reserve, AbandonReserve, Publish, AbandonPublish, Linger, Republish, Release, Settle,
       Reap, TimePasses, ProviderExits, KidsExit, Says, WriteCancel, RemoveDirectory,
       GuardianDies, HostCrash, diskVars, vars
<1> QED
    BY <1>3, <1>4

\* A resettled record differs in its cleanup, and in a stop reason it lacked.
LEMMA ResettledFacts ==
    ASSUME NEW r \in Records
    PROVE  /\ Resettled(r).stopReason \in
                IF r.stopReason = None THEN {None, "ExplicitCancellation"} ELSE {r.stopReason}
           /\ [Resettled(r) EXCEPT !.stopReason = None, !.unresolved = FALSE]
                = [r EXCEPT !.stopReason = None, !.unresolved = FALSE]
<1>1. /\ Resettled(r) \in Records
      /\ Resettled(r).neverSpawned = r.neverSpawned
      /\ Resettled(r).cancelDelivered = r.cancelDelivered
      /\ Resettled(r).terminal = r.terminal
      /\ Resettled(r).stopReason \in
            IF r.stopReason = None THEN {None, "ExplicitCancellation"} ELSE {r.stopReason}
    BY DEF Resettled, Records, StopReasons
<1>2. [Resettled(r) EXCEPT !.stopReason = None, !.unresolved = FALSE]
        = [r EXCEPT !.stopReason = None, !.unresolved = FALSE]
    BY DEF Resettled, Records
<1> QED
    BY <1>1, <1>2

\* A durable exit is replaced at most by the settled one, and the facts it
\* published stand but for a cancellation that names itself where no stop did
\* (publish_until_durable, republish_settled).
THEOREM PublishedFactsStandHolds == Spec => PublishedFactsStand
<1> DEFINE Stands ==
        exitFile.kept # None =>
        /\ exitFile'.kept \in {exitFile.kept, "settled"}
        /\ record'.stopReason \in IF record.stopReason = None
                                  THEN {None, "ExplicitCancellation"}
                                  ELSE {record.stopReason}
        /\ [record' EXCEPT !.stopReason = None, !.unresolved = FALSE]
             = [record EXCEPT !.stopReason = None, !.unresolved = FALSE]
<1>1. ASSUME IInv, [Next]_vars
      PROVE  [Stands]_vars
    <2>1. SUFFICES ASSUME exitFile.kept # None PROVE Stands
        BY DEF Stands
    <2>2. record \in Records
        BY <1>1 DEF IInv, TypeOK
    <2>3. exitFile'.kept \in {exitFile.kept, "settled"}
        BY <1>1, <2>1, ExitStands
    <2>4. record' = record \/ record' = Resettled(record)
        BY <1>1, <2>1, RecordStands
    <2>5. CASE record' = record
        BY <2>3, <2>5
    <2>6. CASE record' = Resettled(record)
        BY <2>2, <2>3, <2>6, ResettledFacts
    <2> QED
        BY <2>4, <2>5, <2>6
<1>2. IInv /\ [Next]_vars => [Stands]_vars
    BY <1>1
<1> QED
    BY <1>2, Invariance, PTL DEF Spec, PublishedFactsStand
=============================================================================
