--------------------------- MODULE ProviderMachine ---------------------------
(***************************************************************************)
(* The supervisor's pure lifecycle machine (crates/supervisor/src/         *)
(* machine.rs): `step` takes a state, one event and one tick of            *)
(* observations and returns the next state and the effects the guardian    *)
(* must apply.  It holds no clock: the two deadlines it compares with `now`*)
(* are kept here as the time left until them, which is what the guardian's *)
(* deadline_in_ms computes.  The overflow answers of checked_add           *)
(* (DeadlineUnavailable) are left out: CapturePlan::validate bounds every  *)
(* budget by a day and the clock counts from the launch.                   *)
(***************************************************************************)
EXTENDS Integers

Phases == {"Prepared", "Running", "TerminalGrace", "Stopping", "Cleaning",
           "Exited", "Published"}

StopReasons == {"ExplicitCancellation", "WallDeadline", "ProtocolRejected",
                "SupervisorSignal", "PostTerminalCleanup", "TokenBudget"}

Off == -1
None == "None"

\* One entry per reason of stop_attempts; "None" where no attempt was made.
Attempts == [StopReasons -> {None, "Asked", "Delivered", "Failed"}]

States(maxWall, maxFlush) ==
    [phase : Phases, wall : 0..maxWall, flush : Off..maxFlush, exit : BOOLEAN,
     attempts : Attempts]

Prepared(wallMs) ==
    [phase |-> "Prepared", wall |-> wallMs, flush |-> Off, exit |-> FALSE,
     attempts |-> [r \in StopReasons |-> None]]

NeverSpawned == [Prepared(0) EXCEPT !.phase = "Exited"]

\* Tick::at with nothing observed; wallClock is the second clock's verdict.
Quiet == [exit |-> FALSE, wallClock |-> FALSE, graceOver |-> FALSE,
          delivery |-> <<>>, cleanup |-> None, publication |-> None]

Result(s, effects) == [state |-> s, effects |-> effects]

RequestStop(s, reason) ==
    CASE \/ s.phase = "Stopping"
         \/ s.phase = "Cleaning" /\ reason # "PostTerminalCleanup" ->
            Result(s, {})
      [] OTHER ->
            LET settled == s.attempts[reason] \in {"Delivered", "Failed"} IN
            Result([s EXCEPT !.phase = "Stopping",
                             !.attempts[reason] = IF settled THEN @ ELSE "Asked"],
                   IF settled THEN {} ELSE {<<"DeliverStop", reason>>})

RetryStop(s, reason) ==
    IF s.phase = "Stopping" /\ s.attempts[reason] # None
    THEN Result([s EXCEPT !.attempts[reason] = "Asked"],
                {<<"DeliverStop", reason>>})
    ELSE Result(s, {})

\* The stop a running provider's event asks for.
StopOf(event) ==
    CASE event = <<"Cancel">> -> "ExplicitCancellation"
      [] event = <<"ProtocolRejected">> -> "ProtocolRejected"
      [] event = <<"SupervisorSignal">> -> "SupervisorSignal"
      [] event = <<"TokenBudget">> -> "TokenBudget"
      [] OTHER -> None

OnPrepared(s, event) ==
    CASE s.wall = 0 \/ event \in {<<"Cancel">>, <<"SupervisorSignal">>} ->
            Result([s EXCEPT !.phase = "Exited"], {<<"PublishExit">>})
      [] s.wall # 0 /\ event = <<"Started">> ->
            Result([s EXCEPT !.phase = "Running"], {})
      [] OTHER -> Result(s, {})

OnRunning(s, event, flushMs) ==
    CASE event = <<"Terminal">> ->
            Result([s EXCEPT !.phase = "TerminalGrace", !.flush = flushMs],
                   {<<"CloseStdin">>})
      [] StopOf(event) # None -> RequestStop(s, StopOf(event))
      [] OTHER -> Result(s, {})

OnTerminalGrace(s, event) ==
    CASE s.flush = 0 -> RequestStop(s, "PostTerminalCleanup")
      [] s.flush # 0 /\ StopOf(event) \notin {None, "TokenBudget"} ->
            RequestStop(s, StopOf(event))
      [] OTHER -> Result(s, {})

OnStopping(s, event, tick) ==
    LET retried == IF event[1] = "RetryStop" THEN RetryStop(s, event[2])
                                             ELSE Result(s, {}) IN
    IF s.exit /\ tick.cleanup = "Complete"
    THEN Result([retried.state EXCEPT !.phase = "Exited"],
                retried.effects \cup {<<"PublishExit">>})
    ELSE retried

(* Wrong variants of the definitions that follow, each a bug the code could *)
(* have; substituting one must break the property named beside it.           *)
MutOnExited(s, tick) ==                                     \* FenceUntilSettled
    IF tick.publication \in {"Durable", "Visible"}
    THEN Result([s EXCEPT !.phase = "Published"], {})
    ELSE Result(s, {<<"RetryExitPublication">>})

OnCleaning(s, tick) ==
    CASE tick.cleanup \in {"Complete", "Unresolved"} ->
            Result([s EXCEPT !.phase = "Exited"], {<<"PublishExit">>})
      [] tick.cleanup = "DescendantsPresent" /\ tick.graceOver ->
            RequestStop(s, "PostTerminalCleanup")
      [] OTHER -> Result(s, {})

OnExited(s, tick) ==
    CASE tick.publication = "Durable" ->
            Result([s EXCEPT !.phase = "Published"], {})
      [] tick.publication = "Pending" ->
            Result(s, {<<"RetryExitPublication">>})
      [] tick.publication = "Visible" ->
            Result(s, {<<"RetryPublishedDirectorySync">>})
      [] OTHER -> Result(s, {})

\* A delivery receipt lands on the attempt it names, in whatever phase.
Receipted(s, d) ==
    IF d = <<>> \/ s.attempts[d[1]] = None THEN s
    ELSE [s EXCEPT !.attempts[d[1]] = d[2]]

Rejected(s, d) ==
    IF d # <<>> /\ s.attempts[d[1]] = None
    THEN {<<"RejectDeliveryReceipt", d[1]>>} ELSE {}

Unexited == {"Running", "TerminalGrace", "Stopping"}

\* The exit observation is taken first, then the wall deadline, then the event.
Decide(s, event, tick, flushMs) ==
    IF s.phase \in Unexited /\ tick.exit
    THEN Result([s EXCEPT !.exit = TRUE, !.phase = "Cleaning"],
                {<<"BeginCleanup">>})
    ELSE IF s.phase \in {"Running", "TerminalGrace"} /\ (s.wall = 0 \/ tick.wallClock)
    THEN RequestStop(s, "WallDeadline")
    ELSE CASE s.phase = "Prepared" -> OnPrepared(s, event)
           [] s.phase = "Running" -> OnRunning(s, event, flushMs)
           [] s.phase = "TerminalGrace" -> OnTerminalGrace(s, event)
           [] s.phase = "Stopping" -> OnStopping(s, event, tick)
           [] s.phase = "Cleaning" -> OnCleaning(s, tick)
           [] s.phase = "Exited" -> OnExited(s, tick)
           [] s.phase = "Published" -> Result(s, {})

\* machine::step
Step(s, event, tick, flushMs) ==
    LET decided == Decide(Receipted(s, tick.delivery), event, tick, flushMs) IN
    Result(decided.state, Rejected(s, tick.delivery) \cup decided.effects)
=============================================================================
