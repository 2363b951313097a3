--------------------------- MODULE AttemptCustody ---------------------------
(***************************************************************************)
(* Custody of attempts from launch to release.  A launcher                 *)
(* (crates/run/src/launch.rs, launch/hand_off.rs) reserves the attempt     *)
(* under the writer flock and hands it to a guardian                       *)
(* (crates/supervisor/src/guardian.rs), which inherits the flock, admits   *)
(* the attempt, spawns the provider and settles it.  Reconcile passes      *)
(* (crates/run/src/controls.rs) settle what launchers and guardians leave  *)
(* behind when they die, from the reservation, the launch summary, the     *)
(* exit and process journals and what they can observe of the processes    *)
(* (crates/supervisor/src/custody.rs, custody/orphans.rs).                 *)
(*                                                                         *)
(* A flock belongs to an open file description that every inheritor        *)
(* shares, so it is kept as the set of processes that still hold it open.  *)
(* Writers share the flock of their worktree slot; a reader's flock is in  *)
(* its own attempt directory.  A guardian's own supervision loop is        *)
(* ProviderGuardian; here it is one observation of how its tree ended.     *)
(***************************************************************************)
EXTENDS Naturals

CONSTANTS
    Writers,    \* attempts that write the one worktree slot
    Readers,    \* attempts that only read
    Fleets,     \* the sets of attempts a host may have admitted
    Passes,     \* reconcile passes that may run at once
    Explicit,   \* those a person asks for; the others are background passes
    MaxDeaths,  \* processes of this program that die early
    MaxBoots,   \* boots of the host
    None        \* no reservation, no attempt

ASSUME CustodyAssumption ==
    /\ Writers \cap Readers = {}
    /\ "worktree" \notin Writers \cup Readers
    /\ Fleets \subseteq SUBSET (Writers \cup Readers)
    /\ Explicit \subseteq Passes
    /\ MaxDeaths \in Nat
    /\ MaxBoots \in Nat \ {0}

Attempts == Writers \cup Readers
Worktree == "worktree"
Locks == {Worktree} \cup Attempts

\* The directory whose writer.lock guards the attempt.
LockOf(a) == IF a \in Writers THEN Worktree ELSE a

Launcher(a) == <<"launcher", a>>
Guardian(a) == <<"guardian", a>>
Provider(a) == <<"provider", a>>
Orphan(a) == <<"orphan", a>>
Pass(p) == <<"pass", p>>
Processes == ({"launcher", "guardian", "provider", "orphan"} \X Attempts)
             \cup ({"pass"} \X Passes)

VARIABLES
    record,     \* the attempt record's state in the Run store
    reservation,\* reservation.json
    summary,    \* whether launch.json exists
    exit,       \* process-exit.json
    journal,    \* boot of the identities in process.json, 0 when absent
    cancel,     \* whether cancel.json asks for a stop
    named,      \* whom the unresolved exit names, or named before a sweep
    intent,     \* terminal-pending.json: the state a sealed withdrawal ends
    lock,       \* writer.lock: the processes that hold it open
    launcher,   \* where the launcher stands
    guardian,   \* where the guardian stands
    provider,   \* the provider process
    orphan,     \* a descendant of the provider
    pass,       \* each reconcile pass: where it stands, and its attempt
    boot,       \* the current boot
    deaths      \* early deaths so far

vars == <<record, reservation, summary, exit, journal, cancel, named, intent,
          lock, launcher, guardian, provider, orphan, pass, boot, deaths>>
files == <<summary, exit, journal, cancel, named, intent>>
procs == <<provider, orphan>>
world == <<boot, deaths>>

Terminal == {"withdrawn", "finished", "lost"}
LaunchStates == {"Prepared", "NeverSpawned", "HandingOff", "Spawned", "Settling"}
Reservations == [state : LaunchStates, guardian : BOOLEAN, bound : BOOLEAN,
                 unresolved : BOOLEAN, boot : 1..MaxBoots]
ASSUME NoneAssumption == None \notin Attempts \cup Reservations

\* "settled" is the guardian's own proof of an empty tree; "swept" is a pass's
\* OrphansEnded, "leftover" its LeftoverNotProven.
Final == {"never_spawned", "settled", "swept", "leftover"}
Exits == {"absent", "unresolved"} \cup Final
LauncherSteps == {"idle", "reserve", "recheck", "prepare", "refused_exit",
                  "spawn", "await", "withdraw", "sealed", "ended"}
GuardianSteps == {"none", "adopt", "summary", "admit", "spawn", "refuse",
                  "refused_exit", "watch", "publish", "linger", "republish",
                  "release", "terminal", "clear", "ended"}
PassSteps == {"idle", "look", "holderless", "lose", "release", "withdraw",
              "sealed", "swept", "unproven", "finish", "finish_reader", "settle"}

TypeOK ==
    /\ record \in [Attempts -> {"none", "queued", "starting", "running"} \cup Terminal]
    /\ reservation \in [Attempts -> Reservations \cup {None}]
    /\ summary \in [Attempts -> BOOLEAN]
    /\ exit \in [Attempts -> Exits]
    /\ journal \in [Attempts -> 0..MaxBoots]
    /\ cancel \in [Attempts -> BOOLEAN]
    /\ named \in [Attempts -> {"nobody", "others", "orphan"}]
    /\ intent \in [Attempts -> {"none", "queued", "starting"}]
    /\ lock \in [Locks -> SUBSET Processes]
    /\ launcher \in [Attempts -> LauncherSteps]
    /\ guardian \in [Attempts -> GuardianSteps]
    /\ provider \in [Attempts -> {"none", "live", "gone"}]
    /\ orphan \in [Attempts -> {"none", "live", "gone"}]
    /\ pass \in [Passes -> [at : PassSteps, of : Attempts \cup {None}]]
    /\ boot \in 1..MaxBoots
    /\ deaths \in 0..MaxDeaths

Idle == [at |-> "idle", of |-> None]

Init ==
    /\ \E fleet \in Fleets :
          record = [a \in Attempts |-> IF a \in fleet THEN "queued" ELSE "none"]
    /\ reservation = [a \in Attempts |-> None]
    /\ summary = [a \in Attempts |-> FALSE]
    /\ exit = [a \in Attempts |-> "absent"]
    /\ journal = [a \in Attempts |-> 0]
    /\ cancel = [a \in Attempts |-> FALSE]
    /\ named = [a \in Attempts |-> "nobody"]
    /\ intent = [a \in Attempts |-> "none"]
    /\ lock = [l \in Locks |-> {}]
    /\ launcher = [a \in Attempts |-> "idle"]
    /\ guardian = [a \in Attempts |-> "none"]
    /\ provider = [a \in Attempts |-> "none"]
    /\ orphan = [a \in Attempts |-> "none"]
    /\ pass = [p \in Passes |-> Idle]
    /\ boot = 1
    /\ deaths = 0
-----------------------------------------------------------------------------
(* Locks and what a process can tell from the evidence *)

Free(l) == lock[l] = {}
Taken(l, process) == [lock EXCEPT ![l] = @ \cup {process}]
Dropped(gone) == [l \in Locks |-> lock[l] \ gone]

Unlaunched == {"none", "ended"}
GuardianLives(a) == guardian[a] \notin Unlaunched

\* A dead guardian is taken for an ended tree.
MutAbsent(a) ==
    LET r == reservation[a] IN
    \/ r.state = "Settling"
    \/ r.state \in {"Prepared", "NeverSpawned"} /\ ~r.guardian
    \/ r.boot # boot
    \/ r.guardian /\ ~GuardianLives(a)

\* classify_reservation = Absent, every process involved being observable.
Absent(a) ==
    LET r == reservation[a] IN
    \/ r.state = "Settling"
    \/ r.state \in {"Prepared", "NeverSpawned"} /\ ~r.guardian
    \/ r.boot # boot
    \/ r.guardian /\ ~GuardianLives(a) /\ ~r.unresolved

\* holder_gone: no process.json, or its guardian and provider are both gone.
HolderGone(a) ==
    \/ journal[a] = 0
    \/ journal[a] # boot
    \/ ~GuardianLives(a) /\ provider[a] # "live"

\* A handoff in doubt is never taken for ended.
MutRebootProved(a) ==
    /\ reservation[a].bound /\ reservation[a].boot # boot
    /\ reservation[a].state # "HandingOff"

\* after_reboot: the reservation is bound to the attempt and of another boot.
RebootProved(a) == reservation[a].bound /\ reservation[a].boot # boot

\* acquire_recovery: writer exclusion taken at once, over a reservation.
Recoverable(a) == Free(LockOf(a)) /\ reservation[a] # None
-----------------------------------------------------------------------------
(* The launcher *)

NoReservation(a) == [reservation EXCEPT ![a] = None]
Moved(steps, a, step) == [steps EXCEPT ![a] = step]

\* withdraw(expected): the record must still be in the expected state, and
\* what an earlier withdrawal sealed must fit it ("resumes its own sealed
\* facts"); another generation's is TerminalRecoveryRequired.
Withdrawable(a, expected) ==
    record[a] = expected /\ intent[a] \in {"none", expected}
Sealed(a, expected) == intent' = [intent EXCEPT ![a] = expected]

\* A sealed withdrawal is committed whatever happened since.
MutWithdrawn(a) ==
    record' = [record EXCEPT ![a] = IF @ \in Terminal THEN @ ELSE "withdrawn"]

\* What is sealed was sealed in another state of the record.
Conflict(a) == record[a] \notin Terminal /\ intent[a] \notin {"none", record[a]}

\* commit_terminal_record, and replay_terminal of a sealed withdrawal: the row
\* changes only at the revision that was sealed, so only in that state.  Starts
\* and admissions neither look at the file nor take the lock it is sealed under.
\* publication.lock, which withdrawals and replays hold from the seal to the
\* commit, orders nothing here: whoever goes between replays the same decision.
Withdrawn(a) ==
    record' = [record EXCEPT ![a] = IF @ = intent[a] THEN "withdrawn" ELSE @]

\* launcher.lock, then mark_starting.
MarkStarting(a) ==
    /\ launcher[a] = "idle"
    /\ record[a] = "queued"
    /\ record' = [record EXCEPT ![a] = "starting"]
    /\ launcher' = Moved(launcher, a, "reserve")
    /\ UNCHANGED <<reservation, files, lock, guardian, procs, pass, world>>

\* acquire_writer: the flock, then the reservation, which has bound no attempt
\* directory and proves nothing about processes yet.
Reserve(a) ==
    /\ launcher[a] = "reserve"
    /\ Free(LockOf(a))
    /\ lock' = Taken(LockOf(a), Launcher(a))
    /\ reservation' = [reservation EXCEPT ![a] =
            [state |-> "Prepared", guardian |-> FALSE, bound |-> FALSE,
             unresolved |-> TRUE, boot |-> boot]]
    /\ launcher' = Moved(launcher, a, "recheck")
    /\ UNCHANGED <<record, files, guardian, procs, pass, world>>

\* HandOff::Busy: another writer has the worktree.
ReserveBusy(a) ==
    /\ launcher[a] = "reserve"
    /\ ~Free(LockOf(a))
    /\ launcher' = Moved(launcher, a, "withdraw")
    /\ UNCHANGED <<record, reservation, files, lock, guardian, procs, pass, world>>

\* withdraw_unlaunched: clear the reservation, let the flock go.
Unreserve(a) ==
    /\ reservation' = NoReservation(a)
    /\ lock' = Dropped({Launcher(a)})
    /\ launcher' = Moved(launcher, a, "withdraw")
    /\ UNCHANGED <<record, files, guardian, procs, pass, world>>

\* "Reconcile may have withdrawn this attempt before the lease existed."
Recheck(a) ==
    /\ launcher[a] = "recheck"
    /\ IF record[a] = "starting"
       THEN /\ launcher' = Moved(launcher, a, "prepare")
            /\ UNCHANGED <<record, reservation, files, lock, guardian, procs,
                           pass, world>>
       ELSE Unreserve(a)

\* Preparation fails or sees a cancel request.
PrepareFails(a) ==
    /\ launcher[a] = "prepare"
    /\ Unreserve(a)

\* custody::launch binds the attempt and declares the handoff durably.
Launch(a) ==
    /\ launcher[a] = "prepare"
    /\ ~cancel[a]
    /\ reservation' = [reservation EXCEPT ![a].state = "HandingOff", ![a].bound = TRUE]
    /\ launcher' = Moved(launcher, a, "spawn")
    /\ UNCHANGED <<record, files, lock, guardian, procs, pass, world>>

\* custody::launch finds its caller cancelled: nothing will be spawned.
LaunchCancelled(a) ==
    /\ launcher[a] = "prepare"
    /\ reservation' = [reservation EXCEPT ![a].state = "NeverSpawned",
                                          ![a].bound = TRUE, ![a].unresolved = FALSE]
    /\ launcher' = Moved(launcher, a, "refused_exit")
    /\ UNCHANGED <<record, files, lock, guardian, procs, pass, world>>

LaunchRefusedExit(a) ==
    /\ launcher[a] = "refused_exit"
    /\ exit' = [exit EXCEPT ![a] = "never_spawned"]
    /\ launcher' = Moved(launcher, a, "ended")
    /\ lock' = Dropped({Launcher(a)})
    /\ UNCHANGED <<record, reservation, summary, journal, cancel, named, intent,
                   guardian, procs, pass, world>>

\* handoff::spawn: the guardian inherits the flock.
SpawnGuardian(a) ==
    /\ launcher[a] = "spawn"
    /\ guardian' = Moved(guardian, a, "adopt")
    /\ lock' = Taken(LockOf(a), Guardian(a))
    /\ launcher' = Moved(launcher, a, "await")
    /\ UNCHANGED <<record, reservation, files, procs, pass, world>>

\* The guardian answers, or does not in time, or could not be spawned: the
\* launcher drops its own lease and leaves the attempt to the guardian.
LeaveHandoff(a) ==
    /\ launcher[a] \in {"spawn", "await"}
    /\ launcher' = Moved(launcher, a, "ended")
    /\ lock' = Dropped({Launcher(a)})
    /\ UNCHANGED <<record, reservation, files, guardian, procs, pass, world>>

\* withdraw(expected Starting) seals, then commits.
LauncherWithdraws(a) ==
    /\ launcher[a] = "withdraw"
    /\ IF Withdrawable(a, "starting")
       THEN /\ Sealed(a, "starting")
            /\ launcher' = Moved(launcher, a, "sealed")
       ELSE /\ launcher' = Moved(launcher, a, "ended")
            /\ UNCHANGED intent
    /\ UNCHANGED <<record, reservation, summary, exit, journal, cancel, named,
                   lock, guardian, procs, pass, world>>

LauncherCommits(a) ==
    /\ launcher[a] = "sealed"
    /\ Withdrawn(a)
    /\ launcher' = Moved(launcher, a, "ended")
    /\ UNCHANGED <<reservation, files, lock, guardian, procs, pass, world>>
-----------------------------------------------------------------------------
(* The guardian and the processes under it *)

GuardianMoves(a, from, to) ==
    /\ guardian[a] = from
    /\ guardian' = Moved(guardian, a, to)

\* supervise: the reservation must name no guardian and be of this boot; the
\* guardian's identity is durable before the launch summary.
Adopt(a) ==
    /\ GuardianMoves(a, "adopt", "summary")
    /\ reservation[a] # None
    /\ ~reservation[a].guardian
    /\ reservation[a].boot = boot
    /\ reservation' = [reservation EXCEPT ![a].guardian = TRUE]
    /\ UNCHANGED <<record, files, lock, launcher, procs, pass, world>>

Summarise(a) ==
    /\ GuardianMoves(a, "summary", "admit")
    /\ summary' = [summary EXCEPT ![a] = TRUE]
    /\ UNCHANGED <<record, reservation, exit, journal, cancel, named, intent,
                   lock, launcher, procs, pass, world>>

\* claim_observed: only a starting attempt becomes running, in one transaction.
Admit(a) ==
    /\ GuardianMoves(a, "admit", "spawn")
    /\ ~cancel[a]
    /\ record[a] = "starting"
    /\ record' = [record EXCEPT ![a] = "running"]
    /\ UNCHANGED <<reservation, files, lock, launcher, procs, pass, world>>

\* Admission refused (cancelled, withdrawn, no capacity in time), or the
\* provider could not be spawned: the reservation says so before the exit does.
RefuseLaunch(a) ==
    /\ \E from \in {"admit", "spawn"} : GuardianMoves(a, from, "refused_exit")
    /\ reservation' = [reservation EXCEPT ![a].state = "NeverSpawned",
                                          ![a].unresolved = FALSE]
    /\ UNCHANGED <<record, files, lock, launcher, procs, pass, world>>

RefusedExit(a) ==
    /\ GuardianMoves(a, "refused_exit", "release")
    /\ exit' = [exit EXCEPT ![a] = "never_spawned"]
    /\ UNCHANGED <<record, reservation, summary, journal, cancel, named, intent,
                   lock, launcher, procs, pass, world>>

\* The flock is closed on exec.
MutSpawnProvider(a) ==
    /\ GuardianMoves(a, "spawn", "watch")
    /\ provider' = [provider EXCEPT ![a] = "live"]
    /\ reservation' = [reservation EXCEPT ![a].state = "Spawned"]
    /\ UNCHANGED <<record, files, lock, launcher, orphan, pass, world>>

\* The provider inherits the flock.  Recording it as Spawned may fail, which is
\* only a warning.
SpawnProvider(a) ==
    /\ GuardianMoves(a, "spawn", "watch")
    /\ provider' = [provider EXCEPT ![a] = "live"]
    /\ lock' = Taken(LockOf(a), Provider(a))
    /\ \E recorded \in BOOLEAN :
        reservation' = IF recorded
                       THEN [reservation EXCEPT ![a].state = "Spawned"]
                       ELSE reservation
    /\ UNCHANGED <<record, files, launcher, orphan, pass, world>>

\* process.json with both identities.
Journal(a) ==
    /\ guardian[a] = "watch"
    /\ journal[a] = 0
    /\ journal' = [journal EXCEPT ![a] = boot]
    /\ UNCHANGED <<record, reservation, summary, exit, cancel, named, intent,
                   lock, launcher, guardian, procs, pass, world>>

Fork(a) ==
    /\ provider[a] = "live"
    /\ orphan[a] = "none"
    /\ orphan' = [orphan EXCEPT ![a] = "live"]
    /\ lock' = Taken(LockOf(a), Orphan(a))
    /\ UNCHANGED <<record, reservation, files, launcher, guardian, provider, pass,
                   world>>

\* A descendant closes the descriptors it inherited.
Detach(a) ==
    /\ orphan[a] = "live"
    /\ Orphan(a) \in lock[LockOf(a)]
    /\ lock' = Dropped({Orphan(a)})
    /\ UNCHANGED <<record, reservation, files, launcher, guardian, procs, pass,
                   world>>

ProviderExits(a) ==
    /\ provider[a] = "live"
    /\ provider' = [provider EXCEPT ![a] = "gone"]
    /\ lock' = Dropped({Provider(a)})
    /\ UNCHANGED <<record, reservation, files, launcher, guardian, orphan, pass,
                   world>>

OrphanGone(a) == [orphan EXCEPT ![a] = "gone"]

OrphanExits(a) ==
    /\ orphan[a] = "live"
    /\ orphan' = OrphanGone(a)
    /\ lock' = Dropped({Orphan(a)})
    /\ UNCHANGED <<record, reservation, files, launcher, guardian, provider, pass,
                   world>>

\* What cleanup may report: the tree is resolved only by a complete census and a
\* fresh lease, which find nobody left; either may fail although nobody is.
CleanupLeft(a) == {unresolved \in BOOLEAN : orphan[a] = "live" => unresolved}

\* The provider exited and cleanup ended: the reservation says how.
CleanUp(a) ==
    /\ GuardianMoves(a, "watch", "publish")
    /\ provider[a] = "gone"
    /\ \E unresolved \in CleanupLeft(a) :
        reservation' = [reservation EXCEPT ![a].state = "Spawned",
                                           ![a].unresolved = unresolved]
    /\ UNCHANGED <<record, files, lock, launcher, procs, pass, world>>

\* An unresolved exit names the first 16 tracked descendants: nobody, some that
\* are gone or were never the one that lives, or that one.
Nameable(a) == {"nobody", "others"} \cup (IF orphan[a] = "live" THEN {"orphan"} ELSE {})

PublishExit(a) ==
    /\ guardian[a] = "publish"
    /\ IF reservation[a].unresolved
       THEN /\ exit' = [exit EXCEPT ![a] = "unresolved"]
            /\ \E who \in Nameable(a) : named' = [named EXCEPT ![a] = who]
            /\ guardian' = Moved(guardian, a, "linger")
       ELSE /\ exit' = [exit EXCEPT ![a] = "settled"]
            /\ guardian' = Moved(guardian, a, "release")
            /\ UNCHANGED named
    /\ UNCHANGED <<record, reservation, summary, journal, cancel, intent, lock,
                   launcher, procs, pass, world>>

\* republish_settled: the reservation first, then the exit.
Resettle(a) ==
    /\ GuardianMoves(a, "linger", "republish")
    /\ orphan[a] # "live"
    /\ reservation' = [reservation EXCEPT ![a].unresolved = FALSE]
    /\ UNCHANGED <<record, files, lock, launcher, procs, pass, world>>

Republish(a) ==
    /\ GuardianMoves(a, "republish", "release")
    /\ exit' = [exit EXCEPT ![a] = "settled"]
    /\ named' = [named EXCEPT ![a] = "nobody"]
    /\ UNCHANGED <<record, reservation, summary, journal, cancel, intent, lock,
                   launcher, procs, pass, world>>

\* Driver::release: Settling is durable, then a reader's flock is let go.
Release(a) ==
    /\ GuardianMoves(a, "release", "terminal")
    /\ reservation' = [reservation EXCEPT ![a].state = "Settling"]
    /\ lock' = IF a \in Readers THEN Dropped({Guardian(a)}) ELSE lock
    /\ UNCHANGED <<record, files, launcher, procs, pass, world>>

\* The exit's own word is stored as the outcome.
MutFinished(a) ==
    record' = [record EXCEPT ![a] = IF @ \in Terminal THEN @ ELSE exit[a]]

\* finish_in_custody: a terminal attempt stays as it is, a sealed withdrawal is
\* replayed as itself, and only an attempt without one gets its outcome.
Finished(a) ==
    IF record[a] \in Terminal \/ intent[a] = "none"
    THEN record' = [record EXCEPT ![a] = IF @ \in Terminal THEN @ ELSE "finished"]
    ELSE Withdrawn(a)

\* A failed commit is ignored.
MutTerminalCommit(a) ==
    /\ GuardianMoves(a, "terminal", "clear")
    /\ UNCHANGED <<record, reservation, files, lock, launcher, procs, pass, world>>

\* A Conflict with a sealed withdrawal is retried until ReleaseFails.
TerminalCommit(a) ==
    /\ GuardianMoves(a, "terminal", "clear")
    /\ ~Conflict(a)
    /\ Finished(a)
    /\ UNCHANGED <<reservation, files, lock, launcher, procs, pass, world>>

\* clear_settled_reservation: a reader takes its flock again for it.
ClearSettled(a) ==
    /\ GuardianMoves(a, "clear", "ended")
    /\ a \in Readers => Free(a) /\ reservation[a] # None
    /\ reservation' = NoReservation(a)
    /\ lock' = Dropped({Guardian(a)})
    /\ UNCHANGED <<record, files, launcher, procs, pass, world>>

\* The retry schedule runs out, or the reader's flock is taken: the reservation
\* stays for reconcile.
ReleaseFails(a) ==
    /\ guardian[a] \in {"terminal", "clear"}
    /\ guardian' = Moved(guardian, a, "ended")
    /\ lock' = Dropped({Guardian(a)})
    /\ UNCHANGED <<record, reservation, files, launcher, procs, pass, world>>
-----------------------------------------------------------------------------
(* Reconcile *)

At(p, step) == pass[p].at = step
PassTo(p, step) == pass' = [pass EXCEPT ![p].at = step]
PassEnds(p) ==
    /\ pass' = [pass EXCEPT ![p] = Idle]
    /\ lock' = Dropped({Pass(p)})

\* A pass takes up an attempt that was launched, or still has a reservation.
Look(p, a) ==
    /\ At(p, "idle")
    /\ record[a] \notin {"none", "queued"}
    /\ record[a] \in Terminal => reservation[a] # None
    /\ pass' = [pass EXCEPT ![p] = [at |-> "look", of |-> a]]
    /\ UNCHANGED <<record, reservation, files, lock, launcher, guardian, procs, world>>

\* Nothing can be proved now: the pass reports Held, Escaped or an uncertainty.
Uncertain(p) ==
    /\ pass[p].at \in {"look", "holderless"}
    /\ PassEnds(p)
    /\ UNCHANGED <<record, reservation, files, launcher, guardian, procs, world>>

\* The pass takes writer exclusion over the attempt and goes on.
Holding(p, a, step) ==
    /\ Recoverable(a)
    /\ lock' = Taken(LockOf(a), Pass(p))
    /\ PassTo(p, step)
    /\ UNCHANGED <<record, reservation, files, launcher, guardian, procs, world>>

\* needs_lost_settlement: not terminal, or lost without an exit.
NeedsLost(a) == record[a] \notin Terminal \/ record[a] = "lost"

\* settle_rebooted, for an attempt that left no durable exit.
SettleRebooted(p, a) ==
    /\ At(p, "look")
    /\ NeedsLost(a)
    /\ exit[a] = "absent"
    /\ Holding(p, a, "lose")
    /\ RebootProved(a)

\* settle_rebooted, for a terminal attempt whose reservation is left.
SettleRebootedTerminal(p, a) ==
    /\ At(p, "look")
    /\ record[a] \in {"finished", "withdrawn"}
    /\ Holding(p, a, "settle")
    /\ RebootProved(a)

\* The launch summary exists, the exit does not, and the guardian is not known
\* to live: settle_holderless' first look, without exclusion.
HolderlessLook(p, a) ==
    /\ At(p, "look")
    /\ record[a] \notin Terminal
    /\ summary[a]
    /\ exit[a] = "absent"
    /\ ~(journal[a] = boot /\ GuardianLives(a))
    /\ HolderGone(a)
    /\ PassTo(p, "holderless")
    /\ UNCHANGED <<record, reservation, files, lock, launcher, guardian, procs, world>>

\* The exit is not read again under exclusion.
MutSettleHolderless(p, a) ==
    /\ At(p, "holderless")
    /\ Holding(p, a, "lose")
    /\ HolderGone(a)
    /\ Absent(a)

\* "Both proofs must still hold under exclusion."
SettleHolderless(p, a) ==
    /\ At(p, "holderless")
    /\ Holding(p, a, "lose")
    /\ exit[a] = "absent"
    /\ HolderGone(a)
    /\ Absent(a)

\* settle_never_spawned_writer
SettleNeverSpawned(p, a) ==
    /\ At(p, "look")
    /\ a \in Writers
    /\ NeedsLost(a)
    /\ record[a] = "lost" \/ ~summary[a]
    /\ exit[a] = "absent"
    /\ Holding(p, a, "lose")
    /\ reservation[a].state = "NeverSpawned"
    /\ reservation[a].bound
    /\ Absent(a)

\* commit_lost, which leaves a terminal record as it is and replays a sealed
\* withdrawal as itself.  The fence is not released after a Conflict.
CommitLost(p, a) ==
    /\ At(p, "lose")
    /\ IF record[a] \in Terminal \/ intent[a] = "none"
       THEN record' = [record EXCEPT ![a] = IF @ \in Terminal THEN @ ELSE "lost"]
       ELSE Withdrawn(a)
    /\ IF Conflict(a)
       THEN PassEnds(p)
       ELSE PassTo(p, "release") /\ UNCHANGED lock
    /\ UNCHANGED <<reservation, files, launcher, guardian, procs, world>>

\* release_lost, RebootRecovery::release and Recovery::settle end alike.
ReleaseFence(p, a) ==
    /\ At(p, "release")
    /\ reservation' = NoReservation(a)
    /\ PassEnds(p)
    /\ UNCHANGED <<record, files, launcher, guardian, procs, world>>

\* withdraw_prepared_writer: a reservation no handoff followed.  Its exclusion
\* ends with the reservation, before the record is withdrawn.
WithdrawPrepared(p, a) ==
    /\ At(p, "look")
    /\ a \in Writers
    /\ record[a] \in {"starting", "withdrawn"}
    /\ ~summary[a]
    /\ Recoverable(a)
    /\ reservation[a].state = "Prepared"
    /\ reservation' = NoReservation(a)
    /\ PassTo(p, "withdraw")
    /\ UNCHANGED <<record, files, lock, launcher, guardian, procs, world>>

\* prove_unreserved holds the lock of the attempt directory, which for a writer
\* is not the lock its launcher reserves under.
ProveUnreserved(p, a) ==
    /\ At(p, "look")
    /\ record[a] = "starting"
    /\ ~summary[a]
    /\ exit[a] = "absent"
    /\ reservation[a] = None
    /\ Free(a)
    /\ lock' = Taken(a, Pass(p))
    /\ PassTo(p, "withdraw")
    /\ UNCHANGED <<record, reservation, files, launcher, guardian, procs, world>>

\* A reader's reservation that proves nothing runs: its exclusion is held, and
\* the reservation stays.
ProveReaderAbsent(p, a) ==
    /\ At(p, "look")
    /\ a \in Readers
    /\ record[a] = "starting"
    /\ ~summary[a]
    /\ exit[a] = "absent"
    /\ Holding(p, a, "withdraw")
    /\ Absent(a)

PassWithdraws(p, a) ==
    /\ At(p, "withdraw")
    /\ IF Withdrawable(a, "starting")
       THEN Sealed(a, "starting") /\ PassTo(p, "sealed") /\ UNCHANGED lock
       ELSE PassEnds(p) /\ UNCHANGED intent
    /\ UNCHANGED <<record, reservation, summary, exit, journal, cancel, named,
                   launcher, guardian, procs, world>>

PassCommits(p, a) ==
    /\ At(p, "sealed")
    /\ Withdrawn(a)
    /\ PassEnds(p)
    /\ UNCHANGED <<reservation, files, launcher, guardian, procs, world>>

\* Only an unresolved exit that names somebody is swept.  The finish of one that
\* names nobody is refused, in every pass ("exit/cleanup evidence is unresolved").
Sweepable(a) ==
    /\ record[a] \notin Terminal
    /\ summary[a]
    /\ exit[a] = "unresolved"
    /\ named[a] # "nobody"

\* end_orphans, its guardian gone, goes through the names in the exit and
\* nobody else: those proven to be descendants have been ended, or one of them
\* cannot be told.  The reservation is resolved first.
EndOrphans(p, a) ==
    /\ At(p, "look")
    /\ Sweepable(a)
    /\ Recoverable(a)
    /\ reservation[a].boot # boot \/ ~GuardianLives(a)
    /\ \/ /\ PassTo(p, "swept")
          /\ orphan' = IF named[a] = "orphan" THEN OrphanGone(a) ELSE orphan
       \/ /\ reservation[a].boot = boot
          /\ PassTo(p, "unproven")
          /\ UNCHANGED orphan
    /\ lock' = Taken(LockOf(a), Pass(p))
    /\ reservation' = [reservation EXCEPT ![a].unresolved = FALSE]
    /\ UNCHANGED <<record, files, launcher, guardian, provider, world>>

\* OrphansEnded, or LeftoverNotProven when a name was unproven.
SweptExit(p, a) ==
    /\ pass[p].at \in {"swept", "unproven"}
    /\ exit' = [exit EXCEPT ![a] = IF At(p, "swept") THEN "swept" ELSE "leftover"]
    /\ PassEnds(p)
    /\ UNCHANGED <<record, reservation, summary, journal, cancel, named, intent,
                   launcher, guardian, procs, world>>

\* Only what the guardian itself began to settle is finished.
MutFinishWriter(p, a) ==
    /\ At(p, "look")
    /\ a \in Writers
    /\ record[a] \notin Terminal
    /\ summary[a]
    /\ exit[a] \in Final
    /\ Holding(p, a, "finish")
    /\ reservation[a].state = "Settling"

\* finish for a writer: writer exclusion and a proof of absence come first.
FinishWriter(p, a) ==
    /\ At(p, "look")
    /\ a \in Writers
    /\ record[a] \notin Terminal
    /\ summary[a]
    /\ exit[a] \in Final
    /\ Holding(p, a, "finish")
    /\ Absent(a)

\* finish for a reader takes no exclusion.
FinishReader(p, a) ==
    /\ At(p, "look")
    /\ a \in Readers
    /\ record[a] \notin Terminal
    /\ summary[a]
    /\ exit[a] \in Final
    /\ PassTo(p, "finish_reader")
    /\ UNCHANGED <<record, reservation, files, lock, launcher, guardian, procs,
                   world>>

\* finish_recovered_terminal: a finished attempt whose reservation was left.
FinishTerminal(p, a) ==
    /\ At(p, "look")
    /\ record[a] = "finished"
    /\ summary[a]
    /\ Holding(p, a, "finish")
    /\ Absent(a)

CommitFinish(p, a) ==
    /\ At(p, "finish")
    /\ ~Conflict(a)
    /\ Finished(a)
    /\ PassTo(p, "settle")
    /\ UNCHANGED <<reservation, files, lock, launcher, guardian, procs, world>>

CommitReader(p, a) ==
    /\ At(p, "finish_reader")
    /\ ~Conflict(a)
    /\ Finished(a)
    /\ PassEnds(p)
    /\ UNCHANGED <<reservation, files, launcher, guardian, procs, world>>

\* A finish fails in the import (WriterSettlement), or on a Conflict with a
\* sealed withdrawal.
FinishFails(p, a) ==
    /\ pass[p].at \in {"finish", "finish_reader"}
    /\ record[a] \notin Terminal
    /\ PassEnds(p)
    /\ UNCHANGED <<record, reservation, files, launcher, guardian, procs, world>>

\* settle_recovered: release.json, then the reservation goes.
SettleRecovered(p, a) ==
    /\ At(p, "settle")
    /\ reservation' = NoReservation(a)
    /\ PassEnds(p)
    /\ UNCHANGED <<record, files, launcher, guardian, procs, world>>

\* What a look can decide, and the steps that carry a decision out.
Decide(p, a) ==
    \/ SettleRebooted(p, a) \/ SettleRebootedTerminal(p, a)
    \/ SettleNeverSpawned(p, a) \/ WithdrawPrepared(p, a)
    \/ ProveUnreserved(p, a) \/ ProveReaderAbsent(p, a) \/ EndOrphans(p, a)
    \/ FinishWriter(p, a) \/ FinishReader(p, a) \/ FinishTerminal(p, a)

CarryOut(p, a) ==
    \/ CommitLost(p, a) \/ ReleaseFence(p, a) \/ PassWithdraws(p, a)
    \/ PassCommits(p, a) \/ SweptExit(p, a) \/ CommitFinish(p, a)
    \/ CommitReader(p, a) \/ FinishFails(p, a) \/ SettleRecovered(p, a)

Reconcile(p, a) ==
    \/ Look(p, a)
    \/ /\ pass[p].of = a
       /\ \/ Decide(p, a) \/ CarryOut(p, a)
          \/ HolderlessLook(p, a) \/ SettleHolderless(p, a)
-----------------------------------------------------------------------------
(* The people and the host *)

\* Cancelling queued work, or refusing it in preparation, withdraws it: the
\* decision is sealed, then committed.  A start may come between.
WithdrawQueued(a) ==
    /\ Withdrawable(a, "queued")
    /\ intent[a] = "none"
    /\ Sealed(a, "queued")
    /\ UNCHANGED <<record, reservation, summary, exit, journal, cancel, named,
                   lock, launcher, guardian, procs, pass, world>>

CommitQueued(a) ==
    /\ record[a] = "queued"
    /\ intent[a] = "queued"
    /\ Withdrawn(a)
    /\ UNCHANGED <<reservation, files, lock, launcher, guardian, procs, pass, world>>

\* cancel of started work is a stop request.
Cancel(a) ==
    /\ record[a] \in {"starting", "running"}
    /\ ~cancel[a]
    /\ cancel' = [cancel EXCEPT ![a] = TRUE]
    /\ UNCHANGED <<record, reservation, summary, exit, journal, named, intent,
                   lock, launcher, guardian, procs, pass, world>>

Died == deaths < MaxDeaths /\ deaths' = deaths + 1

LauncherDies(a) ==
    /\ launcher[a] \notin {"idle", "ended"}
    /\ Died
    /\ launcher' = Moved(launcher, a, "ended")
    /\ lock' = Dropped({Launcher(a)})
    /\ UNCHANGED <<record, reservation, files, guardian, procs, pass, boot>>

GuardianDies(a) ==
    /\ GuardianLives(a)
    /\ Died
    /\ guardian' = Moved(guardian, a, "ended")
    /\ lock' = Dropped({Guardian(a)})
    /\ UNCHANGED <<record, reservation, files, launcher, procs, pass, boot>>

PassDies(p) ==
    /\ ~At(p, "idle")
    /\ Died
    /\ PassEnds(p)
    /\ UNCHANGED <<record, reservation, files, launcher, guardian, procs, boot>>

Ended(steps, before) ==
    [a \in Attempts |-> IF steps[a] = before THEN steps[a] ELSE "ended"]
Killed(process) == [a \in Attempts |-> IF process[a] = "live" THEN "gone" ELSE process[a]]

Reboot ==
    /\ boot < MaxBoots
    /\ boot' = boot + 1
    /\ lock' = [l \in Locks |-> {}]
    /\ launcher' = Ended(launcher, "idle")
    /\ guardian' = Ended(guardian, "none")
    /\ provider' = Killed(provider)
    /\ orphan' = Killed(orphan)
    /\ pass' = [p \in Passes |-> Idle]
    /\ UNCHANGED <<record, reservation, files, deaths>>

LauncherStep(a) ==
    \/ MarkStarting(a) \/ Reserve(a) \/ ReserveBusy(a) \/ Recheck(a)
    \/ PrepareFails(a) \/ Launch(a) \/ LaunchCancelled(a) \/ LaunchRefusedExit(a)
    \/ SpawnGuardian(a) \/ LeaveHandoff(a) \/ LauncherWithdraws(a)
    \/ LauncherCommits(a)

GuardianStep(a) ==
    \/ Adopt(a) \/ Summarise(a) \/ Admit(a) \/ RefuseLaunch(a) \/ RefusedExit(a)
    \/ SpawnProvider(a) \/ Journal(a) \/ CleanUp(a) \/ PublishExit(a)
    \/ Resettle(a) \/ Republish(a) \/ Release(a) \/ TerminalCommit(a)
    \/ ClearSettled(a) \/ ReleaseFails(a)

ProviderStep(a) == Fork(a) \/ Detach(a) \/ ProviderExits(a) \/ OrphanExits(a)

Next ==
    \/ \E a \in Attempts :
        \/ LauncherStep(a) \/ GuardianStep(a) \/ ProviderStep(a)
        \/ WithdrawQueued(a) \/ CommitQueued(a) \/ Cancel(a)
        \/ LauncherDies(a) \/ GuardianDies(a)
        \/ \E p \in Passes : Reconcile(p, a)
    \/ \E p \in Passes : Uncertain(p) \/ PassDies(p)
    \/ Reboot

Spec == Init /\ [][Next]_vars

\* A process that lives goes on.  A person asks for reconcile again and again
\* (background passes stop after three failures, explicit ones are always
\* taken), every pass ends, and what it can decide does not stay undecided.
Fairness ==
    /\ \A a \in Attempts :
        /\ WF_vars(LauncherStep(a) /\ launcher[a] # "idle")
        /\ WF_vars(GuardianStep(a))
    /\ \A p \in Explicit, a \in Attempts :
        /\ SF_vars(Look(p, a))
        /\ SF_vars(pass[p].of = a /\ Decide(p, a))
    /\ \A p \in Passes :
        WF_vars(Uncertain(p) \/ \E a \in Attempts : pass[p].of = a /\ CarryOut(p, a))

FairSpec == Spec /\ Fairness
-----------------------------------------------------------------------------
(* Correctness *)

\* OneWriter: providers of two writers of one worktree never run at once,
\* whatever launchers, guardians and passes died before: the flock every
\* process of the first inherited keeps the second from being reserved
\* (custody.rs: "The flock is inherited by the provider and its descendants").
OneWriter ==
    \A a, b \in Writers :
        provider[a] = "live" /\ provider[b] = "live" => a = b

\* WithdrawnNeverRuns: an attempt whose record says withdrawn never had a
\* provider, although reconcile proves "unreserved" under another lock than
\* the one a writer's launcher takes.
WithdrawnNeverRuns ==
    \A a \in Attempts : record[a] = "withdrawn" => provider[a] = "none"

\* EndedMeansGone: nothing of an attempt that was lost without an exit, or whose
\* exit carries the guardian's own proof, still runs, not even a descendant
\* that gave up the flock (settle_holderless and settle_rebooted prove absence
\* before commit_lost, the guardian before it publishes).  After a sweep the
\* provider is gone and whatever lives has given up the flock; a sweep that
\* says OrphansEnded leaves only descendants the exit did not name.
EndedMeansGone ==
    \A a \in Attempts :
        /\ record[a] = "lost" \/ exit[a] = "settled"
            => provider[a] # "live" /\ orphan[a] # "live"
        /\ exit[a] \in {"swept", "leftover"}
            => provider[a] # "live" /\ Orphan(a) \notin lock[LockOf(a)]
        /\ exit[a] = "swept" /\ orphan[a] = "live" => named[a] # "orphan"

\* NoExitIsLost: an attempt is committed as lost only while it left no durable
\* exit; an outcome that was published is never overruled.
NoExitIsLost ==
    [][\A a \in Attempts :
        record[a] # "lost" /\ record'[a] = "lost" => exit[a] = "absent"]_vars

\* FenceOutlivesRun: a reservation that was handed to a guardian is removed
\* only when the record is terminal and the provider is gone (the fence is
\* "cleared only after quiescence and run's terminal commit").  A descendant
\* that lives on does not hold the flock and was given up by a sweep: not named
\* by the exit, or not provable.
FenceOutlivesRun ==
    [][\A a \in Attempts :
        /\ reservation[a] # None
        /\ reservation[a].state # "Prepared"
        /\ reservation'[a] = None
        => /\ record[a] \in Terminal
           /\ provider[a] # "live"
           /\ orphan[a] = "live" =>
                /\ Orphan(a) \notin lock[LockOf(a)]
                /\ exit[a] \in {"swept", "leftover"}
                /\ exit[a] = "swept" => named[a] # "orphan"]_vars

\* Someone is committing the attempt's outcome.
Finishing(a) ==
    \/ guardian[a] = "terminal"
    \/ \E p \in Passes : pass[p].of = a /\ pass[p].at \in {"finish", "finish_reader"}

\* ExitIsPursued: a launched attempt whose exit is final is never forgotten.
\* Whoever died on the way, a finish is begun again and again until the record
\* is terminal; it can fail each time, in the import or on a Conflict with a
\* sealed withdrawal.
ExitIsPursued ==
    \A a \in Attempts :
        (summary[a] /\ exit[a] \in Final) ~> (record[a] \in Terminal \/ Finishing(a))

\* What a reconcile after a reboot can settle: a terminal attempt, one that left
\* no exit and no withdrawal of a state it has since left, and an unresolved
\* exit that names somebody.
Settleable(a) ==
    \/ record[a] \in Terminal
    \/ exit[a] = "absent" /\ intent[a] \in {"none", record[a]}
    \/ Sweepable(a)

\* RebootSettles: what another boot left bound to an attempt, and can be
\* settled, is: the record becomes terminal and the fence is removed, or the
\* exit becomes final for a finish to take up (settle_rebooted: a new boot ended
\* every process of the old one).
RebootSettles ==
    \A a \in Attempts :
        /\ reservation[a] # None
        /\ reservation[a].bound
        /\ reservation[a].boot # boot
        /\ Settleable(a)
        ~> (IF record[a] \in Terminal THEN reservation[a] = None ELSE exit[a] \in Final)
=============================================================================
