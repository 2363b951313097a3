------------------------ MODULE AttemptCustodyProofs ------------------------
(***************************************************************************)
(* Proofs about AttemptCustody, for any writers, readers and passes, and    *)
(* any number of early deaths and reboots.                                 *)
(*                                                                         *)
(* Two holders of one flock always are processes of one attempt, and a     *)
(* launcher, a guardian that may still spawn and a provider hold theirs:   *)
(* that alone keeps two writers apart.  What a pass may conclude under     *)
(* exclusion follows from what the reservation and the exit say about the  *)
(* processes, step by step of the launch and of the guardian.              *)
(***************************************************************************)
EXTENDS AttemptCustody, TLAPS

LauncherHolds == {"recheck", "prepare", "refused_exit", "spawn", "await"}
BeforeExit == {"adopt", "summary", "admit", "spawn", "refused_exit", "watch", "publish"}
Releasing == {"release", "terminal", "clear"}
Excluding == {"lose", "release", "swept", "unproven", "finish", "settle"}

\* Two processes that hold one flock belong to one attempt.
FlockInv ==
    \A l \in Locks : \A x, y \in lock[l] :
        x # y => x[1] # "pass" /\ y[1] # "pass" /\ x[2] = y[2]

\* Who holds the flock of an attempt: its launcher until the handoff, its
\* guardian while it may still act on the worktree, its provider; and a pass
\* that acts under exclusion.
Held(a) ==
    /\ launcher[a] \in LauncherHolds => Launcher(a) \in lock[LockOf(a)]
    /\ GuardianLives(a) /\ (a \in Readers => guardian[a] \notin {"terminal", "clear"})
        => Guardian(a) \in lock[LockOf(a)]
    /\ provider[a] = "live" => Provider(a) \in lock[LockOf(a)]

Excluded(p) == pass[p].at \in Excluding => Pass(p) \in lock[LockOf(pass[p].of)]

HeldInv ==
    /\ \A a \in Attempts : Held(a)
    /\ \A p \in Passes : Excluded(p)

\* Nothing of the attempt runs or will run.
Over(a) ==
    /\ launcher[a] = "ended"
    /\ guardian[a] \in Unlaunched
    /\ provider[a] # "live"
    /\ orphan[a] # "live"

\* Nothing of it runs, but for a descendant that a sweep did not see or gave up.
Quiet(a) ==
    /\ launcher[a] = "ended"
    /\ guardian[a] \in {"none", "terminal", "clear", "ended"}
    /\ provider[a] # "live"
    /\ orphan[a] = "live" => exit[a] \in {"swept", "leftover"}

\* The launch, before a guardian exists.
LaunchInv ==
    \A a \in Attempts :
        /\ launcher[a] \notin {"await", "ended"} => guardian[a] = "none" /\ exit[a] = "absent"
        /\ launcher[a] \in {"idle", "reserve", "withdraw", "sealed"} => reservation[a] = None
        /\ launcher[a] \in {"recheck", "prepare", "refused_exit", "spawn"} => reservation[a] # None
        /\ launcher[a] \in {"recheck", "prepare"} => reservation[a].state = "Prepared"
        /\ launcher[a] \in {"recheck", "prepare", "spawn"} => reservation[a].unresolved
        /\ launcher[a] = "refused_exit" => reservation[a].state = "NeverSpawned"
        /\ launcher[a] = "spawn" => reservation[a].state = "HandingOff"
        /\ guardian[a] = "none" => provider[a] = "none" /\ exit[a] \in {"absent", "never_spawned"}
        /\ guardian[a] = "none" /\ exit[a] = "never_spawned" => launcher[a] = "ended"
        /\ provider[a] = "none" => orphan[a] = "none"

\* The guardian's course.
GuardianInv ==
    \A a \in Attempts :
        /\ guardian[a] \in BeforeExit => exit[a] = "absent"
        /\ GuardianLives(a) /\ guardian[a] \notin {"terminal", "clear"} => reservation[a] # None
        /\ guardian[a] \in {"adopt", "summary", "admit", "spawn", "refused_exit"} => provider[a] = "none"
        /\ guardian[a] \in {"adopt", "summary", "admit", "spawn", "watch"} =>
            reservation[a].unresolved /\ reservation[a].state \in {"HandingOff", "Spawned"}
        /\ guardian[a] = "refused_exit" => reservation[a].state = "NeverSpawned"
        /\ guardian[a] \in {"publish", "linger", "republish"} =>
            provider[a] = "gone" /\ reservation[a].state = "Spawned"
        /\ guardian[a] \in {"linger", "republish"} => exit[a] = "unresolved"
        /\ guardian[a] \in {"republish"} \cup Releasing => orphan[a] # "live"
        /\ guardian[a] \in Releasing => provider[a] # "live" /\ exit[a] \in {"never_spawned", "settled"}
        /\ guardian[a] = "clear" => record[a] \in Terminal

\* What a reservation proves about processes.
EvidenceInv ==
    \A a \in Attempts : reservation[a] # None =>
        /\ reservation[a].state = "Prepared" => guardian[a] = "none"
        /\ reservation[a].state = "NeverSpawned" => provider[a] = "none"
        /\ reservation[a].state = "Settling" => provider[a] # "live" /\ orphan[a] # "live"
        /\ ~reservation[a].unresolved =>
            /\ provider[a] # "live"
            /\ exit[a] \notin {"unresolved", "swept", "leftover"} => orphan[a] # "live"
        /\ reservation[a].boot # boot => Over(a)

\* What an exit proves.
ExitInv ==
    \A a \in Attempts :
        /\ exit[a] = "never_spawned" => provider[a] = "none"
        /\ exit[a] \in {"unresolved", "settled", "swept", "leftover"} => provider[a] = "gone"
        /\ exit[a] = "settled" => orphan[a] # "live"
        /\ exit[a] \in {"swept", "leftover"} => Orphan(a) \notin lock[LockOf(a)]
        /\ exit[a] = "swept" /\ orphan[a] = "live" => named[a] # "orphan"

\* What a record proves.
RecordInv ==
    \A a \in Attempts :
        /\ record[a] \in {"none", "queued"} => launcher[a] = "idle"
        /\ guardian[a] = "spawn" \/ provider[a] # "none" => record[a] \in {"running", "finished", "lost"}
        /\ record[a] = "lost" => Over(a)
        /\ record[a] = "finished" => exit[a] \in Final

\* What a pass has proved when it acts.
PassInv ==
    \A p \in Passes :
        LET a == pass[p].of IN
        /\ pass[p].at # "idle" => a \in Attempts
        /\ pass[p].at \in {"lose", "release"} => Over(a)
        /\ pass[p].at = "lose" => exit[a] = "absent"
        /\ pass[p].at \in {"swept", "unproven"} =>
            launcher[a] = "ended" /\ guardian[a] = "ended" /\ exit[a] = "unresolved"
        /\ pass[p].at = "swept" /\ orphan[a] = "live" => named[a] # "orphan"
        /\ pass[p].at \in {"finish", "settle"} => Quiet(a)
        /\ pass[p].at \in {"finish", "finish_reader"} => exit[a] \in Final
        /\ pass[p].at \in {"release", "settle"} => record[a] \in Terminal

IInv ==
    /\ TypeOK
    /\ FlockInv
    /\ HeldInv
    /\ LaunchInv
    /\ GuardianInv
    /\ EvidenceInv
    /\ ExitInv
    /\ RecordInv
    /\ PassInv

-----------------------------------------------------------------------------
(* Names and locks *)

LEMMA LockOfType == \A a \in Attempts : a \in Locks /\ LockOf(a) \in Locks
BY DEF LockOf, Locks, Attempts, Worktree

LEMMA ProcessType ==
    /\ \A a \in Attempts : {Launcher(a), Guardian(a), Provider(a), Orphan(a)} \subseteq Processes
    /\ \A p \in Passes : Pass(p) \in Processes
BY DEF Launcher, Guardian, Provider, Orphan, Pass, Processes

\* No two processes share a name.
LEMMA ProcessNames ==
    /\ \A a, b : /\ Launcher(a) = Launcher(b) => a = b
                 /\ Guardian(a) = Guardian(b) => a = b
                 /\ Provider(a) = Provider(b) => a = b
                 /\ Orphan(a) = Orphan(b) => a = b
                 /\ Pass(a) = Pass(b) => a = b
                 /\ Launcher(a) \notin {Guardian(b), Provider(b), Orphan(b), Pass(b)}
                 /\ Guardian(a) \notin {Provider(b), Orphan(b), Pass(b)}
                 /\ Provider(a) \notin {Orphan(b), Pass(b)}
                 /\ Orphan(a) # Pass(b)
BY DEF Launcher, Guardian, Provider, Orphan, Pass

\* A free flock that is taken has one holder.
LEMMA TakeFlock ==
    ASSUME TypeOK, FlockInv, NEW l \in Locks, NEW x \in Processes, Free(l), lock' = Taken(l, x)
    PROVE  FlockInv'
BY DEF TypeOK, FlockInv, Free, Taken

\* A process of the attempt that holds a flock may join its holders.
LEMMA JoinFlock ==
    ASSUME TypeOK, FlockInv, NEW l \in Locks, NEW x \in Processes, NEW y \in lock[l],
           x[1] # "pass", y[1] # "pass", x[2] = y[2], lock' = Taken(l, x)
    PROVE  FlockInv'
BY DEF TypeOK, FlockInv, Taken

LEMMA DropFlock ==
    ASSUME TypeOK, FlockInv, NEW gone, lock' = Dropped(gone)
    PROVE  FlockInv'
BY DEF TypeOK, FlockInv, Dropped

\* A flock that loses holders is still held as before.
LEMMA FlockShrinks ==
    ASSUME FlockInv, \A l \in Locks : lock'[l] \subseteq lock[l]
    PROVE  FlockInv'
BY DEF FlockInv

\* Processes that go on and keep the flock hold it as before.
LEMMA HeldKept ==
    ASSUME NEW b \in Attempts, Held(b),
           launcher'[b] = launcher[b], guardian'[b] = guardian[b], provider'[b] = provider[b],
           \A x \in {Launcher(b), Guardian(b), Provider(b)} :
              x \in lock[LockOf(b)] => x \in lock'[LockOf(b)]
    PROVE  Held(b)'
BY DEF Held, GuardianLives

\* A pass that takes the exclusion changes the flock and its own step.
LEMMA HoldingTyped ==
    ASSUME TypeOK, NEW p \in Passes, NEW a \in Attempts, NEW step \in PassSteps,
           Holding(p, a, step)
    PROVE  TypeOK'
<1>1. pass' \in [Passes -> [at : PassSteps, of : Attempts \cup {None}]]
    BY DEF TypeOK, Holding, PassTo
<1>2. lock' \in [Locks -> SUBSET Processes]
    BY LockOfType, ProcessType DEF TypeOK, Holding, Taken
<1> QED
    BY <1>1, <1>2 DEF TypeOK, Holding, files, procs, world

\* A pass that ends leaves the others what they have proved.
LEMMA PassEndsInv ==
    ASSUME IInv, NEW p \in Passes, pass' = [pass EXCEPT ![p] = Idle],
           UNCHANGED <<exit, launcher, guardian, provider, orphan, named>>,
           \A b \in Attempts : record[b] \in Terminal => record'[b] \in Terminal
    PROVE  PassInv'
<1> SUFFICES ASSUME NEW q \in Passes
             PROVE  PassInv!(q)'
    BY DEF PassInv
<1>1. PassInv!(q)
    BY DEF IInv, PassInv
<1>2. pass'[q] = IF q = p THEN Idle ELSE pass[q]
    BY DEF IInv, TypeOK
<1>3. CASE q = p
    BY <1>2, <1>3 DEF Idle
<1>4. CASE q # p
    BY <1>1, <1>2, <1>4 DEF Over, Quiet
<1> QED
    BY <1>3, <1>4

-----------------------------------------------------------------------------
(* What a pass knows under exclusion *)

\* With the flock free over a reservation the launcher has ended, the provider
\* is not running, and only a reader's guardian may still be about to commit.
LEMMA FreeMeans ==
    ASSUME IInv, NEW a \in Attempts, Recoverable(a)
    PROVE  /\ launcher[a] = "ended"
           /\ guardian[a] \in {"none", "terminal", "clear", "ended"}
           /\ a \in Writers \/ exit[a] \in {"absent", "unresolved"} => guardian[a] \in Unlaunched
           /\ provider[a] # "live"
<1>1. Held(a) /\ lock[LockOf(a)] = {} /\ reservation[a] # None
    BY DEF IInv, HeldInv, Recoverable, Free
<1>2. launcher[a] = "ended"
    BY <1>1 DEF IInv, TypeOK, LauncherSteps, Held, LauncherHolds, LaunchInv
<1>3. /\ guardian[a] \in Unlaunched \cup {"terminal", "clear"}
      /\ a \in Writers => guardian[a] \in Unlaunched
    BY <1>1, CustodyAssumption DEF Held, GuardianLives
<1>4. guardian[a] \in {"terminal", "clear"} => exit[a] \notin {"absent", "unresolved"}
    BY DEF IInv, GuardianInv, Releasing
<1> QED
    BY <1>1, <1>2, <1>3, <1>4 DEF Held, Unlaunched

\* A proof of absence is one: nothing runs but what an exit gave up as unproven.
LEMMA AbsentMeans ==
    ASSUME IInv, NEW a \in Attempts, reservation[a] # None, Absent(a)
    PROVE  orphan[a] = "live" => exit[a] \in {"unresolved", "swept", "leftover"}
BY DEF IInv, EvidenceInv, LaunchInv, Over, Absent

\* Passes that act under exclusion act on different attempts.
LEMMA SolePass ==
    ASSUME IInv, NEW p \in Passes, NEW q \in Passes,
           pass[p].at \in Excluding, pass[q].at \in Excluding, pass[p].of = pass[q].of
    PROVE  p = q
<1>1. pass[p].of \in Attempts
    BY DEF IInv, PassInv, Excluding
<1>2. LockOf(pass[p].of) \in Locks
    BY <1>1, LockOfType
<1>3. Pass(p) \in lock[LockOf(pass[p].of)] /\ Pass(q) \in lock[LockOf(pass[p].of)]
    BY DEF IInv, HeldInv, Excluded
<1>4. Pass(p) = Pass(q)
    BY <1>2, <1>3 DEF IInv, FlockInv, Pass
<1> QED
    BY <1>4, ProcessNames

\* A pass that ends lets go of its flocks and nobody else's.
LEMMA PassEndsHeld ==
    ASSUME IInv, NEW p \in Passes, PassEnds(p), UNCHANGED <<launcher, guardian, provider>>
    PROVE  /\ FlockInv' /\ HeldInv'
           /\ lock' \in [Locks -> SUBSET Processes]
           /\ pass' = [pass EXCEPT ![p] = Idle]
           /\ pass' \in [Passes -> [at : PassSteps, of : Attempts \cup {None}]]
           /\ \A b \in Attempts :
                Orphan(b) \in lock'[LockOf(b)] => Orphan(b) \in lock[LockOf(b)]
<1> USE DEF IInv, PassEnds
<1>1. /\ lock' \in [Locks -> SUBSET Processes]
      /\ pass' \in [Passes -> [at : PassSteps, of : Attempts \cup {None}]]
    BY DEF TypeOK, Dropped, Idle, PassSteps
<1>2. FlockInv'
    BY DropFlock
<1>3. \A l \in Locks : /\ \A x \in lock[l] : x # Pass(p) => x \in lock'[l]
                       /\ lock'[l] \subseteq lock[l]
    BY DEF TypeOK, Dropped
<1>4. ASSUME NEW b \in Attempts PROVE Held(b)'
    <2>1. Held(b) /\ LockOf(b) \in Locks
        BY LockOfType DEF HeldInv
    <2> QED
        BY <1>3, <2>1, ProcessNames DEF Held, GuardianLives
<1>5. ASSUME NEW q \in Passes PROVE Excluded(q)'
    <2>1. Excluded(q) /\ (pass[q].at # "idle" => LockOf(pass[q].of) \in Locks)
        BY LockOfType DEF HeldInv, PassInv
    <2> QED
        BY <1>3, <2>1, ProcessNames DEF Excluded, TypeOK, Excluding, Idle
<1> QED
    BY <1>1, <1>2, <1>3, <1>4, <1>5, LockOfType DEF HeldInv

\* A pass that takes a flock changes nothing an exit proves.
LEMMA PassTakesExit ==
    ASSUME IInv, NEW p \in Passes, NEW l \in Locks, lock' = Taken(l, Pass(p)),
           UNCHANGED <<exit, provider, named>>,
           \A b \in Attempts : orphan'[b] \in {orphan[b], "gone"}
    PROVE  ExitInv'
<1>1. \A b \in Attempts : Orphan(b) \in lock'[LockOf(b)] => Orphan(b) \in lock[LockOf(b)]
    BY LockOfType, ProcessNames DEF IInv, TypeOK, Taken
<1> QED
    BY <1>1 DEF IInv, ExitInv

RecordStates == {"none", "queued", "starting", "running"} \cup Terminal

\* Committing or replaying a sealed withdrawal changes the record of an attempt
\* that has not run, or none.
LEMMA WithdrawnMeans ==
    ASSUME IInv, NEW a \in Attempts, Withdrawn(a)
    PROVE  /\ record' \in [Attempts -> RecordStates]
           /\ \A b \in Attempts : b # a => record'[b] = record[b]
           /\ \/ record'[a] = record[a]
              \/ record[a] \in {"none", "queued", "starting"} /\ record'[a] = "withdrawn"
           /\ ~Conflict(a) /\ intent[a] # "none" => record'[a] \in Terminal
<1> USE DEF IInv, TypeOK
<1>1. record'[a] = IF record[a] = intent[a] THEN "withdrawn" ELSE record[a]
    BY DEF Withdrawn
<1>2. intent[a] \in {"none", "queued", "starting"} /\ record[a] \in RecordStates
    BY DEF RecordStates
<1>3. /\ record' \in [Attempts -> RecordStates]
      /\ \A b \in Attempts : b # a => record'[b] = record[b]
    BY DEF Withdrawn, RecordStates, Terminal
<1> HIDE DEF IInv, TypeOK
<1>4. \/ record'[a] = record[a]
      \/ record[a] \in {"none", "queued", "starting"} /\ record'[a] = "withdrawn"
    <2>1. CASE record[a] = intent[a]
        BY <1>1, <1>2, <2>1 DEF RecordStates, Terminal
    <2>2. CASE record[a] # intent[a]
        BY <1>1, <2>2
    <2> QED
        BY <2>1, <2>2
<1>5. ~Conflict(a) /\ intent[a] # "none" => record'[a] \in Terminal
    BY <1>1, <1>2 DEF Conflict, Terminal
<1> QED
    BY <1>3, <1>4, <1>5

\* What a commit without a Conflict leaves in the record.
Committed(a, outcome) ==
    /\ record' \in [Attempts -> RecordStates]
    /\ \A b \in Attempts : b # a => record'[b] = record[b]
    /\ record'[a] \in Terminal
    /\ \/ record'[a] = record[a]
       \/ record'[a] = outcome
       \/ record[a] \in {"none", "queued", "starting"} /\ record'[a] = "withdrawn"

LEMMA FinishedMeans ==
    ASSUME IInv, NEW a \in Attempts, ~Conflict(a), Finished(a)
    PROVE  Committed(a, "finished")
<1>1. CASE record[a] \in Terminal \/ intent[a] = "none"
    BY <1>1 DEF IInv, TypeOK, Finished, Terminal, RecordStates, Committed
<1>2. CASE ~(record[a] \in Terminal \/ intent[a] = "none")
    BY <1>2, WithdrawnMeans DEF Finished, Committed
<1> QED
    BY <1>1, <1>2

\* The reservation of an attempt is rewritten, keeping its boot.
Amended(a, state, unresolved) ==
    /\ reservation[a] \in Reservations
    /\ reservation' \in [Attempts -> Reservations \cup {None}]
    /\ reservation'[a] # None
    /\ reservation'[a].state = state
    /\ reservation'[a].unresolved = unresolved
    /\ reservation'[a].boot = reservation[a].boot
    /\ \A b \in Attempts : b # a => reservation'[b] = reservation[b]

-----------------------------------------------------------------------------
LEMMA InitIInv ==
    ASSUME Init
    PROVE  IInv
<1> USE CustodyAssumption, NoneAssumption DEF Init
<1>1. TypeOK
    BY DEF TypeOK, Terminal, Exits, LauncherSteps, GuardianSteps, PassSteps, Idle
<1>2. FlockInv /\ HeldInv
    BY <1>1 DEF FlockInv, HeldInv, Held, Excluded, LauncherHolds, Excluding,
       GuardianLives, Unlaunched, Idle
<1>3. LaunchInv /\ GuardianInv /\ EvidenceInv /\ ExitInv
    BY <1>1 DEF LaunchInv, GuardianInv, BeforeExit, Releasing, EvidenceInv, ExitInv,
       GuardianLives, Unlaunched
<1>4. RecordInv /\ PassInv
    BY <1>1 DEF RecordInv, PassInv, Terminal, Idle
<1> QED
    BY <1>1, <1>2, <1>3, <1>4 DEF IInv

-----------------------------------------------------------------------------
(* One lemma per action *)

LEMMA MarkStartingIInv ==
    ASSUME IInv, NEW a \in Attempts, MarkStarting(a)
    PROVE  IInv'
<1> USE CustodyAssumption, NoneAssumption DEF IInv, MarkStarting, Moved, files, procs,
   world
<1>1. TypeOK'
    BY DEF TypeOK, LauncherSteps, Terminal
<1>2. FlockInv'
    BY DEF FlockInv
<1>3. HeldInv'
    BY LockOfType, ProcessNames DEF TypeOK, HeldInv, Held, Excluded, LauncherHolds,
       Excluding, GuardianLives, Unlaunched
<1>4. LaunchInv'
    BY DEF TypeOK, LaunchInv
<1>5. GuardianInv'
    BY <1>1 DEF TypeOK, GuardianInv, GuardianLives, Unlaunched, BeforeExit, Releasing,
       LaunchInv, ExitInv, RecordInv, Terminal, Final
<1>6. EvidenceInv'
    BY DEF TypeOK, EvidenceInv, Over, Unlaunched
<1>7. ExitInv'
    BY LockOfType, ProcessNames DEF TypeOK, ExitInv
<1>8. RecordInv'
    BY DEF TypeOK, RecordInv, Over, Unlaunched, Final, Terminal
<1>9. PassInv'
    BY DEF TypeOK, PassInv, Over, Quiet, Unlaunched, Final, Terminal
<1> QED
    BY <1>1, <1>2, <1>3, <1>4, <1>5, <1>6, <1>7, <1>8, <1>9

LEMMA ReserveIInv ==
    ASSUME IInv, NEW a \in Attempts, Reserve(a)
    PROVE  IInv'
<1> USE CustodyAssumption, NoneAssumption DEF IInv, Reserve, Free, Taken, Moved,
   files, procs, world
<1>1. TypeOK'
    BY LockOfType, ProcessType DEF TypeOK, LauncherSteps, Reservations, LaunchStates
<1>2. FlockInv'
    BY <1>1, LockOfType, ProcessType, TakeFlock
<1>3. HeldInv'
    BY LockOfType, ProcessNames DEF TypeOK, HeldInv, Held, Excluded, LauncherHolds,
       Excluding, GuardianLives, Unlaunched
<1>4. LaunchInv'
    <2> SUFFICES ASSUME NEW b \in Attempts
                 PROVE  LaunchInv!(b)'
        BY DEF LaunchInv
    <2>r. /\ reservation'[a] \in Reservations /\ reservation'[a].state = "Prepared"
          /\ reservation'[a].unresolved = TRUE
        BY DEF TypeOK, Reservations, LaunchStates
    <2>u. /\ launcher[a] = "reserve" /\ launcher'[a] = "recheck"
          /\ UNCHANGED <<exit, guardian, provider, orphan>>
        BY DEF TypeOK
    <2>n. reservation'[a] # None
        BY <2>r
    <2>1. CASE b = a
        <3>1. LaunchInv!(a)
            BY DEF LaunchInv
        <3> HIDE DEF Reserve, IInv
        <3> QED
            BY <2>1, <2>r, <2>u, <2>n, <3>1
    <2>2. CASE b # a
        BY <2>2, <2>r, <1>1 DEF TypeOK, LaunchInv
    <2> QED
        BY <2>1, <2>2
<1>5. GuardianInv'
    BY <1>1 DEF TypeOK, GuardianInv, GuardianLives, Unlaunched, BeforeExit, Releasing,
       LaunchInv, ExitInv, RecordInv, Terminal, Final
<1>6. EvidenceInv'
    BY <1>1 DEF TypeOK, EvidenceInv, Over, Unlaunched, LaunchInv, GuardianInv,
       GuardianLives, BeforeExit, Releasing, ExitInv
<1>7. ExitInv'
    BY LockOfType, ProcessNames DEF TypeOK, ExitInv
<1>8. RecordInv'
    BY DEF TypeOK, RecordInv, Over, Unlaunched, Final, Terminal
<1>9. PassInv'
    BY DEF TypeOK, PassInv, Over, Quiet, Unlaunched, Final, Terminal
<1> QED
    BY <1>1, <1>2, <1>3, <1>4, <1>5, <1>6, <1>7, <1>8, <1>9

LEMMA ReserveBusyIInv ==
    ASSUME IInv, NEW a \in Attempts, ReserveBusy(a)
    PROVE  IInv'
<1> USE CustodyAssumption, NoneAssumption DEF IInv, ReserveBusy, Free, Moved, files,
   procs, world
<1>1. TypeOK'
    BY DEF TypeOK, LauncherSteps
<1>2. FlockInv'
    BY DEF FlockInv
<1>3. HeldInv'
    BY LockOfType, ProcessNames DEF TypeOK, HeldInv, Held, Excluded, LauncherHolds,
       Excluding, GuardianLives, Unlaunched
<1>4. LaunchInv'
    BY DEF TypeOK, LaunchInv
<1>5. GuardianInv'
    BY DEF GuardianInv, GuardianLives
<1>6. EvidenceInv'
    BY DEF TypeOK, EvidenceInv, Over, Unlaunched
<1>7. ExitInv'
    BY LockOfType, ProcessNames DEF TypeOK, ExitInv
<1>8. RecordInv'
    BY DEF TypeOK, RecordInv, Over, Unlaunched, Final, Terminal
<1>9. PassInv'
    BY DEF TypeOK, PassInv, Over, Quiet, Unlaunched, Final, Terminal
<1> QED
    BY <1>1, <1>2, <1>3, <1>4, <1>5, <1>6, <1>7, <1>8, <1>9

LEMMA UnreserveIInv ==
    ASSUME IInv, NEW a \in Attempts, launcher[a] \in {"recheck", "prepare"}, Unreserve(a)
    PROVE  IInv'
<1> USE CustodyAssumption, NoneAssumption DEF IInv, Unreserve, Dropped, NoReservation,
   Moved, files, procs, world
<1>1. TypeOK'
    BY LockOfType, ProcessType DEF TypeOK, LauncherSteps, Reservations, LaunchStates
<1>2. FlockInv'
    <2>1. lock' = Dropped({Launcher(a)})
        OBVIOUS
    <2> HIDE DEF Unreserve, Dropped
    <2> QED
        BY <2>1, DropFlock
<1>3. HeldInv'
    <2>1. \A l \in Locks : \A x \in lock[l] : x # Launcher(a) => x \in lock'[l]
        BY DEF TypeOK
    <2>2. ASSUME NEW b \in Attempts PROVE Held(b)'
        <3>1. Held(b) /\ LockOf(b) \in Locks
            BY LockOfType DEF HeldInv
        <3>2. CASE b = a
            BY <2>1, <3>1, <3>2, ProcessNames DEF Held, TypeOK, LauncherHolds,
               GuardianLives, Unlaunched
        <3>3. CASE b # a
            <4>1. /\ launcher'[b] = launcher[b] /\ guardian'[b] = guardian[b]
                  /\ provider'[b] = provider[b]
                BY <3>3 DEF TypeOK
            <4>2. \A x \in {Launcher(b), Guardian(b), Provider(b)} :
                    x \in lock[LockOf(b)] => x \in lock'[LockOf(b)]
                BY <2>1, <3>1, <3>3, ProcessNames
            <4> QED
                BY <3>1, <4>1, <4>2, HeldKept
        <3> QED
            BY <3>2, <3>3
    <2>3. ASSUME NEW q \in Passes PROVE Excluded(q)'
        <3>1. Excluded(q) /\ (pass[q].at # "idle" => LockOf(pass[q].of) \in Locks)
            BY LockOfType DEF HeldInv, PassInv
        <3> QED
            BY <2>1, <3>1, ProcessNames DEF Excluded, TypeOK, Excluding, Idle
    <2> QED
        BY <2>2, <2>3 DEF HeldInv
<1>4. LaunchInv'
    BY DEF TypeOK, LaunchInv
<1>5. GuardianInv'
    BY <1>1 DEF TypeOK, GuardianInv, GuardianLives, Unlaunched, BeforeExit, Releasing,
       LaunchInv, ExitInv, RecordInv, Terminal, Final
<1>6. EvidenceInv'
    BY DEF TypeOK, EvidenceInv, Over, Unlaunched
<1>7. ExitInv'
    BY LockOfType, ProcessNames DEF TypeOK, ExitInv
<1>8. RecordInv'
    BY DEF TypeOK, RecordInv, Over, Unlaunched, Final, Terminal
<1>9. PassInv'
    BY DEF TypeOK, PassInv, Over, Quiet, Unlaunched, Final, Terminal
<1> QED
    BY <1>1, <1>2, <1>3, <1>4, <1>5, <1>6, <1>7, <1>8, <1>9

LEMMA RecheckIInv ==
    ASSUME IInv, NEW a \in Attempts, Recheck(a)
    PROVE  IInv'
<1>1. CASE record[a] # "starting"
    BY <1>1, UnreserveIInv DEF Recheck
<1>2. CASE record[a] = "starting"
    <2>1. /\ launcher[a] = "recheck" /\ launcher' = [launcher EXCEPT ![a] = "prepare"]
          /\ UNCHANGED <<record, reservation, files, lock, guardian, procs, pass, world>>
        BY <1>2 DEF Recheck, Moved
    <2> USE <2>1 DEF IInv, files, procs, world
    <2>2. TypeOK'
        BY DEF TypeOK, LauncherSteps
    <2>3. FlockInv' /\ HeldInv'
        BY DEF TypeOK, FlockInv, HeldInv, Held, Excluded, LauncherHolds, GuardianLives
    <2>4. LaunchInv' /\ GuardianInv' /\ ExitInv'
        BY DEF TypeOK, LaunchInv, GuardianInv, GuardianLives, ExitInv
    <2>5. EvidenceInv' /\ RecordInv' /\ PassInv'
        BY DEF TypeOK, EvidenceInv, RecordInv, PassInv, Over, Quiet
    <2> QED
        BY <2>2, <2>3, <2>4, <2>5
<1> QED
    BY <1>1, <1>2

LEMMA PrepareFailsIInv ==
    ASSUME IInv, NEW a \in Attempts, PrepareFails(a)
    PROVE  IInv'
BY UnreserveIInv DEF PrepareFails

LEMMA LaunchAmends ==
    ASSUME IInv, NEW a \in Attempts, Launch(a)
    PROVE  Amended(a, "HandingOff", reservation[a].unresolved)
<1>1. reservation[a] \in Reservations
    BY DEF IInv, TypeOK, LaunchInv, Launch
<1>2. reservation \in [Attempts -> Reservations \cup {None}]
    BY DEF IInv, TypeOK
<1>3. reservation' = [reservation EXCEPT ![a].state = "HandingOff", ![a].bound = TRUE]
    BY DEF Launch
<1>4. reservation' \in [Attempts -> Reservations \cup {None}] /\ reservation'[a] \in Reservations
    BY <1>1, <1>2, <1>3 DEF Reservations, LaunchStates
<1> QED
    BY <1>1, <1>2, <1>3, <1>4, NoneAssumption DEF Amended, Reservations

LEMMA LaunchIInv ==
    ASSUME IInv, NEW a \in Attempts, Launch(a)
    PROVE  IInv'
<1> USE CustodyAssumption, NoneAssumption DEF IInv, Launch, Moved, files, procs, world
<1>r. Amended(a, "HandingOff", reservation[a].unresolved)
    BY LaunchAmends
<1> USE DEF Amended
<1>1. TypeOK'
    BY <1>r, LockOfType, ProcessType DEF TypeOK, LauncherSteps, GuardianSteps, PassSteps
<1>2. FlockInv'
    BY DEF FlockInv
<1>3. HeldInv'
    BY <1>r, LockOfType, ProcessNames DEF TypeOK, HeldInv, Held, Excluded,
       LauncherHolds, Excluding, GuardianLives, Unlaunched
<1>4. LaunchInv'
    <2> SUFFICES ASSUME NEW b \in Attempts
                 PROVE  LaunchInv!(b)'
        BY DEF LaunchInv
    <2>1. CASE b = a
        BY <2>1, <1>r, <1>1 DEF TypeOK, LaunchInv
    <2>2. CASE b # a
        BY <2>2, <1>r, <1>1 DEF TypeOK, LaunchInv
    <2> QED
        BY <2>1, <2>2
<1>5. GuardianInv'
    BY <1>r, <1>1 DEF TypeOK, GuardianInv, GuardianLives, Unlaunched, BeforeExit,
       Releasing, LaunchInv, ExitInv, RecordInv, Terminal, Final
<1>6. EvidenceInv'
    BY <1>r DEF TypeOK, EvidenceInv, Over, Unlaunched
<1>7. ExitInv'
    BY LockOfType, ProcessNames DEF TypeOK, ExitInv
<1>8. RecordInv'
    BY <1>r DEF TypeOK, RecordInv, Over, Unlaunched, Final, Terminal
<1>9. PassInv'
    BY <1>r DEF TypeOK, PassInv, Over, Quiet, Unlaunched, Final, Terminal
<1> QED
    BY <1>1, <1>2, <1>3, <1>4, <1>5, <1>6, <1>7, <1>8, <1>9

LEMMA LaunchCancelledAmends ==
    ASSUME IInv, NEW a \in Attempts, LaunchCancelled(a)
    PROVE  Amended(a, "NeverSpawned", FALSE)
<1>1. reservation[a] \in Reservations
    BY DEF IInv, TypeOK, LaunchInv, LaunchCancelled
<1>2. reservation \in [Attempts -> Reservations \cup {None}]
    BY DEF IInv, TypeOK
<1>3. reservation' = [reservation EXCEPT ![a].state = "NeverSpawned",
                                       ![a].bound = TRUE, ![a].unresolved = FALSE]
    BY DEF LaunchCancelled
<1>4. reservation' \in [Attempts -> Reservations \cup {None}] /\ reservation'[a] \in Reservations
    BY <1>1, <1>2, <1>3 DEF Reservations, LaunchStates
<1> QED
    BY <1>1, <1>2, <1>3, <1>4, NoneAssumption DEF Amended, Reservations

LEMMA LaunchCancelledIInv ==
    ASSUME IInv, NEW a \in Attempts, LaunchCancelled(a)
    PROVE  IInv'
<1> USE CustodyAssumption, NoneAssumption DEF IInv, LaunchCancelled, Moved, files,
   procs, world
<1>r. Amended(a, "NeverSpawned", FALSE)
    BY LaunchCancelledAmends
<1> USE DEF Amended
<1>1. TypeOK'
    BY <1>r, LockOfType, ProcessType DEF TypeOK, LauncherSteps, GuardianSteps, PassSteps
<1>2. FlockInv'
    BY DEF FlockInv
<1>3. HeldInv'
    BY <1>r, LockOfType, ProcessNames DEF TypeOK, HeldInv, Held, Excluded,
       LauncherHolds, Excluding, GuardianLives, Unlaunched
<1>4. LaunchInv'
    <2> SUFFICES ASSUME NEW b \in Attempts
                 PROVE  LaunchInv!(b)'
        BY DEF LaunchInv
    <2>1. CASE b = a
        BY <2>1, <1>r, <1>1 DEF TypeOK, LaunchInv
    <2>2. CASE b # a
        BY <2>2, <1>r, <1>1 DEF TypeOK, LaunchInv
    <2> QED
        BY <2>1, <2>2
<1>5. GuardianInv'
    BY <1>r, <1>1 DEF TypeOK, GuardianInv, GuardianLives, Unlaunched, BeforeExit,
       Releasing, LaunchInv, ExitInv, RecordInv, Terminal, Final
<1>6. EvidenceInv'
    BY <1>r, <1>1 DEF TypeOK, EvidenceInv, Over, Unlaunched, LaunchInv, GuardianInv,
       GuardianLives, BeforeExit, Releasing, ExitInv
<1>7. ExitInv'
    BY LockOfType, ProcessNames DEF TypeOK, ExitInv
<1>8. RecordInv'
    BY <1>r DEF TypeOK, RecordInv, Over, Unlaunched, Final, Terminal
<1>9. PassInv'
    BY <1>r DEF TypeOK, PassInv, Over, Quiet, Unlaunched, Final, Terminal
<1> QED
    BY <1>1, <1>2, <1>3, <1>4, <1>5, <1>6, <1>7, <1>8, <1>9

LEMMA LaunchRefusedExitIInv ==
    ASSUME IInv, NEW a \in Attempts, LaunchRefusedExit(a)
    PROVE  IInv'
<1> USE CustodyAssumption, NoneAssumption DEF IInv, LaunchRefusedExit, Dropped, Moved,
   procs, world
<1>1. TypeOK'
    BY LockOfType, ProcessType DEF TypeOK, LauncherSteps, Exits, Final
<1>2. FlockInv'
    <2>1. \A l \in Locks : lock'[l] \subseteq lock[l]
        BY DEF TypeOK
    <2> QED
        BY <2>1, FlockShrinks
<1>3. HeldInv'
    <2>1. \A l \in Locks : \A x \in lock[l] : x # Launcher(a) => x \in lock'[l]
        BY DEF TypeOK
    <2>2. ASSUME NEW b \in Attempts PROVE Held(b)'
        <3>1. Held(b) /\ LockOf(b) \in Locks
            BY LockOfType DEF HeldInv
        <3>2. CASE b = a
            BY <2>1, <3>1, <3>2, ProcessNames DEF Held, TypeOK, LauncherHolds,
               GuardianLives, Unlaunched
        <3>3. CASE b # a
            <4>1. /\ launcher'[b] = launcher[b] /\ guardian'[b] = guardian[b]
                  /\ provider'[b] = provider[b]
                BY <3>3 DEF TypeOK
            <4>2. \A x \in {Launcher(b), Guardian(b), Provider(b)} :
                    x \in lock[LockOf(b)] => x \in lock'[LockOf(b)]
                BY <2>1, <3>1, <3>3, ProcessNames
            <4> QED
                BY <3>1, <4>1, <4>2, HeldKept
        <3> QED
            BY <3>2, <3>3
    <2>3. ASSUME NEW q \in Passes PROVE Excluded(q)'
        <3>1. Excluded(q) /\ (pass[q].at # "idle" => LockOf(pass[q].of) \in Locks)
            BY LockOfType DEF HeldInv, PassInv
        <3> QED
            BY <2>1, <3>1, ProcessNames DEF Excluded, TypeOK, Excluding, Idle
    <2> QED
        BY <2>2, <2>3 DEF HeldInv
<1>4. LaunchInv'
    BY DEF TypeOK, LaunchInv
<1>5. GuardianInv'
    BY <1>1 DEF TypeOK, GuardianInv, GuardianLives, Unlaunched, BeforeExit, Releasing,
       LaunchInv, ExitInv, RecordInv, Terminal, Final
<1>6. EvidenceInv'
    BY <1>1 DEF TypeOK, EvidenceInv, Over, Unlaunched, LaunchInv, GuardianInv,
       GuardianLives, BeforeExit, Releasing, ExitInv
<1>7. ExitInv'
    <2>1. \A b \in Attempts : Orphan(b) \in lock'[LockOf(b)] => Orphan(b) \in lock[LockOf(b)]
        BY LockOfType DEF TypeOK
    <2>2. /\ provider[a] = "none" /\ exit'[a] = "never_spawned"
          /\ \A b \in Attempts : b # a => exit'[b] = exit[b]
          /\ UNCHANGED <<provider, orphan, named>>
        BY DEF TypeOK, LaunchInv
    <2> QED
        BY <2>1, <2>2 DEF ExitInv
<1>8. RecordInv'
    BY DEF TypeOK, RecordInv, Over, Unlaunched, Final, Terminal
<1>9. PassInv'
    BY DEF TypeOK, PassInv, Over, Quiet, Unlaunched, Final, Terminal
<1> QED
    BY <1>1, <1>2, <1>3, <1>4, <1>5, <1>6, <1>7, <1>8, <1>9

LEMMA SpawnGuardianIInv ==
    ASSUME IInv, NEW a \in Attempts, SpawnGuardian(a)
    PROVE  IInv'
<1> USE CustodyAssumption, NoneAssumption DEF IInv, SpawnGuardian, Taken, Moved,
   files, procs, world
<1>1. TypeOK'
    BY LockOfType, ProcessType DEF TypeOK, LauncherSteps, GuardianSteps
<1>2. FlockInv'
    <2>1. Launcher(a) \in lock[LockOf(a)]
        BY DEF HeldInv, Held, LauncherHolds
    <2>2. /\ Launcher(a)[1] # "pass" /\ Guardian(a)[1] # "pass" /\ Launcher(a)[2] = Guardian(a)[2]
          /\ lock' = Taken(LockOf(a), Guardian(a))
        BY DEF Launcher, Guardian, Provider, Orphan
    <2> HIDE DEF Taken
    <2> QED
        BY <2>1, <2>2, LockOfType, ProcessType, JoinFlock
<1>3. HeldInv'
    BY LockOfType, ProcessNames DEF TypeOK, HeldInv, Held, Excluded, LauncherHolds,
       Excluding, GuardianLives, Unlaunched
<1>4. LaunchInv'
    BY DEF TypeOK, LaunchInv
<1>5. GuardianInv'
    BY <1>1 DEF TypeOK, GuardianInv, GuardianLives, Unlaunched, BeforeExit, Releasing,
       LaunchInv, ExitInv, RecordInv, Terminal, Final
<1>6. EvidenceInv'
    BY <1>1 DEF TypeOK, EvidenceInv, Over, Unlaunched, LaunchInv, GuardianInv,
       GuardianLives, BeforeExit, Releasing, ExitInv
<1>7. ExitInv'
    BY LockOfType, ProcessNames DEF TypeOK, ExitInv
<1>8. RecordInv'
    BY DEF TypeOK, RecordInv, Over, Unlaunched, Final, Terminal
<1>9. PassInv'
    BY DEF TypeOK, PassInv, Over, Quiet, Unlaunched, Final, Terminal
<1> QED
    BY <1>1, <1>2, <1>3, <1>4, <1>5, <1>6, <1>7, <1>8, <1>9

LEMMA LeaveHandoffIInv ==
    ASSUME IInv, NEW a \in Attempts, LeaveHandoff(a)
    PROVE  IInv'
<1> USE CustodyAssumption, NoneAssumption DEF IInv, LeaveHandoff, Dropped, Moved,
   files, procs, world
<1>1. TypeOK'
    BY LockOfType, ProcessType DEF TypeOK, LauncherSteps
<1>2. FlockInv'
    <2>1. \A l \in Locks : lock'[l] \subseteq lock[l]
        BY DEF TypeOK
    <2> QED
        BY <2>1, FlockShrinks
<1>3. HeldInv'
    <2>1. \A l \in Locks : \A x \in lock[l] : x # Launcher(a) => x \in lock'[l]
        BY DEF TypeOK
    <2>2. ASSUME NEW b \in Attempts PROVE Held(b)'
        <3>1. Held(b) /\ LockOf(b) \in Locks
            BY LockOfType DEF HeldInv
        <3>2. CASE b = a
            BY <2>1, <3>1, <3>2, ProcessNames DEF Held, TypeOK, LauncherHolds,
               GuardianLives, Unlaunched
        <3>3. CASE b # a
            <4>1. /\ launcher'[b] = launcher[b] /\ guardian'[b] = guardian[b]
                  /\ provider'[b] = provider[b]
                BY <3>3 DEF TypeOK
            <4>2. \A x \in {Launcher(b), Guardian(b), Provider(b)} :
                    x \in lock[LockOf(b)] => x \in lock'[LockOf(b)]
                BY <2>1, <3>1, <3>3, ProcessNames
            <4> QED
                BY <3>1, <4>1, <4>2, HeldKept
        <3> QED
            BY <3>2, <3>3
    <2>3. ASSUME NEW q \in Passes PROVE Excluded(q)'
        <3>1. Excluded(q) /\ (pass[q].at # "idle" => LockOf(pass[q].of) \in Locks)
            BY LockOfType DEF HeldInv, PassInv
        <3> QED
            BY <2>1, <3>1, ProcessNames DEF Excluded, TypeOK, Excluding, Idle
    <2> QED
        BY <2>2, <2>3 DEF HeldInv
<1>4. LaunchInv'
    BY DEF TypeOK, LaunchInv
<1>5. GuardianInv'
    BY DEF GuardianInv, GuardianLives
<1>6. EvidenceInv'
    BY DEF TypeOK, EvidenceInv, Over, Unlaunched
<1>7. ExitInv'
    BY LockOfType, ProcessNames DEF TypeOK, ExitInv
<1>8. RecordInv'
    BY DEF TypeOK, RecordInv, Over, Unlaunched, Final, Terminal
<1>9. PassInv'
    BY DEF TypeOK, PassInv, Over, Quiet, Unlaunched, Final, Terminal
<1> QED
    BY <1>1, <1>2, <1>3, <1>4, <1>5, <1>6, <1>7, <1>8, <1>9

LEMMA LauncherWithdrawsIInv ==
    ASSUME IInv, NEW a \in Attempts, LauncherWithdraws(a)
    PROVE  IInv'
<1> USE CustodyAssumption, NoneAssumption DEF IInv, LauncherWithdraws, procs, world
<1>l. /\ launcher' \in [Attempts -> LauncherSteps]
      /\ launcher'[a] \in {"sealed", "ended"}
      /\ \A b \in Attempts : b # a => launcher'[b] = launcher[b]
    BY DEF TypeOK, LauncherSteps, Moved
<1>i. intent' \in [Attempts -> {"none", "queued", "starting"}]
    BY DEF TypeOK, Sealed
<1>1. TypeOK'
    BY <1>l, <1>i DEF TypeOK
<1>2. FlockInv'
    BY DEF FlockInv
<1>3. HeldInv'
    BY <1>l DEF HeldInv, Held, Excluded, LauncherHolds, GuardianLives
<1>4. LaunchInv'
    BY <1>l DEF LaunchInv
<1>5. GuardianInv'
    BY DEF GuardianInv, GuardianLives
<1>6. EvidenceInv'
    BY <1>l DEF EvidenceInv, Over
<1>7. ExitInv'
    BY DEF ExitInv
<1>8. RecordInv'
    BY <1>l DEF RecordInv, Over
<1>9. PassInv'
    BY <1>l DEF PassInv, Over, Quiet
<1> QED
    BY <1>1, <1>2, <1>3, <1>4, <1>5, <1>6, <1>7, <1>8, <1>9

LEMMA LauncherCommitsIInv ==
    ASSUME IInv, NEW a \in Attempts, LauncherCommits(a)
    PROVE  IInv'
<1> USE CustodyAssumption, NoneAssumption DEF IInv, LauncherCommits, files, procs, world
<1>w. /\ record' \in [Attempts -> RecordStates]
      /\ \A b \in Attempts : b # a => record'[b] = record[b]
      /\ \/ record'[a] = record[a]
         \/ record[a] \in {"none", "queued", "starting"} /\ record'[a] = "withdrawn"
    BY WithdrawnMeans
<1>l. /\ launcher' \in [Attempts -> LauncherSteps]
      /\ launcher'[a] = "ended"
      /\ \A b \in Attempts : b # a => launcher'[b] = launcher[b]
    BY DEF TypeOK, LauncherSteps, Moved
<1>1. TypeOK'
    BY <1>w, <1>l DEF TypeOK, RecordStates
<1>2. FlockInv'
    BY DEF FlockInv
<1>3. HeldInv'
    BY <1>l DEF HeldInv, Held, Excluded, LauncherHolds, GuardianLives
<1>4. LaunchInv'
    BY <1>l DEF LaunchInv
<1>5. GuardianInv'
    BY <1>w DEF GuardianInv, GuardianLives, Terminal
<1>6. EvidenceInv'
    BY <1>l DEF EvidenceInv, Over
<1>7. ExitInv'
    BY DEF ExitInv
<1>8. RecordInv'
    BY <1>l, <1>w DEF RecordInv, Over
<1>9. PassInv'
    BY <1>l, <1>w DEF PassInv, Over, Quiet, Terminal
<1> QED
    BY <1>1, <1>2, <1>3, <1>4, <1>5, <1>6, <1>7, <1>8, <1>9

LEMMA AdoptAmends ==
    ASSUME IInv, NEW a \in Attempts, Adopt(a)
    PROVE  Amended(a, reservation[a].state, reservation[a].unresolved)
<1>1. reservation[a] \in Reservations
    BY DEF IInv, TypeOK, Adopt, GuardianMoves
<1>2. reservation \in [Attempts -> Reservations \cup {None}]
    BY DEF IInv, TypeOK
<1>3. reservation' = [reservation EXCEPT ![a].guardian = TRUE]
    BY DEF Adopt
<1>4. reservation' \in [Attempts -> Reservations \cup {None}] /\ reservation'[a] \in Reservations
    BY <1>1, <1>2, <1>3 DEF Reservations, LaunchStates
<1> QED
    BY <1>1, <1>2, <1>3, <1>4, NoneAssumption DEF Amended, Reservations

LEMMA AdoptIInv ==
    ASSUME IInv, NEW a \in Attempts, Adopt(a)
    PROVE  IInv'
<1> USE CustodyAssumption, NoneAssumption DEF IInv, Adopt, GuardianMoves, Moved,
   files, procs, world
<1>r. Amended(a, reservation[a].state, reservation[a].unresolved)
    BY AdoptAmends
<1> USE DEF Amended
<1>1. TypeOK'
    BY <1>r, LockOfType, ProcessType DEF TypeOK, LauncherSteps, GuardianSteps, PassSteps
<1>2. FlockInv'
    BY DEF FlockInv
<1>3. HeldInv'
    BY <1>r, LockOfType, ProcessNames DEF TypeOK, HeldInv, Held, Excluded,
       LauncherHolds, Excluding, GuardianLives, Unlaunched
<1>4. LaunchInv'
    BY <1>r DEF TypeOK, LaunchInv
<1>5. GuardianInv'
    BY <1>r DEF TypeOK, GuardianInv, GuardianLives, Unlaunched, BeforeExit, Releasing
<1>6. EvidenceInv'
    BY <1>r DEF TypeOK, EvidenceInv, Over, Unlaunched
<1>7. ExitInv'
    BY LockOfType, ProcessNames DEF TypeOK, ExitInv
<1>8. RecordInv'
    BY <1>r DEF TypeOK, RecordInv, Over, Unlaunched, Final, Terminal
<1>9. PassInv'
    BY <1>r DEF TypeOK, PassInv, Over, Quiet, Unlaunched, Final, Terminal
<1> QED
    BY <1>1, <1>2, <1>3, <1>4, <1>5, <1>6, <1>7, <1>8, <1>9

LEMMA SummariseIInv ==
    ASSUME IInv, NEW a \in Attempts, Summarise(a)
    PROVE  IInv'
<1> USE CustodyAssumption, NoneAssumption DEF IInv, Summarise, GuardianMoves, Moved,
   procs, world
<1>1. TypeOK'
    BY DEF TypeOK, GuardianSteps
<1>2. FlockInv'
    BY DEF FlockInv
<1>3. HeldInv'
    BY LockOfType, ProcessNames DEF TypeOK, HeldInv, Held, Excluded, LauncherHolds,
       Excluding, GuardianLives, Unlaunched
<1>4. LaunchInv'
    BY DEF TypeOK, LaunchInv
<1>5. GuardianInv'
    BY DEF TypeOK, GuardianInv, GuardianLives, Unlaunched, BeforeExit, Releasing
<1>6. EvidenceInv'
    BY DEF TypeOK, EvidenceInv, Over, Unlaunched
<1>7. ExitInv'
    BY LockOfType, ProcessNames DEF TypeOK, ExitInv
<1>8. RecordInv'
    BY DEF TypeOK, RecordInv, Over, Unlaunched, Final, Terminal
<1>9. PassInv'
    BY DEF TypeOK, PassInv, Over, Quiet, Unlaunched, Final, Terminal
<1> QED
    BY <1>1, <1>2, <1>3, <1>4, <1>5, <1>6, <1>7, <1>8, <1>9

LEMMA AdmitIInv ==
    ASSUME IInv, NEW a \in Attempts, Admit(a)
    PROVE  IInv'
<1> USE CustodyAssumption, NoneAssumption DEF IInv, Admit, GuardianMoves, Moved,
   files, procs, world
<1>1. TypeOK'
    BY DEF TypeOK, GuardianSteps, Terminal
<1>2. FlockInv'
    BY DEF FlockInv
<1>3. HeldInv'
    BY LockOfType, ProcessNames DEF TypeOK, HeldInv, Held, Excluded, LauncherHolds,
       Excluding, GuardianLives, Unlaunched
<1>4. LaunchInv'
    BY DEF TypeOK, LaunchInv
<1>5. GuardianInv'
    BY DEF TypeOK, GuardianInv, GuardianLives, Unlaunched, BeforeExit, Releasing
<1>6. EvidenceInv'
    BY DEF TypeOK, EvidenceInv, Over, Unlaunched
<1>7. ExitInv'
    BY LockOfType, ProcessNames DEF TypeOK, ExitInv
<1>8. RecordInv'
    BY DEF TypeOK, RecordInv, Over, Unlaunched, Final, Terminal
<1>9. PassInv'
    BY DEF TypeOK, PassInv, Over, Quiet, Unlaunched, Final, Terminal
<1> QED
    BY <1>1, <1>2, <1>3, <1>4, <1>5, <1>6, <1>7, <1>8, <1>9

LEMMA RefuseLaunchAmends ==
    ASSUME IInv, NEW a \in Attempts, RefuseLaunch(a)
    PROVE  Amended(a, "NeverSpawned", FALSE)
<1>1. reservation[a] \in Reservations
    BY DEF IInv, TypeOK, GuardianInv, GuardianLives, Unlaunched, RefuseLaunch,
       GuardianMoves
<1>2. reservation \in [Attempts -> Reservations \cup {None}]
    BY DEF IInv, TypeOK
<1>3. reservation' = [reservation EXCEPT ![a].state = "NeverSpawned", ![a].unresolved = FALSE]
    BY DEF RefuseLaunch
<1>4. reservation' \in [Attempts -> Reservations \cup {None}] /\ reservation'[a] \in Reservations
    BY <1>1, <1>2, <1>3 DEF Reservations, LaunchStates
<1> QED
    BY <1>1, <1>2, <1>3, <1>4, NoneAssumption DEF Amended, Reservations

LEMMA RefuseLaunchIInv ==
    ASSUME IInv, NEW a \in Attempts, RefuseLaunch(a)
    PROVE  IInv'
<1> USE CustodyAssumption, NoneAssumption DEF IInv, RefuseLaunch, GuardianMoves,
   Moved, files, procs, world
<1>r. Amended(a, "NeverSpawned", FALSE)
    BY RefuseLaunchAmends
<1> USE DEF Amended
<1>1. TypeOK'
    BY <1>r, LockOfType, ProcessType DEF TypeOK, LauncherSteps, GuardianSteps, PassSteps
<1>2. FlockInv'
    BY DEF FlockInv
<1>3. HeldInv'
    BY <1>r, LockOfType, ProcessNames DEF TypeOK, HeldInv, Held, Excluded,
       LauncherHolds, Excluding, GuardianLives, Unlaunched
<1>4. LaunchInv'
    BY <1>r DEF TypeOK, LaunchInv
<1>5. GuardianInv'
    <2> SUFFICES ASSUME NEW b \in Attempts
                 PROVE  GuardianInv!(b)'
        BY DEF GuardianInv
    <2>1. CASE b = a
        BY <2>1, <1>r, <1>1 DEF TypeOK, GuardianInv, BeforeExit, Releasing,
           GuardianLives, Unlaunched
    <2>2. CASE b # a
        BY <2>2, <1>r, <1>1 DEF TypeOK, GuardianInv, GuardianLives
    <2> QED
        BY <2>1, <2>2
<1>6. EvidenceInv'
    BY <1>r, <1>1 DEF TypeOK, EvidenceInv, Over, Unlaunched, LaunchInv, GuardianInv,
       GuardianLives, BeforeExit, Releasing, ExitInv
<1>7. ExitInv'
    BY LockOfType, ProcessNames DEF TypeOK, ExitInv
<1>8. RecordInv'
    BY <1>r DEF TypeOK, RecordInv, Over, Unlaunched, Final, Terminal
<1>9. PassInv'
    BY <1>r DEF TypeOK, PassInv, Over, Quiet, Unlaunched, Final, Terminal
<1> QED
    BY <1>1, <1>2, <1>3, <1>4, <1>5, <1>6, <1>7, <1>8, <1>9

LEMMA RefusedExitIInv ==
    ASSUME IInv, NEW a \in Attempts, RefusedExit(a)
    PROVE  IInv'
<1> USE CustodyAssumption, NoneAssumption DEF IInv, RefusedExit, GuardianMoves, Moved,
   procs, world
<1>1. TypeOK'
    BY DEF TypeOK, GuardianSteps, Exits, Final
<1>2. FlockInv'
    BY DEF FlockInv
<1>3. HeldInv'
    BY LockOfType, ProcessNames DEF TypeOK, HeldInv, Held, Excluded, LauncherHolds,
       Excluding, GuardianLives, Unlaunched
<1>4. LaunchInv'
    BY DEF TypeOK, LaunchInv
<1>5. GuardianInv'
    BY <1>1 DEF TypeOK, GuardianInv, GuardianLives, Unlaunched, BeforeExit, Releasing,
       LaunchInv, ExitInv, RecordInv, Terminal, Final
<1>6. EvidenceInv'
    BY <1>1 DEF TypeOK, EvidenceInv, Over, Unlaunched, LaunchInv, GuardianInv,
       GuardianLives, BeforeExit, Releasing, ExitInv
<1>7. ExitInv'
    BY <1>1 DEF TypeOK, ExitInv, LaunchInv, GuardianInv, BeforeExit, Releasing
<1>8. RecordInv'
    BY DEF TypeOK, RecordInv, Over, Unlaunched, Final, Terminal
<1>9. PassInv'
    BY DEF TypeOK, PassInv, Over, Quiet, Unlaunched, Final, Terminal
<1> QED
    BY <1>1, <1>2, <1>3, <1>4, <1>5, <1>6, <1>7, <1>8, <1>9

LEMMA SpawnProviderAmends ==
    ASSUME IInv, NEW a \in Attempts, SpawnProvider(a)
    PROVE  Amended(a, reservation[a].state, reservation[a].unresolved)
           \/ Amended(a, "Spawned", reservation[a].unresolved)
<1>1. reservation[a] \in Reservations
    BY DEF IInv, TypeOK, GuardianInv, GuardianLives, Unlaunched, SpawnProvider,
       GuardianMoves
<1>2. reservation \in [Attempts -> Reservations \cup {None}]
    BY DEF IInv, TypeOK
<1>3. CASE reservation' = reservation
    BY <1>1, <1>2, <1>3, NoneAssumption DEF Amended
<1>4. CASE reservation' = [reservation EXCEPT ![a].state = "Spawned"]
    <2>1. reservation'[a] \in Reservations
        BY <1>1, <1>2, <1>4 DEF Reservations, LaunchStates
    <2> QED
        BY <1>1, <1>2, <1>4, <2>1, NoneAssumption DEF Amended, Reservations
<1> QED
    BY <1>3, <1>4 DEF SpawnProvider

LEMMA SpawnProviderIInv ==
    ASSUME IInv, NEW a \in Attempts, SpawnProvider(a)
    PROVE  IInv'
<1> USE CustodyAssumption, NoneAssumption DEF IInv, SpawnProvider, Taken,
   GuardianMoves, Moved, files, world
<1>r. \/ Amended(a, reservation[a].state, reservation[a].unresolved)
      \/ Amended(a, "Spawned", reservation[a].unresolved)
    BY SpawnProviderAmends
<1> USE DEF Amended
<1>1. TypeOK'
    BY <1>r, LockOfType, ProcessType DEF TypeOK, GuardianSteps
<1>2. FlockInv'
    <2>1. Guardian(a) \in lock[LockOf(a)]
        BY DEF HeldInv, Held, GuardianLives, Unlaunched
    <2>2. /\ Guardian(a)[1] # "pass" /\ Provider(a)[1] # "pass" /\ Guardian(a)[2] = Provider(a)[2]
          /\ lock' = Taken(LockOf(a), Provider(a))
        BY DEF Launcher, Guardian, Provider, Orphan
    <2> HIDE DEF Taken
    <2> QED
        BY <2>1, <2>2, LockOfType, ProcessType, JoinFlock
<1>3. HeldInv'
    BY <1>r, LockOfType, ProcessNames DEF TypeOK, HeldInv, Held, Excluded,
       LauncherHolds, Excluding, GuardianLives, Unlaunched
<1>4. LaunchInv'
    BY <1>r DEF TypeOK, LaunchInv
<1>5. GuardianInv'
    <2> SUFFICES ASSUME NEW b \in Attempts
                 PROVE  GuardianInv!(b)'
        BY DEF GuardianInv
    <2>1. CASE b = a
        BY <2>1, <1>r, <1>1 DEF TypeOK, GuardianInv, BeforeExit, Releasing,
           GuardianLives, Unlaunched
    <2>2. CASE b # a
        BY <2>2, <1>r, <1>1 DEF TypeOK, GuardianInv, GuardianLives
    <2> QED
        BY <2>1, <2>2
<1>6. EvidenceInv'
    BY <1>r, <1>1 DEF TypeOK, EvidenceInv, Over, Unlaunched, LaunchInv, GuardianInv,
       GuardianLives, BeforeExit, Releasing, ExitInv
<1>7. ExitInv'
    <2>1. \A b \in Attempts : Orphan(b) \in lock'[LockOf(b)] => Orphan(b) \in lock[LockOf(b)]
        BY LockOfType, ProcessNames DEF TypeOK
    <2>2. /\ exit[a] = "absent" /\ UNCHANGED <<exit, orphan, named>>
          /\ \A b \in Attempts : b # a => provider'[b] = provider[b]
        BY DEF TypeOK, GuardianInv, BeforeExit
    <2> QED
        BY <2>1, <2>2 DEF ExitInv
<1>8. RecordInv'
    BY <1>r DEF TypeOK, RecordInv, Over, Unlaunched, Final, Terminal
<1>9. PassInv'
    BY <1>r DEF TypeOK, PassInv, Over, Quiet, Unlaunched, Final, Terminal
<1> QED
    BY <1>1, <1>2, <1>3, <1>4, <1>5, <1>6, <1>7, <1>8, <1>9

LEMMA JournalIInv ==
    ASSUME IInv, NEW a \in Attempts, Journal(a)
    PROVE  IInv'
<1> USE CustodyAssumption, NoneAssumption DEF IInv, Journal, procs, world
<1>1. TypeOK'
    BY DEF TypeOK
<1>2. FlockInv'
    BY DEF FlockInv
<1>3. HeldInv'
    BY DEF HeldInv, Held, Excluded, GuardianLives
<1>4. LaunchInv'
    BY DEF LaunchInv
<1>5. GuardianInv'
    BY DEF GuardianInv, GuardianLives
<1>6. EvidenceInv'
    BY DEF EvidenceInv, Over
<1>7. ExitInv'
    BY LockOfType, ProcessNames DEF TypeOK, ExitInv
<1>8. RecordInv'
    BY DEF RecordInv, Over
<1>9. PassInv'
    BY DEF PassInv, Over, Quiet
<1> QED
    BY <1>1, <1>2, <1>3, <1>4, <1>5, <1>6, <1>7, <1>8, <1>9

LEMMA CleanUpAmends ==
    ASSUME IInv, NEW a \in Attempts, CleanUp(a)
    PROVE  \E unresolved \in BOOLEAN :
                Amended(a, "Spawned", unresolved) /\ (orphan[a] = "live" => unresolved)
<1>1. reservation[a] \in Reservations
    BY DEF IInv, TypeOK, GuardianInv, GuardianLives, Unlaunched, CleanUp, GuardianMoves
<1>2. reservation \in [Attempts -> Reservations \cup {None}]
    BY DEF IInv, TypeOK
<1>3. PICK unresolved \in BOOLEAN :
        /\ orphan[a] = "live" => unresolved
        /\ reservation' = [reservation EXCEPT ![a].state = "Spawned",
                                              ![a].unresolved = unresolved]
    BY DEF CleanUp, CleanupLeft
<1>4. reservation' \in [Attempts -> Reservations \cup {None}] /\ reservation'[a] \in Reservations
    BY <1>1, <1>2, <1>3 DEF Reservations, LaunchStates
<1>5. Amended(a, "Spawned", unresolved)
    BY <1>1, <1>2, <1>3, <1>4, NoneAssumption DEF Amended, Reservations
<1> QED
    BY <1>3, <1>5

LEMMA CleanUpIInv ==
    ASSUME IInv, NEW a \in Attempts, CleanUp(a)
    PROVE  IInv'
<1> USE CustodyAssumption, NoneAssumption DEF IInv, CleanUp, GuardianMoves, Moved,
   files, procs, world
<1>r. PICK unresolved \in BOOLEAN :
        Amended(a, "Spawned", unresolved) /\ (orphan[a] = "live" => unresolved)
    BY CleanUpAmends
<1> USE DEF Amended
<1>1. TypeOK'
    BY <1>r, LockOfType, ProcessType DEF TypeOK, LauncherSteps, GuardianSteps, PassSteps
<1>2. FlockInv'
    BY DEF FlockInv
<1>3. HeldInv'
    BY <1>r, LockOfType, ProcessNames DEF TypeOK, HeldInv, Held, Excluded,
       LauncherHolds, Excluding, GuardianLives, Unlaunched
<1>4. LaunchInv'
    BY <1>r DEF TypeOK, LaunchInv
<1>5. GuardianInv'
    <2> SUFFICES ASSUME NEW b \in Attempts
                 PROVE  GuardianInv!(b)'
        BY DEF GuardianInv
    <2>1. CASE b = a
        BY <2>1, <1>r, <1>1 DEF TypeOK, GuardianInv, BeforeExit, Releasing,
           GuardianLives, Unlaunched
    <2>2. CASE b # a
        BY <2>2, <1>r, <1>1 DEF TypeOK, GuardianInv, GuardianLives
    <2> QED
        BY <2>1, <2>2
<1>6. EvidenceInv'
    <2> SUFFICES ASSUME NEW b \in Attempts
                 PROVE  EvidenceInv!(b)'
        BY DEF EvidenceInv
    <2>1. CASE b = a
        <3>1. reservation[a] # None /\ GuardianLives(a)
            BY DEF GuardianInv, GuardianLives, Unlaunched
        <3>2. reservation[a].boot = boot
            BY <3>1 DEF EvidenceInv, Over, GuardianLives
        <3>3. UNCHANGED <<provider, orphan, exit, boot>> /\ provider[a] = "gone"
            OBVIOUS
        <3>4. orphan[a] # "live" \/ reservation'[a].unresolved
            BY <1>r
        <3> HIDE DEF CleanUp, IInv
        <3> QED
            BY <2>1, <1>r, <3>2, <3>3, <3>4
    <2>2. CASE b # a
        BY <2>2, <1>r, <1>1 DEF TypeOK, EvidenceInv, Over
    <2> QED
        BY <2>1, <2>2
<1>7. ExitInv'
    BY LockOfType, ProcessNames DEF TypeOK, ExitInv
<1>8. RecordInv'
    BY <1>r DEF TypeOK, RecordInv, Over, Unlaunched, Final, Terminal
<1>9. PassInv'
    BY <1>r DEF TypeOK, PassInv, Over, Quiet, Unlaunched, Final, Terminal
<1> QED
    BY <1>1, <1>2, <1>3, <1>4, <1>5, <1>6, <1>7, <1>8, <1>9

LEMMA PublishExitIInv ==
    ASSUME IInv, NEW a \in Attempts, PublishExit(a)
    PROVE  IInv'
<1> USE CustodyAssumption, NoneAssumption DEF IInv, PublishExit, Moved, procs, world
<1>n. /\ named' \in [Attempts -> {"nobody", "others", "orphan"}]
      /\ \A b \in Attempts : b # a => named'[b] = named[b]
    BY DEF TypeOK, Nameable
<1>x. /\ exit' \in [Attempts -> Exits] /\ guardian' \in [Attempts -> GuardianSteps]
      /\ \A b \in Attempts : b # a => exit'[b] = exit[b] /\ guardian'[b] = guardian[b]
      /\ \/ exit'[a] = "unresolved" /\ guardian'[a] = "linger"
         \/ exit'[a] = "settled" /\ guardian'[a] = "release" /\ ~reservation[a].unresolved
    BY DEF TypeOK, GuardianSteps, Exits, Final
<1>1. TypeOK'
    BY <1>n, <1>x DEF TypeOK
<1>2. FlockInv'
    BY DEF FlockInv
<1>3. HeldInv'
    BY LockOfType, ProcessNames DEF TypeOK, HeldInv, Held, Excluded, LauncherHolds,
       Excluding, GuardianLives, Unlaunched
<1>4. LaunchInv'
    BY DEF TypeOK, LaunchInv
<1>5. GuardianInv'
    BY <1>1, LockOfType, ProcessNames DEF TypeOK, GuardianLives, HeldInv, Held,
       Excluded, LaunchInv, GuardianInv, EvidenceInv, ExitInv, RecordInv, PassInv,
       LauncherHolds, BeforeExit, Releasing, Excluding, Final, Over, Quiet, Unlaunched,
       Terminal
<1>6. EvidenceInv'
    BY <1>1 DEF TypeOK, EvidenceInv, Over, Unlaunched, LaunchInv, GuardianInv,
       GuardianLives, BeforeExit, Releasing, ExitInv
<1>7. ExitInv'
    BY <1>1, LockOfType, ProcessNames DEF TypeOK, GuardianLives, HeldInv, Held,
       Excluded, LaunchInv, GuardianInv, EvidenceInv, ExitInv, RecordInv, PassInv,
       LauncherHolds, BeforeExit, Releasing, Excluding, Final, Over, Quiet, Unlaunched,
       Terminal
<1>8. RecordInv'
    BY <1>1, LockOfType, ProcessNames DEF TypeOK, GuardianLives, HeldInv, Held,
       Excluded, LaunchInv, GuardianInv, EvidenceInv, ExitInv, RecordInv, PassInv,
       LauncherHolds, BeforeExit, Releasing, Excluding, Final, Over, Quiet, Unlaunched,
       Terminal
<1>9. PassInv'
    <2>1. exit[a] = "absent" /\ GuardianLives(a)
        BY DEF GuardianInv, BeforeExit, GuardianLives, Unlaunched
    <2>2. UNCHANGED <<record, launcher, procs, pass>>
        OBVIOUS
    <2>3. guardian[a] = "publish"
        OBVIOUS
    <2> HIDE DEF PublishExit
    <2> QED
        BY <1>n, <1>x, <2>1, <2>2, <2>3 DEF PassInv, Over, Quiet, Final, GuardianLives, Unlaunched
<1> QED
    BY <1>1, <1>2, <1>3, <1>4, <1>5, <1>6, <1>7, <1>8, <1>9

LEMMA ResettleAmends ==
    ASSUME IInv, NEW a \in Attempts, Resettle(a)
    PROVE  Amended(a, reservation[a].state, FALSE)
<1>1. reservation[a] \in Reservations
    BY DEF IInv, TypeOK, GuardianInv, GuardianLives, Unlaunched, Resettle, GuardianMoves
<1>2. reservation \in [Attempts -> Reservations \cup {None}]
    BY DEF IInv, TypeOK
<1>3. reservation' = [reservation EXCEPT ![a].unresolved = FALSE]
    BY DEF Resettle
<1>4. reservation' \in [Attempts -> Reservations \cup {None}] /\ reservation'[a] \in Reservations
    BY <1>1, <1>2, <1>3 DEF Reservations, LaunchStates
<1> QED
    BY <1>1, <1>2, <1>3, <1>4, NoneAssumption DEF Amended, Reservations

LEMMA ResettleIInv ==
    ASSUME IInv, NEW a \in Attempts, Resettle(a)
    PROVE  IInv'
<1> USE CustodyAssumption, NoneAssumption DEF IInv, Resettle, GuardianMoves, Moved,
   files, procs, world
<1>r. Amended(a, reservation[a].state, FALSE)
    BY ResettleAmends
<1> USE DEF Amended
<1>1. TypeOK'
    BY <1>r, LockOfType, ProcessType DEF TypeOK, LauncherSteps, GuardianSteps, PassSteps
<1>2. FlockInv'
    BY DEF FlockInv
<1>3. HeldInv'
    BY <1>r, LockOfType, ProcessNames DEF TypeOK, HeldInv, Held, Excluded,
       LauncherHolds, Excluding, GuardianLives, Unlaunched
<1>4. LaunchInv'
    BY <1>r DEF TypeOK, LaunchInv
<1>5. GuardianInv'
    BY <1>r DEF TypeOK, GuardianInv, GuardianLives, Unlaunched, BeforeExit, Releasing
<1>6. EvidenceInv'
    BY <1>r, <1>1 DEF TypeOK, EvidenceInv, Over, Unlaunched, LaunchInv, GuardianInv,
       GuardianLives, BeforeExit, Releasing, ExitInv
<1>7. ExitInv'
    BY LockOfType, ProcessNames DEF TypeOK, ExitInv
<1>8. RecordInv'
    BY <1>r DEF TypeOK, RecordInv, Over, Unlaunched, Final, Terminal
<1>9. PassInv'
    BY <1>r DEF TypeOK, PassInv, Over, Quiet, Unlaunched, Final, Terminal
<1> QED
    BY <1>1, <1>2, <1>3, <1>4, <1>5, <1>6, <1>7, <1>8, <1>9

LEMMA RepublishIInv ==
    ASSUME IInv, NEW a \in Attempts, Republish(a)
    PROVE  IInv'
<1> USE CustodyAssumption, NoneAssumption DEF IInv, Republish, GuardianMoves, Moved,
   procs, world
<1>1. TypeOK'
    BY DEF TypeOK, GuardianSteps, Exits, Final
<1>2. FlockInv'
    BY DEF FlockInv
<1>3. HeldInv'
    BY LockOfType, ProcessNames DEF TypeOK, HeldInv, Held, Excluded, LauncherHolds,
       Excluding, GuardianLives, Unlaunched
<1>4. LaunchInv'
    BY DEF TypeOK, LaunchInv
<1>5. GuardianInv'
    BY DEF TypeOK, GuardianInv, GuardianLives, Unlaunched, BeforeExit, Releasing
<1>6. EvidenceInv'
    BY <1>1 DEF TypeOK, EvidenceInv, Over, Unlaunched, LaunchInv, GuardianInv,
       GuardianLives, BeforeExit, Releasing, ExitInv
<1>7. ExitInv'
    BY <1>1 DEF TypeOK, ExitInv, LaunchInv, GuardianInv, BeforeExit, Releasing
<1>8. RecordInv'
    BY DEF TypeOK, RecordInv, Over, Unlaunched, Final, Terminal
<1>9. PassInv'
    BY DEF TypeOK, PassInv, Over, Quiet, Unlaunched, Final, Terminal
<1> QED
    BY <1>1, <1>2, <1>3, <1>4, <1>5, <1>6, <1>7, <1>8, <1>9

LEMMA ReleaseAmends ==
    ASSUME IInv, NEW a \in Attempts, Release(a)
    PROVE  Amended(a, "Settling", reservation[a].unresolved)
<1>1. reservation[a] \in Reservations
    BY DEF IInv, TypeOK, GuardianInv, GuardianLives, Unlaunched, Release, GuardianMoves
<1>2. reservation \in [Attempts -> Reservations \cup {None}]
    BY DEF IInv, TypeOK
<1>3. reservation' = [reservation EXCEPT ![a].state = "Settling"]
    BY DEF Release
<1>4. reservation' \in [Attempts -> Reservations \cup {None}] /\ reservation'[a] \in Reservations
    BY <1>1, <1>2, <1>3 DEF Reservations, LaunchStates
<1> QED
    BY <1>1, <1>2, <1>3, <1>4, NoneAssumption DEF Amended, Reservations

LEMMA ReleaseIInv ==
    ASSUME IInv, NEW a \in Attempts, Release(a)
    PROVE  IInv'
<1> USE CustodyAssumption, NoneAssumption DEF IInv, Release, Dropped, GuardianMoves,
   Moved, files, procs, world
<1>r. Amended(a, "Settling", reservation[a].unresolved)
    BY ReleaseAmends
<1> USE DEF Amended
<1>1. TypeOK'
    BY <1>r, LockOfType, ProcessType DEF TypeOK, LauncherSteps, GuardianSteps, PassSteps
<1>2. FlockInv'
    <2>1. lock' = lock \/ lock' = Dropped({Guardian(a)})
        OBVIOUS
    <2> HIDE DEF Dropped
    <2> QED
        BY <2>1, DropFlock DEF FlockInv
<1>3. HeldInv'
    <2>1. \A l \in Locks : \A x \in lock[l] : x # Guardian(a) \/ a \notin Readers => x \in lock'[l]
        BY DEF TypeOK
    <2>2. ASSUME NEW b \in Attempts PROVE Held(b)'
        <3>1. Held(b) /\ LockOf(b) \in Locks
            BY LockOfType DEF HeldInv
        <3>2. CASE b = a
            BY <2>1, <3>1, <3>2, ProcessNames DEF Held, TypeOK, GuardianLives, Unlaunched
        <3>3. CASE b # a
            <4>1. /\ launcher'[b] = launcher[b] /\ guardian'[b] = guardian[b]
                  /\ provider'[b] = provider[b]
                BY <3>3 DEF TypeOK
            <4>2. \A x \in {Launcher(b), Guardian(b), Provider(b)} :
                    x \in lock[LockOf(b)] => x \in lock'[LockOf(b)]
                BY <2>1, <3>1, <3>3, ProcessNames
            <4> QED
                BY <3>1, <4>1, <4>2, HeldKept
        <3> QED
            BY <3>2, <3>3
    <2>3. ASSUME NEW q \in Passes PROVE Excluded(q)'
        <3>1. Excluded(q) /\ (pass[q].at # "idle" => LockOf(pass[q].of) \in Locks)
            BY LockOfType DEF HeldInv, PassInv
        <3> QED
            BY <2>1, <3>1, ProcessNames DEF Excluded, Excluding
    <2> QED
        BY <2>2, <2>3 DEF HeldInv
<1>4. LaunchInv'
    BY <1>r DEF TypeOK, LaunchInv
<1>5. GuardianInv'
    BY <1>r DEF TypeOK, GuardianInv, GuardianLives, Unlaunched, BeforeExit, Releasing
<1>6. EvidenceInv'
    BY <1>r, <1>1 DEF TypeOK, EvidenceInv, Over, Unlaunched, LaunchInv, GuardianInv,
       GuardianLives, BeforeExit, Releasing, ExitInv
<1>7. ExitInv'
    BY LockOfType, ProcessNames DEF TypeOK, ExitInv
<1>8. RecordInv'
    BY <1>r DEF TypeOK, RecordInv, Over, Unlaunched, Final, Terminal
<1>9. PassInv'
    BY <1>r DEF TypeOK, PassInv, Over, Quiet, Unlaunched, Final, Terminal
<1> QED
    BY <1>1, <1>2, <1>3, <1>4, <1>5, <1>6, <1>7, <1>8, <1>9

LEMMA TerminalCommitIInv ==
    ASSUME IInv, NEW a \in Attempts, TerminalCommit(a)
    PROVE  IInv'
<1> USE CustodyAssumption, NoneAssumption DEF IInv, TerminalCommit, GuardianMoves,
   Moved, files, procs, world
<1>f. Committed(a, "finished")
    BY FinishedMeans
<1> USE DEF Committed
<1>1. TypeOK'
    BY <1>f DEF TypeOK, GuardianSteps, RecordStates
<1>2. FlockInv'
    BY DEF FlockInv
<1>3. HeldInv'
    BY LockOfType, ProcessNames DEF TypeOK, HeldInv, Held, Excluded, LauncherHolds,
       Excluding, GuardianLives, Unlaunched
<1>4. LaunchInv'
    BY DEF TypeOK, LaunchInv
<1>5. GuardianInv'
    BY <1>f DEF TypeOK, GuardianInv, GuardianLives, Unlaunched, BeforeExit, Releasing, Terminal
<1>6. EvidenceInv'
    BY DEF TypeOK, EvidenceInv, Over, Unlaunched
<1>7. ExitInv'
    BY LockOfType, ProcessNames DEF TypeOK, ExitInv
<1>8. RecordInv'
    <2>1. exit[a] \in {"never_spawned", "settled"}
        BY DEF GuardianInv, Releasing
    <2> QED
        BY <1>f, <2>1 DEF TypeOK, RecordInv, Over, Unlaunched, Final, Terminal
<1>9. PassInv'
    BY <1>f DEF TypeOK, PassInv, Over, Quiet, Unlaunched, Final, Terminal
<1> QED
    BY <1>1, <1>2, <1>3, <1>4, <1>5, <1>6, <1>7, <1>8, <1>9

LEMMA ClearSettledIInv ==
    ASSUME IInv, NEW a \in Attempts, ClearSettled(a)
    PROVE  IInv'
<1> USE CustodyAssumption, NoneAssumption DEF IInv, ClearSettled, Free, Dropped,
   NoReservation, GuardianMoves, Moved, files, procs,
    world
<1>1. TypeOK'
    BY LockOfType, ProcessType DEF TypeOK, GuardianSteps, Reservations, LaunchStates
<1>2. FlockInv'
    <2>1. \A l \in Locks : lock'[l] \subseteq lock[l]
        BY DEF TypeOK
    <2> QED
        BY <2>1, FlockShrinks
<1>3. HeldInv'
    <2>1. \A l \in Locks : \A x \in lock[l] : x # Guardian(a) => x \in lock'[l]
        BY DEF TypeOK
    <2>2. ASSUME NEW b \in Attempts PROVE Held(b)'
        <3>1. Held(b) /\ LockOf(b) \in Locks
            BY LockOfType DEF HeldInv
        <3>2. CASE b = a
            BY <2>1, <3>1, <3>2, ProcessNames DEF Held, TypeOK, LauncherHolds,
               GuardianLives, Unlaunched
        <3>3. CASE b # a
            <4>1. /\ launcher'[b] = launcher[b] /\ guardian'[b] = guardian[b]
                  /\ provider'[b] = provider[b]
                BY <3>3 DEF TypeOK
            <4>2. \A x \in {Launcher(b), Guardian(b), Provider(b)} :
                    x \in lock[LockOf(b)] => x \in lock'[LockOf(b)]
                BY <2>1, <3>1, <3>3, ProcessNames
            <4> QED
                BY <3>1, <4>1, <4>2, HeldKept
        <3> QED
            BY <3>2, <3>3
    <2>3. ASSUME NEW q \in Passes PROVE Excluded(q)'
        <3>1. Excluded(q) /\ (pass[q].at # "idle" => LockOf(pass[q].of) \in Locks)
            BY LockOfType DEF HeldInv, PassInv
        <3> QED
            BY <2>1, <3>1, ProcessNames DEF Excluded, TypeOK, Excluding, Idle
    <2> QED
        BY <2>2, <2>3 DEF HeldInv
<1>4. LaunchInv'
    BY DEF TypeOK, LaunchInv
<1>5. GuardianInv'
    BY DEF TypeOK, GuardianInv, GuardianLives, Unlaunched, BeforeExit, Releasing
<1>6. EvidenceInv'
    BY DEF TypeOK, EvidenceInv, Over, Unlaunched
<1>7. ExitInv'
    BY LockOfType, ProcessNames DEF TypeOK, ExitInv
<1>8. RecordInv'
    BY DEF TypeOK, RecordInv, Over, Unlaunched, Final, Terminal
<1>9. PassInv'
    BY DEF TypeOK, PassInv, Over, Quiet, Unlaunched, Final, Terminal
<1> QED
    BY <1>1, <1>2, <1>3, <1>4, <1>5, <1>6, <1>7, <1>8, <1>9

LEMMA ReleaseFailsIInv ==
    ASSUME IInv, NEW a \in Attempts, ReleaseFails(a)
    PROVE  IInv'
<1> USE CustodyAssumption, NoneAssumption DEF IInv, ReleaseFails, Dropped, Moved,
   files, procs, world
<1>1. TypeOK'
    BY LockOfType, ProcessType DEF TypeOK, GuardianSteps
<1>2. FlockInv'
    <2>1. \A l \in Locks : lock'[l] \subseteq lock[l]
        BY DEF TypeOK
    <2> QED
        BY <2>1, FlockShrinks
<1>3. HeldInv'
    <2>1. \A l \in Locks : \A x \in lock[l] : x # Guardian(a) => x \in lock'[l]
        BY DEF TypeOK
    <2>2. ASSUME NEW b \in Attempts PROVE Held(b)'
        <3>1. Held(b) /\ LockOf(b) \in Locks
            BY LockOfType DEF HeldInv
        <3>2. CASE b = a
            BY <2>1, <3>1, <3>2, ProcessNames DEF Held, TypeOK, LauncherHolds,
               GuardianLives, Unlaunched
        <3>3. CASE b # a
            <4>1. /\ launcher'[b] = launcher[b] /\ guardian'[b] = guardian[b]
                  /\ provider'[b] = provider[b]
                BY <3>3 DEF TypeOK
            <4>2. \A x \in {Launcher(b), Guardian(b), Provider(b)} :
                    x \in lock[LockOf(b)] => x \in lock'[LockOf(b)]
                BY <2>1, <3>1, <3>3, ProcessNames
            <4> QED
                BY <3>1, <4>1, <4>2, HeldKept
        <3> QED
            BY <3>2, <3>3
    <2>3. ASSUME NEW q \in Passes PROVE Excluded(q)'
        <3>1. Excluded(q) /\ (pass[q].at # "idle" => LockOf(pass[q].of) \in Locks)
            BY LockOfType DEF HeldInv, PassInv
        <3> QED
            BY <2>1, <3>1, ProcessNames DEF Excluded, TypeOK, Excluding, Idle
    <2> QED
        BY <2>2, <2>3 DEF HeldInv
<1>4. LaunchInv'
    BY DEF TypeOK, LaunchInv
<1>5. GuardianInv'
    BY DEF TypeOK, GuardianInv, GuardianLives, Unlaunched, BeforeExit, Releasing
<1>6. EvidenceInv'
    BY DEF TypeOK, EvidenceInv, Over, Unlaunched
<1>7. ExitInv'
    BY LockOfType, ProcessNames DEF TypeOK, ExitInv
<1>8. RecordInv'
    BY DEF TypeOK, RecordInv, Over, Unlaunched, Final, Terminal
<1>9. PassInv'
    BY DEF TypeOK, PassInv, Over, Quiet, Unlaunched, Final, Terminal
<1> QED
    BY <1>1, <1>2, <1>3, <1>4, <1>5, <1>6, <1>7, <1>8, <1>9

LEMMA ForkIInv ==
    ASSUME IInv, NEW a \in Attempts, Fork(a)
    PROVE  IInv'
<1> USE CustodyAssumption, NoneAssumption DEF IInv, Fork, Taken, files, world
<1>1. TypeOK'
    BY LockOfType, ProcessType DEF TypeOK
<1>2. FlockInv'
    <2>1. Provider(a) \in lock[LockOf(a)]
        BY DEF HeldInv, Held, TypeOK
    <2>2. /\ Provider(a)[1] # "pass" /\ Orphan(a)[1] # "pass" /\ Provider(a)[2] = Orphan(a)[2]
          /\ lock' = Taken(LockOf(a), Orphan(a))
        BY DEF Launcher, Guardian, Provider, Orphan
    <2> HIDE DEF Taken
    <2> QED
        BY <2>1, <2>2, LockOfType, ProcessType, JoinFlock
<1>3. HeldInv'
    BY LockOfType, ProcessNames DEF TypeOK, HeldInv, Held, Excluded, LauncherHolds,
       Excluding, GuardianLives, Unlaunched
<1>4. LaunchInv'
    BY DEF TypeOK, LaunchInv
<1>5. GuardianInv'
    BY DEF TypeOK, GuardianInv, GuardianLives, Unlaunched, BeforeExit, Releasing
<1>6. EvidenceInv'
    BY DEF TypeOK, EvidenceInv, Over, Unlaunched
<1>7. ExitInv'
    <2>1. /\ exit[a] \in {"absent", "never_spawned"} \/ provider[a] = "gone"
          /\ exit[a] # "never_spawned"
        BY DEF TypeOK, Exits, Final, ExitInv
    <2>2. \A l \in Locks : \A x \in lock'[l] : x = Orphan(a) \/ x \in lock[l]
        BY LockOfType DEF TypeOK
    <2>3. \A b \in Attempts : b # a /\ Orphan(b) \in lock'[LockOf(b)] =>
            Orphan(b) \in lock[LockOf(b)]
        BY <2>2, LockOfType, ProcessNames
    <2>4. \A b \in Attempts : b # a => orphan'[b] = orphan[b]
        BY DEF TypeOK
    <2> QED
        BY <2>1, <2>3, <2>4 DEF ExitInv
<1>8. RecordInv'
    BY DEF TypeOK, RecordInv, Over, Unlaunched, Final, Terminal
<1>9. PassInv'
    <2>1. exit[a] = "absent"
        BY DEF TypeOK, ExitInv, Exits, Final
    <2>2. \A b \in Attempts : b # a => orphan'[b] = orphan[b]
        BY DEF TypeOK
    <2> QED
        BY <2>1, <2>2 DEF PassInv, Over, Quiet
<1> QED
    BY <1>1, <1>2, <1>3, <1>4, <1>5, <1>6, <1>7, <1>8, <1>9

LEMMA DetachIInv ==
    ASSUME IInv, NEW a \in Attempts, Detach(a)
    PROVE  IInv'
<1> USE CustodyAssumption, NoneAssumption DEF IInv, Detach, Dropped, files, procs, world
<1>1. TypeOK'
    BY LockOfType, ProcessType DEF TypeOK
<1>2. FlockInv'
    <2>1. \A l \in Locks : lock'[l] \subseteq lock[l]
        BY DEF TypeOK
    <2> QED
        BY <2>1, FlockShrinks
<1>3. HeldInv'
    <2>1. \A l \in Locks : \A x \in lock[l] : x # Orphan(a) => x \in lock'[l]
        BY DEF TypeOK
    <2>2. ASSUME NEW b \in Attempts PROVE Held(b)'
        <3>1. Held(b) /\ LockOf(b) \in Locks
            BY LockOfType DEF HeldInv
        <3>2. CASE b = a
            BY <2>1, <3>1, <3>2, ProcessNames DEF Held, TypeOK, LauncherHolds,
               GuardianLives, Unlaunched
        <3>3. CASE b # a
            <4>1. /\ launcher'[b] = launcher[b] /\ guardian'[b] = guardian[b]
                  /\ provider'[b] = provider[b]
                BY <3>3 DEF TypeOK
            <4>2. \A x \in {Launcher(b), Guardian(b), Provider(b)} :
                    x \in lock[LockOf(b)] => x \in lock'[LockOf(b)]
                BY <2>1, <3>1, <3>3, ProcessNames
            <4> QED
                BY <3>1, <4>1, <4>2, HeldKept
        <3> QED
            BY <3>2, <3>3
    <2>3. ASSUME NEW q \in Passes PROVE Excluded(q)'
        <3>1. Excluded(q) /\ (pass[q].at # "idle" => LockOf(pass[q].of) \in Locks)
            BY LockOfType DEF HeldInv, PassInv
        <3> QED
            BY <2>1, <3>1, ProcessNames DEF Excluded, TypeOK, Excluding, Idle
    <2> QED
        BY <2>2, <2>3 DEF HeldInv
<1>4. LaunchInv'
    BY DEF LaunchInv
<1>5. GuardianInv'
    BY DEF GuardianInv, GuardianLives
<1>6. EvidenceInv'
    BY DEF EvidenceInv, Over
<1>7. ExitInv'
    BY LockOfType, ProcessNames DEF TypeOK, ExitInv
<1>8. RecordInv'
    BY DEF RecordInv, Over
<1>9. PassInv'
    BY DEF PassInv, Over, Quiet
<1> QED
    BY <1>1, <1>2, <1>3, <1>4, <1>5, <1>6, <1>7, <1>8, <1>9

LEMMA ProviderExitsIInv ==
    ASSUME IInv, NEW a \in Attempts, ProviderExits(a)
    PROVE  IInv'
<1> USE CustodyAssumption, NoneAssumption DEF IInv, ProviderExits, Dropped, files, world
<1>1. TypeOK'
    BY LockOfType, ProcessType DEF TypeOK
<1>2. FlockInv'
    <2>1. \A l \in Locks : lock'[l] \subseteq lock[l]
        BY DEF TypeOK
    <2> QED
        BY <2>1, FlockShrinks
<1>3. HeldInv'
    <2>1. \A l \in Locks : \A x \in lock[l] : x # Provider(a) => x \in lock'[l]
        BY DEF TypeOK
    <2>2. ASSUME NEW b \in Attempts PROVE Held(b)'
        <3>1. Held(b) /\ LockOf(b) \in Locks
            BY LockOfType DEF HeldInv
        <3>2. CASE b = a
            BY <2>1, <3>1, <3>2, ProcessNames DEF Held, TypeOK, LauncherHolds,
               GuardianLives, Unlaunched
        <3>3. CASE b # a
            <4>1. /\ launcher'[b] = launcher[b] /\ guardian'[b] = guardian[b]
                  /\ provider'[b] = provider[b]
                BY <3>3 DEF TypeOK
            <4>2. \A x \in {Launcher(b), Guardian(b), Provider(b)} :
                    x \in lock[LockOf(b)] => x \in lock'[LockOf(b)]
                BY <2>1, <3>1, <3>3, ProcessNames
            <4> QED
                BY <3>1, <4>1, <4>2, HeldKept
        <3> QED
            BY <3>2, <3>3
    <2>3. ASSUME NEW q \in Passes PROVE Excluded(q)'
        <3>1. Excluded(q) /\ (pass[q].at # "idle" => LockOf(pass[q].of) \in Locks)
            BY LockOfType DEF HeldInv, PassInv
        <3> QED
            BY <2>1, <3>1, ProcessNames DEF Excluded, TypeOK, Excluding, Idle
    <2> QED
        BY <2>2, <2>3 DEF HeldInv
<1>4. LaunchInv'
    BY DEF TypeOK, LaunchInv
<1>5. GuardianInv'
    BY DEF TypeOK, GuardianInv, GuardianLives, Unlaunched, BeforeExit, Releasing
<1>6. EvidenceInv'
    BY DEF TypeOK, EvidenceInv, Over, Unlaunched
<1>7. ExitInv'
    BY LockOfType, ProcessNames DEF TypeOK, ExitInv
<1>8. RecordInv'
    BY DEF TypeOK, RecordInv, Over, Unlaunched, Final, Terminal
<1>9. PassInv'
    BY DEF TypeOK, PassInv, Over, Quiet, Unlaunched, Final, Terminal
<1> QED
    BY <1>1, <1>2, <1>3, <1>4, <1>5, <1>6, <1>7, <1>8, <1>9

LEMMA OrphanExitsIInv ==
    ASSUME IInv, NEW a \in Attempts, OrphanExits(a)
    PROVE  IInv'
<1> USE CustodyAssumption, NoneAssumption DEF IInv, OrphanExits, Dropped, OrphanGone,
   files, world
<1>1. TypeOK'
    BY LockOfType, ProcessType DEF TypeOK
<1>2. FlockInv'
    <2>1. \A l \in Locks : lock'[l] \subseteq lock[l]
        BY DEF TypeOK
    <2> QED
        BY <2>1, FlockShrinks
<1>3. HeldInv'
    <2>1. \A l \in Locks : \A x \in lock[l] : x # Orphan(a) => x \in lock'[l]
        BY DEF TypeOK
    <2>2. ASSUME NEW b \in Attempts PROVE Held(b)'
        <3>1. Held(b) /\ LockOf(b) \in Locks
            BY LockOfType DEF HeldInv
        <3>2. CASE b = a
            BY <2>1, <3>1, <3>2, ProcessNames DEF Held, TypeOK, LauncherHolds,
               GuardianLives, Unlaunched
        <3>3. CASE b # a
            <4>1. /\ launcher'[b] = launcher[b] /\ guardian'[b] = guardian[b]
                  /\ provider'[b] = provider[b]
                BY <3>3 DEF TypeOK
            <4>2. \A x \in {Launcher(b), Guardian(b), Provider(b)} :
                    x \in lock[LockOf(b)] => x \in lock'[LockOf(b)]
                BY <2>1, <3>1, <3>3, ProcessNames
            <4> QED
                BY <3>1, <4>1, <4>2, HeldKept
        <3> QED
            BY <3>2, <3>3
    <2>3. ASSUME NEW q \in Passes PROVE Excluded(q)'
        <3>1. Excluded(q) /\ (pass[q].at # "idle" => LockOf(pass[q].of) \in Locks)
            BY LockOfType DEF HeldInv, PassInv
        <3> QED
            BY <2>1, <3>1, ProcessNames DEF Excluded, TypeOK, Excluding, Idle
    <2> QED
        BY <2>2, <2>3 DEF HeldInv
<1>4. LaunchInv'
    BY DEF TypeOK, LaunchInv
<1>5. GuardianInv'
    BY DEF TypeOK, GuardianInv, GuardianLives, Unlaunched, BeforeExit, Releasing
<1>6. EvidenceInv'
    BY DEF TypeOK, EvidenceInv, Over, Unlaunched
<1>7. ExitInv'
    BY LockOfType, ProcessNames DEF TypeOK, ExitInv
<1>8. RecordInv'
    BY DEF TypeOK, RecordInv, Over, Unlaunched, Final, Terminal
<1>9. PassInv'
    BY DEF TypeOK, PassInv, Over, Quiet, Unlaunched, Final, Terminal
<1> QED
    BY <1>1, <1>2, <1>3, <1>4, <1>5, <1>6, <1>7, <1>8, <1>9

LEMMA CancelIInv ==
    ASSUME IInv, NEW a \in Attempts, Cancel(a)
    PROVE  IInv'
<1> USE CustodyAssumption, NoneAssumption DEF IInv, Cancel, procs, world
<1>1. TypeOK'
    BY DEF TypeOK
<1>2. FlockInv'
    BY DEF FlockInv
<1>3. HeldInv'
    BY DEF HeldInv, Held, Excluded, GuardianLives
<1>4. LaunchInv'
    BY DEF LaunchInv
<1>5. GuardianInv'
    BY DEF TypeOK, GuardianInv, GuardianLives, Unlaunched, BeforeExit, Releasing
<1>6. EvidenceInv'
    BY DEF EvidenceInv, Over
<1>7. ExitInv'
    BY LockOfType, ProcessNames DEF TypeOK, ExitInv
<1>8. RecordInv'
    BY DEF TypeOK, RecordInv, Over, Unlaunched, Final, Terminal
<1>9. PassInv'
    BY DEF TypeOK, PassInv, Over, Quiet, Unlaunched, Final, Terminal
<1> QED
    BY <1>1, <1>2, <1>3, <1>4, <1>5, <1>6, <1>7, <1>8, <1>9

LEMMA WithdrawQueuedIInv ==
    ASSUME IInv, NEW a \in Attempts, WithdrawQueued(a)
    PROVE  IInv'
<1> USE DEF IInv, WithdrawQueued, Sealed, procs, world
<1>1. TypeOK'
    BY DEF TypeOK
<1>2. FlockInv' /\ HeldInv' /\ LaunchInv' /\ GuardianInv'
    BY DEF FlockInv, HeldInv, Held, Excluded, GuardianLives, LaunchInv, GuardianInv
<1>3. EvidenceInv' /\ ExitInv' /\ RecordInv' /\ PassInv'
    BY DEF EvidenceInv, ExitInv, RecordInv, PassInv, Over, Quiet
<1> QED
    BY <1>1, <1>2, <1>3

LEMMA CommitQueuedIInv ==
    ASSUME IInv, NEW a \in Attempts, CommitQueued(a)
    PROVE  IInv'
<1> USE DEF IInv, CommitQueued, files, procs, world
<1>w. /\ record' \in [Attempts -> RecordStates]
      /\ \A b \in Attempts : b # a => record'[b] = record[b]
      /\ \/ record'[a] = record[a]
         \/ record[a] \in {"none", "queued", "starting"} /\ record'[a] = "withdrawn"
    BY WithdrawnMeans
<1>1. TypeOK'
    BY <1>w DEF TypeOK, RecordStates
<1>2. FlockInv' /\ HeldInv' /\ LaunchInv'
    BY DEF FlockInv, HeldInv, Held, Excluded, GuardianLives, LaunchInv
<1>3. GuardianInv'
    BY <1>w DEF GuardianInv, GuardianLives, Terminal
<1>4. EvidenceInv' /\ ExitInv'
    BY DEF EvidenceInv, ExitInv, Over
<1>5. RecordInv'
    BY <1>w DEF RecordInv, Over
<1>6. PassInv'
    BY <1>w DEF PassInv, Over, Quiet, Terminal
<1> QED
    BY <1>1, <1>2, <1>3, <1>4, <1>5, <1>6

LEMMA LauncherDiesIInv ==
    ASSUME IInv, NEW a \in Attempts, LauncherDies(a)
    PROVE  IInv'
<1> USE CustodyAssumption, NoneAssumption DEF IInv, LauncherDies, Dropped, Moved,
   Died, files, procs
<1>1. TypeOK'
    BY LockOfType, ProcessType DEF TypeOK, LauncherSteps
<1>2. FlockInv'
    <2>1. lock' = Dropped({Launcher(a)})
        BY DEF LauncherDies
    <2> QED
        BY <2>1, DropFlock
<1>3. HeldInv'
    <2>1. \A l \in Locks : \A x \in lock[l] : x # Launcher(a) => x \in lock'[l]
        BY DEF TypeOK
    <2>2. ASSUME NEW b \in Attempts PROVE Held(b)'
        <3>1. Held(b) /\ LockOf(b) \in Locks
            BY LockOfType DEF HeldInv
        <3>2. CASE b = a
            BY <2>1, <3>1, <3>2, ProcessNames DEF Held, TypeOK, LauncherHolds,
               GuardianLives, Unlaunched
        <3>3. CASE b # a
            <4>1. /\ launcher'[b] = launcher[b] /\ guardian'[b] = guardian[b]
                  /\ provider'[b] = provider[b]
                BY <3>3 DEF TypeOK
            <4>2. \A x \in {Launcher(b), Guardian(b), Provider(b)} :
                    x \in lock[LockOf(b)] => x \in lock'[LockOf(b)]
                BY <2>1, <3>1, <3>3, ProcessNames
            <4> QED
                BY <3>1, <4>1, <4>2, HeldKept
        <3> QED
            BY <3>2, <3>3
    <2>3. ASSUME NEW q \in Passes PROVE Excluded(q)'
        <3>1. Excluded(q) /\ (pass[q].at # "idle" => LockOf(pass[q].of) \in Locks)
            BY LockOfType DEF HeldInv, PassInv
        <3> QED
            BY <2>1, <3>1, ProcessNames DEF Excluded, TypeOK, Excluding, Idle
    <2> QED
        BY <2>2, <2>3 DEF HeldInv
<1>4. LaunchInv'
    BY DEF TypeOK, LaunchInv
<1>5. GuardianInv'
    BY DEF GuardianInv, GuardianLives
<1>6. EvidenceInv'
    BY DEF TypeOK, EvidenceInv, Over, Unlaunched
<1>7. ExitInv'
    BY LockOfType, ProcessNames DEF TypeOK, ExitInv
<1>8. RecordInv'
    BY DEF TypeOK, RecordInv, Over, Unlaunched, Final, Terminal
<1>9. PassInv'
    BY DEF TypeOK, PassInv, Over, Quiet, Unlaunched, Final, Terminal
<1> QED
    BY <1>1, <1>2, <1>3, <1>4, <1>5, <1>6, <1>7, <1>8, <1>9

LEMMA GuardianDiesIInv ==
    ASSUME IInv, NEW a \in Attempts, GuardianDies(a)
    PROVE  IInv'
<1> USE CustodyAssumption, NoneAssumption DEF IInv, GuardianDies, Dropped,
   GuardianLives, Unlaunched, Moved, Died, files, procs
<1>1. TypeOK'
    BY LockOfType, ProcessType DEF TypeOK, GuardianSteps
<1>2. FlockInv'
    <2>1. lock' = Dropped({Guardian(a)})
        BY DEF GuardianDies
    <2> QED
        BY <2>1, DropFlock
<1>3. HeldInv'
    <2>1. \A l \in Locks : \A x \in lock[l] : x # Guardian(a) => x \in lock'[l]
        BY DEF TypeOK
    <2>2. ASSUME NEW b \in Attempts PROVE Held(b)'
        <3>1. Held(b) /\ LockOf(b) \in Locks
            BY LockOfType DEF HeldInv
        <3>2. CASE b = a
            BY <2>1, <3>1, <3>2, ProcessNames DEF Held, TypeOK, LauncherHolds,
               GuardianLives, Unlaunched
        <3>3. CASE b # a
            <4>1. /\ launcher'[b] = launcher[b] /\ guardian'[b] = guardian[b]
                  /\ provider'[b] = provider[b]
                BY <3>3 DEF TypeOK
            <4>2. \A x \in {Launcher(b), Guardian(b), Provider(b)} :
                    x \in lock[LockOf(b)] => x \in lock'[LockOf(b)]
                BY <2>1, <3>1, <3>3, ProcessNames
            <4> QED
                BY <3>1, <4>1, <4>2, HeldKept
        <3> QED
            BY <3>2, <3>3
    <2>3. ASSUME NEW q \in Passes PROVE Excluded(q)'
        <3>1. Excluded(q) /\ (pass[q].at # "idle" => LockOf(pass[q].of) \in Locks)
            BY LockOfType DEF HeldInv, PassInv
        <3> QED
            BY <2>1, <3>1, ProcessNames DEF Excluded, TypeOK, Excluding, Idle
    <2> QED
        BY <2>2, <2>3 DEF HeldInv
<1>4. LaunchInv'
    BY DEF TypeOK, LaunchInv
<1>5. GuardianInv'
    BY DEF TypeOK, GuardianInv, BeforeExit, Releasing
<1>6. EvidenceInv'
    BY DEF TypeOK, EvidenceInv, Over
<1>7. ExitInv'
    BY LockOfType, ProcessNames DEF TypeOK, ExitInv
<1>8. RecordInv'
    BY DEF TypeOK, RecordInv, Over, Final, Terminal
<1>9. PassInv'
    BY DEF TypeOK, PassInv, Over, Quiet, Final, Terminal
<1> QED
    BY <1>1, <1>2, <1>3, <1>4, <1>5, <1>6, <1>7, <1>8, <1>9

LEMMA LookIInv ==
    ASSUME IInv, NEW p \in Passes, NEW a \in Attempts, Look(p, a)
    PROVE  IInv'
<1> USE CustodyAssumption, NoneAssumption DEF IInv, Look, At, files, procs, world
<1>1. TypeOK'
    BY DEF TypeOK, PassSteps
<1>2. FlockInv'
    BY DEF FlockInv
<1>3. HeldInv'
    BY LockOfType, ProcessNames DEF TypeOK, HeldInv, Held, Excluded, LauncherHolds,
       Excluding, GuardianLives, Unlaunched
<1>4. LaunchInv'
    BY DEF LaunchInv
<1>5. GuardianInv'
    BY DEF GuardianInv, GuardianLives
<1>6. EvidenceInv'
    BY DEF EvidenceInv, Over
<1>7. ExitInv'
    BY LockOfType, ProcessNames DEF TypeOK, ExitInv
<1>8. RecordInv'
    BY DEF RecordInv, Over
<1>9. PassInv'
    BY DEF TypeOK, PassInv, Over, Quiet, Unlaunched, Final, Terminal
<1> QED
    BY <1>1, <1>2, <1>3, <1>4, <1>5, <1>6, <1>7, <1>8, <1>9

LEMMA SettleRebootedIInv ==
    ASSUME IInv, NEW p \in Passes, NEW a \in Attempts, pass[p].of = a, SettleRebooted(p, a)
    PROVE  IInv'
<1> USE CustodyAssumption, NoneAssumption DEF IInv, SettleRebooted, RebootProved, At,
   Holding, Taken, Recoverable, Free, PassTo, files,
    procs, world, NeedsLost
<1>1. TypeOK'
    BY LockOfType, ProcessType DEF TypeOK, PassSteps
<1>2. FlockInv'
    BY <1>1, LockOfType, ProcessType, TakeFlock
<1>3. HeldInv'
    BY LockOfType, ProcessNames DEF TypeOK, HeldInv, Held, Excluded, LauncherHolds,
       Excluding, GuardianLives, Unlaunched
<1>4. LaunchInv'
    BY DEF LaunchInv
<1>5. GuardianInv'
    BY DEF GuardianInv, GuardianLives
<1>6. EvidenceInv'
    BY DEF EvidenceInv, Over
<1>7. ExitInv'
    <2>1. lock' = Taken(LockOf(a), Pass(p)) /\ UNCHANGED <<exit, provider, orphan, named>>
        OBVIOUS
    <2> QED
        BY ONLY IInv, p \in Passes, a \in Attempts, <2>1, LockOfType, PassTakesExit
<1>8. RecordInv'
    BY DEF RecordInv, Over
<1>9. PassInv'
    BY <1>1 DEF TypeOK, PassInv, Over, Quiet, Unlaunched, Final, Terminal, LaunchInv,
       GuardianInv, EvidenceInv, ExitInv, RecordInv, Excluding
<1> QED
    BY <1>1, <1>2, <1>3, <1>4, <1>5, <1>6, <1>7, <1>8, <1>9

LEMMA SettleRebootedTerminalIInv ==
    ASSUME IInv, NEW p \in Passes, NEW a \in Attempts, pass[p].of = a, SettleRebootedTerminal(p, a)
    PROVE  IInv'
<1> USE CustodyAssumption, NoneAssumption DEF IInv, SettleRebootedTerminal,
   RebootProved, At, Holding, Taken, Recoverable, Free, PassTo,
    files, procs, world
<1>1. TypeOK'
    BY LockOfType, ProcessType DEF TypeOK, PassSteps
<1>2. FlockInv'
    BY <1>1, LockOfType, ProcessType, TakeFlock
<1>3. HeldInv'
    BY LockOfType, ProcessNames DEF TypeOK, HeldInv, Held, Excluded, LauncherHolds,
       Excluding, GuardianLives, Unlaunched
<1>4. LaunchInv'
    BY DEF LaunchInv
<1>5. GuardianInv'
    BY DEF GuardianInv, GuardianLives
<1>6. EvidenceInv'
    BY DEF EvidenceInv, Over
<1>7. ExitInv'
    <2>1. lock' = Taken(LockOf(a), Pass(p)) /\ UNCHANGED <<exit, provider, orphan, named>>
        OBVIOUS
    <2> QED
        BY ONLY IInv, p \in Passes, a \in Attempts, <2>1, LockOfType, PassTakesExit
<1>8. RecordInv'
    BY DEF RecordInv, Over
<1>9. PassInv'
    BY <1>1 DEF TypeOK, PassInv, Over, Quiet, Unlaunched, Final, Terminal, LaunchInv,
       GuardianInv, EvidenceInv, ExitInv, RecordInv, Excluding
<1> QED
    BY <1>1, <1>2, <1>3, <1>4, <1>5, <1>6, <1>7, <1>8, <1>9

LEMMA SettleNeverSpawnedIInv ==
    ASSUME IInv, NEW p \in Passes, NEW a \in Attempts, pass[p].of = a, SettleNeverSpawned(p, a)
    PROVE  IInv'
<1>1. TypeOK'
    BY HoldingTyped DEF IInv, SettleNeverSpawned, PassSteps
<1> USE CustodyAssumption, NoneAssumption DEF IInv, SettleNeverSpawned, Absent,
   GuardianLives, Unlaunched, At, Holding, Taken,
    Recoverable, Free, PassTo, files, procs, world, NeedsLost
<1>2. FlockInv'
    BY <1>1, LockOfType, ProcessType, TakeFlock
<1>3. HeldInv'
    BY LockOfType, ProcessNames DEF TypeOK, HeldInv, Held, Excluded, LauncherHolds,
       Excluding
<1>4. LaunchInv'
    BY DEF LaunchInv
<1>5. GuardianInv'
    BY DEF GuardianInv, GuardianLives
<1>6. EvidenceInv'
    BY DEF EvidenceInv, Over
<1>7. ExitInv'
    <2>1. lock' = Taken(LockOf(a), Pass(p)) /\ UNCHANGED <<exit, provider, orphan, named>>
        OBVIOUS
    <2> QED
        BY ONLY IInv, p \in Passes, a \in Attempts, <2>1, LockOfType, PassTakesExit
<1>8. RecordInv'
    BY DEF RecordInv, Over
<1>9. PassInv'
    <2>1. /\ UNCHANGED <<record, exit, named, launcher, guardian, procs>>
          /\ pass'[p].of = a /\ pass'[p].at = "lose"
          /\ \A q \in Passes : q # p => pass'[q] = pass[q]
        BY DEF TypeOK
    <2>2. Over(a) /\ exit[a] = "absent"
        <3>1. reservation[a] # None /\ reservation[a].state = "NeverSpawned" /\ exit[a] = "absent"
            OBVIOUS
        <3>2. provider[a] = "none" /\ orphan[a] = "none"
            BY <3>1 DEF EvidenceInv, LaunchInv
        <3> QED
            BY <3>1, <3>2, FreeMeans DEF Over
    <2> HIDE DEF SettleNeverSpawned, Holding
    <2> QED
        BY <2>1, <2>2 DEF PassInv, Over, Quiet
<1> QED
    BY <1>1, <1>2, <1>3, <1>4, <1>5, <1>6, <1>7, <1>8, <1>9

LEMMA WithdrawPreparedIInv ==
    ASSUME IInv, NEW p \in Passes, NEW a \in Attempts, pass[p].of = a, WithdrawPrepared(p, a)
    PROVE  IInv'
<1> USE CustodyAssumption, NoneAssumption DEF IInv, WithdrawPrepared, Recoverable,
   Free, NoReservation, At, PassTo, files, procs, world
<1>1. TypeOK'
    <2>1. pass' \in [Passes -> [at : PassSteps, of : Attempts \cup {None}]]
        BY DEF TypeOK, PassSteps
    <2>2. lock' \in [Locks -> SUBSET Processes]
        BY LockOfType, ProcessType DEF TypeOK
    <2>3. reservation' \in [Attempts -> Reservations \cup {None}]
        BY DEF TypeOK
    <2> QED
        BY <2>1, <2>2, <2>3 DEF TypeOK
<1>2. FlockInv'
    BY DEF FlockInv
<1>3. HeldInv'
    BY LockOfType, ProcessNames DEF TypeOK, HeldInv, Held, Excluded, LauncherHolds,
       Excluding, GuardianLives, Unlaunched
<1>4. LaunchInv'
    BY <1>1, LockOfType, ProcessNames DEF TypeOK, GuardianLives, HeldInv, Held,
       Excluded, LaunchInv, GuardianInv, EvidenceInv, ExitInv, RecordInv, PassInv,
       LauncherHolds, BeforeExit, Releasing, Excluding, Final, Over, Quiet, Unlaunched,
       Terminal
<1>5. GuardianInv'
    BY <1>1, LockOfType, ProcessNames DEF TypeOK, GuardianLives, HeldInv, Held,
       Excluded, LaunchInv, GuardianInv, EvidenceInv, ExitInv, RecordInv, PassInv,
       LauncherHolds, BeforeExit, Releasing, Excluding, Final, Over, Quiet, Unlaunched,
       Terminal
<1>6. EvidenceInv'
    BY DEF TypeOK, EvidenceInv, Over, Unlaunched
<1>7. ExitInv'
    BY LockOfType, ProcessNames DEF TypeOK, ExitInv
<1>8. RecordInv'
    BY DEF RecordInv, Over
<1>9. PassInv'
    BY DEF TypeOK, PassInv, Over, Quiet, Unlaunched, Final, Terminal
<1> QED
    BY <1>1, <1>2, <1>3, <1>4, <1>5, <1>6, <1>7, <1>8, <1>9

LEMMA ProveUnreservedIInv ==
    ASSUME IInv, NEW p \in Passes, NEW a \in Attempts, pass[p].of = a, ProveUnreserved(p, a)
    PROVE  IInv'
<1> USE CustodyAssumption, NoneAssumption DEF IInv, ProveUnreserved, Free, Taken, At,
   PassTo, files, procs, world
<1>1. TypeOK'
    <2>1. pass' \in [Passes -> [at : PassSteps, of : Attempts \cup {None}]]
        BY DEF TypeOK, PassSteps
    <2>2. lock' \in [Locks -> SUBSET Processes]
        BY LockOfType, ProcessType DEF TypeOK
    <2>3. reservation' \in [Attempts -> Reservations \cup {None}]
        BY DEF TypeOK
    <2> QED
        BY <2>1, <2>2, <2>3 DEF TypeOK
<1>2. FlockInv'
    <2>1. a \in Locks /\ Pass(p) \in Processes /\ Free(a) /\ lock' = Taken(a, Pass(p))
        BY LockOfType, ProcessType
    <2> HIDE DEF Free, Taken
    <2> QED
        BY <2>1, TakeFlock
<1>3. HeldInv'
    BY LockOfType, ProcessNames DEF TypeOK, HeldInv, Held, Excluded, LauncherHolds,
       Excluding, GuardianLives, Unlaunched
<1>4. LaunchInv'
    BY DEF LaunchInv
<1>5. GuardianInv'
    BY DEF GuardianInv, GuardianLives
<1>6. EvidenceInv'
    BY DEF EvidenceInv, Over
<1>7. ExitInv'
    <2>1. lock' = Taken(a, Pass(p)) /\ UNCHANGED <<exit, provider, orphan, named>>
        OBVIOUS
    <2> QED
        BY ONLY IInv, p \in Passes, a \in Attempts, <2>1, LockOfType, PassTakesExit
<1>8. RecordInv'
    BY DEF RecordInv, Over
<1>9. PassInv'
    BY DEF TypeOK, PassInv, Over, Quiet, Unlaunched, Final, Terminal
<1> QED
    BY <1>1, <1>2, <1>3, <1>4, <1>5, <1>6, <1>7, <1>8, <1>9

LEMMA ProveReaderAbsentIInv ==
    ASSUME IInv, NEW p \in Passes, NEW a \in Attempts, pass[p].of = a, ProveReaderAbsent(p, a)
    PROVE  IInv'
<1>1. TypeOK'
    BY HoldingTyped DEF IInv, ProveReaderAbsent, PassSteps
<1> USE CustodyAssumption, NoneAssumption DEF IInv, ProveReaderAbsent, Absent,
   GuardianLives, Unlaunched, At, Holding, Taken,
    Recoverable, Free, PassTo, files, procs, world
<1>2. FlockInv'
    BY <1>1, LockOfType, ProcessType, TakeFlock
<1>3. HeldInv'
    BY LockOfType, ProcessNames DEF TypeOK, HeldInv, Held, Excluded, LauncherHolds,
       Excluding
<1>4. LaunchInv'
    BY DEF LaunchInv
<1>5. GuardianInv'
    BY DEF GuardianInv, GuardianLives
<1>6. EvidenceInv'
    BY DEF EvidenceInv, Over
<1>7. ExitInv'
    <2>1. lock' = Taken(LockOf(a), Pass(p)) /\ UNCHANGED <<exit, provider, orphan, named>>
        OBVIOUS
    <2> QED
        BY ONLY IInv, p \in Passes, a \in Attempts, <2>1, LockOfType, PassTakesExit
<1>8. RecordInv'
    BY DEF RecordInv, Over
<1>9. PassInv'
    BY DEF TypeOK, PassInv, Over, Quiet, Final, Terminal
<1> QED
    BY <1>1, <1>2, <1>3, <1>4, <1>5, <1>6, <1>7, <1>8, <1>9

LEMMA EndOrphansAmends ==
    ASSUME IInv, NEW p \in Passes, NEW a \in Attempts, pass[p].of = a, EndOrphans(p, a)
    PROVE  Amended(a, reservation[a].state, FALSE)
<1>1. reservation[a] \in Reservations
    BY DEF IInv, TypeOK, EndOrphans, Recoverable
<1>2. reservation \in [Attempts -> Reservations \cup {None}]
    BY DEF IInv, TypeOK
<1>3. reservation' = [reservation EXCEPT ![a].unresolved = FALSE]
    BY DEF EndOrphans
<1>4. reservation' \in [Attempts -> Reservations \cup {None}] /\ reservation'[a] \in Reservations
    BY <1>1, <1>2, <1>3 DEF Reservations, LaunchStates
<1> QED
    BY <1>1, <1>2, <1>3, <1>4, NoneAssumption DEF Amended, Reservations

\* The sweep's verdict: swept leaves nobody it named.
LEMMA EndOrphansVerdict ==
    ASSUME TypeOK, NEW p \in Passes, NEW a \in Attempts, pass[p].of = a, EndOrphans(p, a)
    PROVE  /\ pass' \in [Passes -> [at : PassSteps, of : Attempts \cup {None}]]
           /\ \A q \in Passes : q # p => pass'[q] = pass[q]
           /\ pass'[p].of = a /\ pass'[p].at \in {"swept", "unproven"}
           /\ pass'[p].at = "swept" /\ orphan'[a] = "live" => named[a] # "orphan"
<1>1. pass \in [Passes -> [at : PassSteps, of : Attempts \cup {None}]]
    BY DEF TypeOK
<1>2. orphan \in [Attempts -> {"none", "live", "gone"}]
    BY DEF TypeOK
<1>3. ASSUME NEW step \in {"swept", "unproven"}, PassTo(p, step)
      PROVE  /\ pass' \in [Passes -> [at : PassSteps, of : Attempts \cup {None}]]
             /\ \A q \in Passes : q # p => pass'[q] = pass[q]
             /\ pass'[p].of = a /\ pass'[p].at = step
    BY <1>1, <1>3 DEF PassTo, PassSteps
<1>4. CASE PassTo(p, "swept") /\ orphan' = IF named[a] = "orphan" THEN OrphanGone(a) ELSE orphan
    <2>1. named[a] = "orphan" => orphan'[a] # "live"
        BY <1>2, <1>4 DEF OrphanGone
    <2> QED
        BY <1>3, <1>4, <2>1
<1>5. CASE PassTo(p, "unproven")
    BY <1>3, <1>5
<1> QED
    BY <1>4, <1>5 DEF EndOrphans

LEMMA EndOrphansIInv ==
    ASSUME IInv, NEW p \in Passes, NEW a \in Attempts, pass[p].of = a, EndOrphans(p, a)
    PROVE  IInv'
<1>r. Amended(a, reservation[a].state, FALSE)
    BY EndOrphansAmends DEF IInv
<1>p. /\ pass' \in [Passes -> [at : PassSteps, of : Attempts \cup {None}]]
      /\ \A q \in Passes : q # p => pass'[q] = pass[q]
      /\ pass'[p].of = a /\ pass'[p].at \in {"swept", "unproven"}
      /\ pass'[p].at = "swept" /\ orphan'[a] = "live" => named[a] # "orphan"
    BY EndOrphansVerdict DEF IInv
<1> USE CustodyAssumption, NoneAssumption DEF IInv, EndOrphans, Sweepable, GuardianLives,
   Unlaunched, Recoverable, Free, OrphanGone, At, PassTo,
    files, world
<1> USE DEF Amended
<1>f. /\ launcher[a] = "ended" /\ guardian[a] = "ended" /\ exit[a] = "unresolved"
      /\ provider[a] = "gone"
    BY FreeMeans DEF LaunchInv, ExitInv
<1>o. /\ orphan' \in [Attempts -> {"none", "live", "gone"}]
      /\ \A b \in Attempts : b # a => orphan'[b] = orphan[b]
      /\ orphan'[a] \in {orphan[a], "gone"}
    BY DEF TypeOK
<1>l. lock' = Taken(LockOf(a), Pass(p)) /\ lock[LockOf(a)] = {}
    OBVIOUS
<1>u. UNCHANGED <<record, files, launcher, guardian, provider, world>>
    OBVIOUS
<1>1. TypeOK'
    <2>1. lock' \in [Locks -> SUBSET Processes]
        BY <1>l, LockOfType, ProcessType DEF TypeOK, Taken
    <2> QED
        BY <1>r, <1>o, <1>p, <2>1 DEF TypeOK
<1>2. FlockInv'
    BY <1>l, LockOfType, ProcessType, TakeFlock
<1> HIDE DEF EndOrphans
<1>3. HeldInv'
    BY <1>l, <1>p, <1>u, LockOfType, ProcessNames DEF TypeOK, HeldInv, Held, Excluded, Taken,
       LauncherHolds, Excluding
<1>4. LaunchInv'
    BY <1>r, <1>f, <1>o, <1>u DEF LaunchInv
<1>5. GuardianInv'
    BY <1>r, <1>f, <1>o, <1>u DEF GuardianInv, BeforeExit, Releasing
<1>6. EvidenceInv'
    BY <1>r, <1>f, <1>o, <1>u DEF EvidenceInv, Over
<1>7. ExitInv'
    <2>1. \A b \in Attempts : orphan'[b] \in {orphan[b], "gone"}
        BY <1>o
    <2> QED
        BY <1>u, <1>l, <2>1, LockOfType, PassTakesExit
<1>8. RecordInv'
    BY <1>o, <1>u DEF RecordInv, Over
<1>9. PassInv'
    BY <1>f, <1>o, <1>p, <1>u DEF PassInv, Over, Quiet, Final
<1> QED
    BY <1>1, <1>2, <1>3, <1>4, <1>5, <1>6, <1>7, <1>8, <1>9

LEMMA FinishWriterIInv ==
    ASSUME IInv, NEW p \in Passes, NEW a \in Attempts, pass[p].of = a, FinishWriter(p, a)
    PROVE  IInv'
<1> USE CustodyAssumption, NoneAssumption DEF IInv, FinishWriter, Absent,
   GuardianLives, Unlaunched, At, Holding, Taken, Recoverable,
    Free, PassTo, files, procs, world
<1>1. TypeOK'
    <2>1. pass' \in [Passes -> [at : PassSteps, of : Attempts \cup {None}]]
        BY DEF TypeOK, PassSteps
    <2>2. lock' \in [Locks -> SUBSET Processes]
        BY LockOfType, ProcessType DEF TypeOK
    <2>3. reservation' \in [Attempts -> Reservations \cup {None}]
        BY DEF TypeOK
    <2> QED
        BY <2>1, <2>2, <2>3 DEF TypeOK
<1>2. FlockInv'
    BY <1>1, LockOfType, ProcessType, TakeFlock
<1>3. HeldInv'
    BY LockOfType, ProcessNames DEF TypeOK, HeldInv, Held, Excluded, LauncherHolds,
       Excluding
<1>4. LaunchInv'
    BY DEF LaunchInv
<1>5. GuardianInv'
    BY DEF GuardianInv, GuardianLives
<1>6. EvidenceInv'
    BY DEF EvidenceInv, Over
<1>7. ExitInv'
    <2>1. lock' = Taken(LockOf(a), Pass(p)) /\ UNCHANGED <<exit, provider, orphan, named>>
        OBVIOUS
    <2> QED
        BY ONLY IInv, p \in Passes, a \in Attempts, <2>1, LockOfType, PassTakesExit
<1>8. RecordInv'
    BY DEF RecordInv, Over
<1>9. PassInv'
    BY <1>1, LockOfType, ProcessNames DEF TypeOK, HeldInv, Held, Excluded, LaunchInv,
       GuardianInv, EvidenceInv, ExitInv, RecordInv, PassInv, LauncherHolds, BeforeExit,
       Releasing, Excluding, Final, Over, Quiet, Terminal
<1> QED
    BY <1>1, <1>2, <1>3, <1>4, <1>5, <1>6, <1>7, <1>8, <1>9

LEMMA FinishReaderIInv ==
    ASSUME IInv, NEW p \in Passes, NEW a \in Attempts, pass[p].of = a, FinishReader(p, a)
    PROVE  IInv'
<1> USE DEF IInv, FinishReader, At, PassTo, files, procs, world
<1>1. /\ pass' \in [Passes -> [at : PassSteps, of : Attempts \cup {None}]]
      /\ pass'[p].of = a /\ pass'[p].at = "finish_reader"
      /\ \A q \in Passes : q # p => pass'[q] = pass[q]
    BY DEF TypeOK, PassSteps
<1>2. TypeOK'
    BY <1>1 DEF TypeOK
<1>3. FlockInv' /\ HeldInv' /\ LaunchInv' /\ GuardianInv'
    BY <1>1 DEF FlockInv, HeldInv, Held, Excluded, Excluding, GuardianLives, LaunchInv,
       GuardianInv
<1>4. EvidenceInv' /\ ExitInv' /\ RecordInv'
    BY DEF EvidenceInv, ExitInv, RecordInv, Over
<1>5. PassInv'
    BY <1>1 DEF PassInv, Over, Quiet
<1> QED
    BY <1>2, <1>3, <1>4, <1>5

LEMMA FinishTerminalIInv ==
    ASSUME IInv, NEW p \in Passes, NEW a \in Attempts, pass[p].of = a, FinishTerminal(p, a)
    PROVE  IInv'
<1> USE CustodyAssumption, NoneAssumption DEF IInv, FinishTerminal, Absent,
   GuardianLives, Unlaunched, At, Holding, Taken, Recoverable,
    Free, PassTo, files, procs, world
<1>1. TypeOK'
    <2>1. pass' \in [Passes -> [at : PassSteps, of : Attempts \cup {None}]]
        BY DEF TypeOK, PassSteps
    <2>2. lock' \in [Locks -> SUBSET Processes]
        BY LockOfType, ProcessType DEF TypeOK
    <2>3. reservation' \in [Attempts -> Reservations \cup {None}]
        BY DEF TypeOK
    <2> QED
        BY <2>1, <2>2, <2>3 DEF TypeOK
<1>2. FlockInv'
    BY <1>1, LockOfType, ProcessType, TakeFlock
<1>3. HeldInv'
    BY LockOfType, ProcessNames DEF TypeOK, HeldInv, Held, Excluded, LauncherHolds,
       Excluding
<1>4. LaunchInv'
    BY DEF LaunchInv
<1>5. GuardianInv'
    BY DEF GuardianInv, GuardianLives
<1>6. EvidenceInv'
    BY DEF EvidenceInv, Over
<1>7. ExitInv'
    <2>1. lock' = Taken(LockOf(a), Pass(p)) /\ UNCHANGED <<exit, provider, orphan, named>>
        OBVIOUS
    <2> QED
        BY ONLY IInv, p \in Passes, a \in Attempts, <2>1, LockOfType, PassTakesExit
<1>8. RecordInv'
    BY DEF RecordInv, Over
<1>9. PassInv'
    BY <1>1, LockOfType, ProcessNames DEF TypeOK, HeldInv, Held, Excluded, LaunchInv,
       GuardianInv, EvidenceInv, ExitInv, RecordInv, PassInv, LauncherHolds, BeforeExit,
       Releasing, Excluding, Final, Over, Quiet, Terminal
<1> QED
    BY <1>1, <1>2, <1>3, <1>4, <1>5, <1>6, <1>7, <1>8, <1>9

LEMMA CommitLostIInv ==
    ASSUME IInv, NEW p \in Passes, NEW a \in Attempts, pass[p].of = a, CommitLost(p, a)
    PROVE  IInv'
<1> USE DEF IInv, CommitLost, At, files, procs, world
<1>o. Over(a) /\ exit[a] = "absent" /\ a \in Attempts
    BY DEF PassInv
<1>1. CASE Conflict(a)
    <2>w. /\ record' \in [Attempts -> RecordStates]
          /\ \A b \in Attempts : b # a => record'[b] = record[b]
          /\ \/ record'[a] = record[a]
             \/ record[a] \in {"none", "queued", "starting"} /\ record'[a] = "withdrawn"
        BY <1>1, WithdrawnMeans DEF Conflict
    <2>p. PassEnds(p)
        BY <1>1
    <2>1. TypeOK'
        BY <2>p, PassEndsHeld, <2>w DEF TypeOK, RecordStates
    <2>2. FlockInv' /\ HeldInv'
        BY <2>p, PassEndsHeld
    <2>3. LaunchInv' /\ EvidenceInv'
        BY DEF LaunchInv, EvidenceInv, Over
    <2>4. GuardianInv'
        BY <2>w DEF GuardianInv, GuardianLives, Terminal
    <2>5. ExitInv'
        BY <2>p, PassEndsHeld DEF ExitInv
    <2>6. RecordInv'
        BY <2>w DEF RecordInv, Over
    <2>7. PassInv'
        BY <2>p, PassEndsHeld, <2>w, PassEndsInv DEF Terminal
    <2> QED
        BY <2>1, <2>2, <2>3, <2>4, <2>5, <2>6, <2>7
<1>2. CASE ~Conflict(a)
    <2>w. Committed(a, "lost")
        <3>1. CASE record[a] \in Terminal \/ intent[a] = "none"
            BY <3>1 DEF TypeOK, Terminal, RecordStates, Committed
        <3>2. CASE ~(record[a] \in Terminal \/ intent[a] = "none")
            BY <1>2, <3>2, WithdrawnMeans DEF Committed
        <3> QED
            BY <3>1, <3>2
    <2>p. /\ pass' \in [Passes -> [at : PassSteps, of : Attempts \cup {None}]]
          /\ pass'[p].of = a /\ pass'[p].at = "release" /\ pass[p].at = "lose"
          /\ \A q \in Passes : q # p => pass'[q] = pass[q]
          /\ UNCHANGED lock
        <3>1. PassTo(p, "release") /\ UNCHANGED lock /\ pass[p].at = "lose"
            BY <1>2
        <3> QED
            BY ONLY TypeOK, p \in Passes, pass[p].of = a, <3>1 DEF TypeOK, PassTo, PassSteps
    <2>u. UNCHANGED <<reservation, files, launcher, guardian, procs, world>>
        OBVIOUS
    <2> HIDE DEF CommitLost
    <2> USE DEF Committed
    <2>1. TypeOK'
        BY <2>p, <2>u, <2>w DEF TypeOK, RecordStates
    <2>2. FlockInv' /\ HeldInv'
        BY <2>p, <2>u DEF FlockInv, HeldInv, Held, Excluded, Excluding, GuardianLives
    <2>3. LaunchInv' /\ EvidenceInv' /\ ExitInv'
        BY <2>p, <2>u DEF LaunchInv, EvidenceInv, ExitInv, Over
    <2>4. GuardianInv'
        BY <2>u, <2>w DEF GuardianInv, GuardianLives, Terminal
    <2>6. RecordInv'
        BY <1>o, <2>u, <2>w DEF RecordInv, Over, Unlaunched
    <2>7. PassInv'
        BY <1>o, <2>p, <2>u, <2>w DEF PassInv, Over, Quiet, Terminal
    <2> QED
        BY <2>1, <2>2, <2>3, <2>4, <2>6, <2>7
<1> QED
    BY <1>1, <1>2

LEMMA ReleaseFenceIInv ==
    ASSUME IInv, NEW p \in Passes, NEW a \in Attempts, pass[p].of = a, ReleaseFence(p, a)
    PROVE  IInv'
<1> USE CustodyAssumption, NoneAssumption DEF IInv, ReleaseFence, NoReservation, At,
   PassEnds, Dropped, Idle, files, procs, world
<1>1. TypeOK'
    BY LockOfType, ProcessType DEF TypeOK, PassSteps, Reservations, LaunchStates
<1>2. FlockInv'
    BY PassEndsHeld
<1>3. HeldInv'
    BY PassEndsHeld
<1>4. LaunchInv'
    BY <1>1, LockOfType, ProcessNames DEF TypeOK, GuardianLives, HeldInv, Held,
       Excluded, LaunchInv, GuardianInv, EvidenceInv, ExitInv, RecordInv, PassInv,
       LauncherHolds, BeforeExit, Releasing, Excluding, Final, Over, Quiet, Unlaunched,
       Terminal
<1>5. GuardianInv'
    BY <1>1, LockOfType, ProcessNames DEF TypeOK, GuardianLives, HeldInv, Held,
       Excluded, LaunchInv, GuardianInv, EvidenceInv, ExitInv, RecordInv, PassInv,
       LauncherHolds, BeforeExit, Releasing, Excluding, Final, Over, Quiet, Unlaunched,
       Terminal
<1>6. EvidenceInv'
    BY DEF TypeOK, EvidenceInv, Over, Unlaunched
<1>7. ExitInv'
    BY LockOfType, ProcessNames DEF TypeOK, ExitInv
<1>8. RecordInv'
    BY DEF RecordInv, Over
<1>9. PassInv'
    BY DEF TypeOK, PassInv, Over, Quiet, Unlaunched, Final, Terminal
<1> QED
    BY <1>1, <1>2, <1>3, <1>4, <1>5, <1>6, <1>7, <1>8, <1>9

LEMMA PassWithdrawsIInv ==
    ASSUME IInv, NEW p \in Passes, NEW a \in Attempts, pass[p].of = a, PassWithdraws(p, a)
    PROVE  IInv'
<1> USE DEF IInv, PassWithdraws, procs, world
<1>i. intent' \in [Attempts -> {"none", "queued", "starting"}]
    BY DEF TypeOK, Sealed
<1>p. /\ pass' \in [Passes -> [at : PassSteps, of : Attempts \cup {None}]]
      /\ \A q \in Passes : q # p => pass'[q] = pass[q]
      /\ pass'[p] = Idle \/ (pass'[p].at = "sealed" /\ pass'[p].of = a)
      /\ lock' \in [Locks -> SUBSET Processes]
      /\ \A b \in Attempts :
            Orphan(b) \in lock'[LockOf(b)] => Orphan(b) \in lock[LockOf(b)]
      /\ FlockInv' /\ HeldInv'
    <2>1. CASE PassEnds(p)
        BY <2>1, PassEndsHeld DEF TypeOK
    <2>2. CASE PassTo(p, "sealed") /\ UNCHANGED lock
        <3>1. /\ pass' \in [Passes -> [at : PassSteps, of : Attempts \cup {None}]]
              /\ \A q \in Passes : q # p => pass'[q] = pass[q]
              /\ pass'[p].at = "sealed" /\ pass'[p].of = a
            BY <2>2 DEF TypeOK, PassTo, PassSteps
        <3>2. FlockInv' /\ HeldInv'
            BY <2>2, <3>1 DEF FlockInv, HeldInv, Held, Excluded, Excluding, GuardianLives
        <3> QED
            BY <2>2, <3>1, <3>2 DEF TypeOK
    <2> QED
        BY <2>1, <2>2
<1>u. UNCHANGED <<record, reservation, summary, exit, journal, cancel, named, launcher,
                  guardian, procs, world>>
    OBVIOUS
<1> HIDE DEF PassWithdraws
<1>1. TypeOK'
    BY <1>i, <1>p, <1>u DEF TypeOK
<1>2. LaunchInv' /\ GuardianInv' /\ EvidenceInv' /\ RecordInv'
    BY <1>u DEF LaunchInv, GuardianInv, GuardianLives, EvidenceInv, RecordInv, Over
<1>3. ExitInv'
    BY <1>p, <1>u DEF ExitInv
<1>4. PassInv'
    BY <1>p, <1>u DEF PassInv, Over, Quiet, Idle
<1> QED
    BY <1>p, <1>1, <1>2, <1>3, <1>4

LEMMA PassCommitsIInv ==
    ASSUME IInv, NEW p \in Passes, NEW a \in Attempts, pass[p].of = a, PassCommits(p, a)
    PROVE  IInv'
<1> USE DEF IInv, PassCommits, files, procs, world
<1>w. /\ record' \in [Attempts -> RecordStates]
      /\ \A b \in Attempts : b # a => record'[b] = record[b]
      /\ \/ record'[a] = record[a]
         \/ record[a] \in {"none", "queued", "starting"} /\ record'[a] = "withdrawn"
    BY WithdrawnMeans
<1>1. TypeOK'
    BY PassEndsHeld, <1>w DEF TypeOK, RecordStates
<1>2. FlockInv' /\ HeldInv'
    BY PassEndsHeld
<1>3. LaunchInv' /\ EvidenceInv'
    BY DEF LaunchInv, EvidenceInv, Over
<1>4. GuardianInv'
    BY <1>w DEF GuardianInv, GuardianLives, Terminal
<1>5. ExitInv'
    BY PassEndsHeld DEF ExitInv
<1>6. RecordInv'
    BY <1>w DEF RecordInv, Over
<1>7. PassInv'
    BY PassEndsHeld, <1>w, PassEndsInv DEF Terminal
<1> QED
    BY <1>1, <1>2, <1>3, <1>4, <1>5, <1>6, <1>7

LEMMA SweptExitIInv ==
    ASSUME IInv, NEW p \in Passes, NEW a \in Attempts, pass[p].of = a, SweptExit(p, a)
    PROVE  IInv'
<1> USE CustodyAssumption, NoneAssumption DEF IInv, SweptExit, At, PassEnds, Dropped,
   Idle, procs, world
<1>1. TypeOK'
    BY LockOfType, ProcessType DEF TypeOK, PassSteps, Exits, Final
<1>2. FlockInv'
    BY PassEndsHeld
<1>3. HeldInv'
    BY PassEndsHeld
<1>4. LaunchInv'
    BY <1>1, LockOfType, ProcessNames DEF TypeOK, GuardianLives, HeldInv, Held,
       Excluded, LaunchInv, GuardianInv, EvidenceInv, ExitInv, RecordInv, PassInv,
       LauncherHolds, BeforeExit, Releasing, Excluding, Final, Over, Quiet, Unlaunched,
       Terminal
<1>5. GuardianInv'
    BY <1>1, LockOfType, ProcessNames DEF TypeOK, GuardianLives, HeldInv, Held,
       Excluded, LaunchInv, GuardianInv, EvidenceInv, ExitInv, RecordInv, PassInv,
       LauncherHolds, BeforeExit, Releasing, Excluding, Final, Over, Quiet, Unlaunched,
       Terminal
<1>6. EvidenceInv'
    BY DEF TypeOK, EvidenceInv, Over, Unlaunched
<1>7. ExitInv'
    <2>1. Pass(p) \in lock[LockOf(a)] /\ LockOf(a) \in Locks
        BY LockOfType DEF HeldInv, Excluded, Excluding
    <2>2. Orphan(a) \notin lock'[LockOf(a)]
        BY <2>1, ProcessNames DEF FlockInv, TypeOK, Pass, Orphan
    <2>3. /\ exit'[a] \in {"swept", "leftover"} /\ provider[a] = "gone"
          /\ exit'[a] = "swept" /\ orphan[a] = "live" => named[a] # "orphan"
          /\ UNCHANGED <<named, procs>>
          /\ \A b \in Attempts : b # a => exit'[b] = exit[b]
        BY DEF PassInv, ExitInv, TypeOK
    <2>4. \A b \in Attempts : Orphan(b) \in lock'[LockOf(b)] => Orphan(b) \in lock[LockOf(b)]
        BY PassEndsHeld
    <2> HIDE DEF SweptExit, PassEnds
    <2> QED
        BY <2>2, <2>3, <2>4 DEF ExitInv
<1>8. RecordInv'
    BY DEF TypeOK, RecordInv, Over, Unlaunched, Final, Terminal
<1>9. PassInv'
    <2>1. /\ UNCHANGED <<record, named, launcher, guardian, procs>>
          /\ \A b \in Attempts : b # a => exit'[b] = exit[b]
          /\ pass'[p] = Idle
          /\ \A q \in Passes : q # p => pass'[q] = pass[q]
        BY DEF TypeOK
    <2>2. exit[a] = "unresolved"
        BY DEF PassInv
    <2>3. ASSUME NEW q \in Passes, q # p, pass[q].at \in {"swept", "unproven"} PROVE pass[q].of # a
        BY <2>3, SolePass DEF Excluding
    <2> HIDE DEF SweptExit, PassEnds
    <2> QED
        BY <2>1, <2>2, <2>3 DEF PassInv, Over, Quiet, Final
<1> QED
    BY <1>1, <1>2, <1>3, <1>4, <1>5, <1>6, <1>7, <1>8, <1>9

LEMMA CommitFinishIInv ==
    ASSUME IInv, NEW p \in Passes, NEW a \in Attempts, pass[p].of = a, CommitFinish(p, a)
    PROVE  IInv'
<1> USE CustodyAssumption, NoneAssumption DEF IInv, CommitFinish, At,
   PassTo, files, procs, world
<1>f. Committed(a, "finished")
    BY FinishedMeans
<1> USE DEF Committed
<1>1. TypeOK'
    BY <1>f DEF TypeOK, PassSteps, RecordStates
<1>2. FlockInv'
    BY DEF FlockInv
<1>3. HeldInv'
    BY LockOfType, ProcessNames DEF TypeOK, HeldInv, Held, Excluded, LauncherHolds,
       Excluding, GuardianLives, Unlaunched
<1>4. LaunchInv'
    BY DEF LaunchInv
<1>5. GuardianInv'
    BY <1>f DEF GuardianInv, GuardianLives
<1>6. EvidenceInv'
    BY DEF EvidenceInv, Over
<1>7. ExitInv'
    BY LockOfType, ProcessNames DEF TypeOK, ExitInv
<1>8. RecordInv'
    BY <1>f DEF RecordInv, Over, PassInv
<1>9. PassInv'
    BY <1>f DEF TypeOK, PassInv, Over, Quiet, Terminal
<1> QED
    BY <1>1, <1>2, <1>3, <1>4, <1>5, <1>6, <1>7, <1>8, <1>9

LEMMA CommitReaderIInv ==
    ASSUME IInv, NEW p \in Passes, NEW a \in Attempts, pass[p].of = a, CommitReader(p, a)
    PROVE  IInv'
<1> USE DEF IInv, CommitReader, files, procs, world
<1>w. Committed(a, "finished")
    BY FinishedMeans
<1> USE DEF Committed
<1>1. TypeOK'
    BY PassEndsHeld, <1>w DEF TypeOK, RecordStates
<1>2. FlockInv' /\ HeldInv'
    BY PassEndsHeld
<1>3. LaunchInv' /\ EvidenceInv'
    BY DEF LaunchInv, EvidenceInv, Over
<1>4. GuardianInv'
    BY <1>w DEF GuardianInv, GuardianLives, Terminal
<1>5. ExitInv'
    BY PassEndsHeld DEF ExitInv
<1>6. RecordInv'
    BY <1>w DEF RecordInv, Over, PassInv, At
<1>7. PassInv'
    BY PassEndsHeld, <1>w, PassEndsInv DEF Terminal
<1> QED
    BY <1>1, <1>2, <1>3, <1>4, <1>5, <1>6, <1>7

LEMMA FinishFailsIInv ==
    ASSUME IInv, NEW p \in Passes, NEW a \in Attempts, pass[p].of = a, FinishFails(p, a)
    PROVE  IInv'
<1> USE DEF IInv, FinishFails, files, procs, world
<1>1. TypeOK'
    BY PassEndsHeld DEF TypeOK
<1>2. FlockInv' /\ HeldInv'
    BY PassEndsHeld
<1>3. LaunchInv' /\ EvidenceInv'
    BY DEF LaunchInv, EvidenceInv, Over
<1>4. GuardianInv'
    BY DEF GuardianInv, GuardianLives
<1>5. ExitInv'
    BY PassEndsHeld DEF ExitInv
<1>6. RecordInv'
    BY DEF RecordInv, Over
<1>7. PassInv'
    BY PassEndsHeld DEF TypeOK, PassInv, Over, Quiet, Idle
<1> QED
    BY <1>1, <1>2, <1>3, <1>4, <1>5, <1>6, <1>7

LEMMA SettleRecoveredIInv ==
    ASSUME IInv, NEW p \in Passes, NEW a \in Attempts, pass[p].of = a, SettleRecovered(p, a)
    PROVE  IInv'
<1> USE CustodyAssumption, NoneAssumption DEF IInv, SettleRecovered, NoReservation,
   At, PassEnds, Dropped, Idle, files, procs, world
<1>1. TypeOK'
    BY LockOfType, ProcessType DEF TypeOK, PassSteps, Reservations, LaunchStates
<1>2. FlockInv'
    BY PassEndsHeld
<1>3. HeldInv'
    BY PassEndsHeld
<1>4. LaunchInv'
    BY <1>1, LockOfType, ProcessNames DEF TypeOK, GuardianLives, HeldInv, Held,
       Excluded, LaunchInv, GuardianInv, EvidenceInv, ExitInv, RecordInv, PassInv,
       LauncherHolds, BeforeExit, Releasing, Excluding, Final, Over, Quiet, Unlaunched,
       Terminal
<1>5. GuardianInv'
    BY <1>1, LockOfType, ProcessNames DEF TypeOK, GuardianLives, HeldInv, Held,
       Excluded, LaunchInv, GuardianInv, EvidenceInv, ExitInv, RecordInv, PassInv,
       LauncherHolds, BeforeExit, Releasing, Excluding, Final, Over, Quiet, Unlaunched,
       Terminal
<1>6. EvidenceInv'
    BY DEF TypeOK, EvidenceInv, Over, Unlaunched
<1>7. ExitInv'
    BY LockOfType, ProcessNames DEF TypeOK, ExitInv
<1>8. RecordInv'
    BY DEF RecordInv, Over
<1>9. PassInv'
    BY DEF TypeOK, PassInv, Over, Quiet, Unlaunched, Final, Terminal
<1> QED
    BY <1>1, <1>2, <1>3, <1>4, <1>5, <1>6, <1>7, <1>8, <1>9

LEMMA HolderlessLookIInv ==
    ASSUME IInv, NEW p \in Passes, NEW a \in Attempts, pass[p].of = a, HolderlessLook(p, a)
    PROVE  IInv'
<1> USE CustodyAssumption, NoneAssumption DEF IInv, HolderlessLook, GuardianLives,
   Unlaunched, HolderGone, At, PassTo, files, procs,
    world
<1>1. TypeOK'
    BY DEF TypeOK, PassSteps
<1>2. FlockInv'
    BY DEF FlockInv
<1>3. HeldInv'
    BY LockOfType, ProcessNames DEF TypeOK, HeldInv, Held, Excluded, LauncherHolds,
       Excluding
<1>4. LaunchInv'
    BY DEF LaunchInv
<1>5. GuardianInv'
    BY DEF GuardianInv, GuardianLives
<1>6. EvidenceInv'
    BY DEF EvidenceInv, Over
<1>7. ExitInv'
    BY LockOfType, ProcessNames DEF TypeOK, ExitInv
<1>8. RecordInv'
    BY DEF RecordInv, Over
<1>9. PassInv'
    BY DEF TypeOK, PassInv, Over, Quiet, Final, Terminal
<1> QED
    BY <1>1, <1>2, <1>3, <1>4, <1>5, <1>6, <1>7, <1>8, <1>9

LEMMA SettleHolderlessIInv ==
    ASSUME IInv, NEW p \in Passes, NEW a \in Attempts, pass[p].of = a, SettleHolderless(p, a)
    PROVE  IInv'
<1>1. TypeOK'
    BY HoldingTyped DEF IInv, SettleHolderless, PassSteps
<1> USE CustodyAssumption, NoneAssumption DEF IInv, SettleHolderless, Absent,
   GuardianLives, Unlaunched, HolderGone, At, Holding, Taken,
    Recoverable, Free, PassTo, files, procs, world
<1>2. FlockInv'
    BY <1>1, LockOfType, ProcessType, TakeFlock
<1>3. HeldInv'
    BY LockOfType, ProcessNames DEF TypeOK, HeldInv, Held, Excluded, LauncherHolds,
       Excluding
<1>4. LaunchInv'
    BY DEF LaunchInv
<1>5. GuardianInv'
    BY DEF GuardianInv, GuardianLives
<1>6. EvidenceInv'
    BY DEF EvidenceInv, Over
<1>7. ExitInv'
    <2>1. lock' = Taken(LockOf(a), Pass(p)) /\ UNCHANGED <<exit, provider, orphan, named>>
        OBVIOUS
    <2> QED
        BY ONLY IInv, p \in Passes, a \in Attempts, <2>1, LockOfType, PassTakesExit
<1>8. RecordInv'
    BY DEF RecordInv, Over
<1>9. PassInv'
    <2>1. /\ UNCHANGED <<record, exit, named, launcher, guardian, procs>>
          /\ pass'[p].of = a /\ pass'[p].at = "lose"
          /\ \A q \in Passes : q # p => pass'[q] = pass[q]
        BY DEF TypeOK
    <2>2. Over(a) /\ exit[a] = "absent"
        <3>1. reservation[a] # None /\ exit[a] = "absent"
            OBVIOUS
        <3> QED
            BY <3>1, FreeMeans, AbsentMeans DEF Over
    <2> HIDE DEF SettleHolderless, Holding
    <2> QED
        BY <2>1, <2>2 DEF PassInv, Over, Quiet
<1> QED
    BY <1>1, <1>2, <1>3, <1>4, <1>5, <1>6, <1>7, <1>8, <1>9

LEMMA UncertainIInv ==
    ASSUME IInv, NEW p \in Passes, Uncertain(p)
    PROVE  IInv'
<1> USE CustodyAssumption, NoneAssumption DEF IInv, Uncertain, PassEnds, Dropped,
   Idle, files, procs, world
<1>1. TypeOK'
    BY LockOfType, ProcessType DEF TypeOK, PassSteps
<1>2. FlockInv'
    BY PassEndsHeld
<1>3. HeldInv'
    BY PassEndsHeld
<1>4. LaunchInv'
    BY DEF LaunchInv
<1>5. GuardianInv'
    BY DEF GuardianInv, GuardianLives
<1>6. EvidenceInv'
    BY DEF EvidenceInv, Over
<1>7. ExitInv'
    BY LockOfType, ProcessNames DEF TypeOK, ExitInv
<1>8. RecordInv'
    BY DEF RecordInv, Over
<1>9. PassInv'
    BY DEF TypeOK, PassInv, Over, Quiet, Unlaunched, Final, Terminal
<1> QED
    BY <1>1, <1>2, <1>3, <1>4, <1>5, <1>6, <1>7, <1>8, <1>9

LEMMA PassDiesIInv ==
    ASSUME IInv, NEW p \in Passes, PassDies(p)
    PROVE  IInv'
<1> USE CustodyAssumption, NoneAssumption DEF IInv, PassDies, At, PassEnds, Dropped,
   Idle, Died, files, procs
<1>1. TypeOK'
    BY LockOfType, ProcessType DEF TypeOK, PassSteps
<1>2. FlockInv'
    BY PassEndsHeld
<1>3. HeldInv'
    BY PassEndsHeld
<1>4. LaunchInv'
    BY DEF LaunchInv
<1>5. GuardianInv'
    BY DEF GuardianInv, GuardianLives
<1>6. EvidenceInv'
    BY DEF EvidenceInv, Over
<1>7. ExitInv'
    BY LockOfType, ProcessNames DEF TypeOK, ExitInv
<1>8. RecordInv'
    BY DEF RecordInv, Over
<1>9. PassInv'
    BY DEF TypeOK, PassInv, Over, Quiet, Unlaunched, Final, Terminal
<1> QED
    BY <1>1, <1>2, <1>3, <1>4, <1>5, <1>6, <1>7, <1>8, <1>9

LEMMA RebootIInv ==
    ASSUME IInv, Reboot
    PROVE  IInv'
<1> USE CustodyAssumption, NoneAssumption DEF IInv, Reboot, Ended, Killed, Idle, files
<1>1. TypeOK'
    BY LockOfType, ProcessType DEF TypeOK, LauncherSteps, GuardianSteps, PassSteps
<1>2. FlockInv'
    BY DEF FlockInv
<1>3. HeldInv'
    BY LockOfType, ProcessNames DEF TypeOK, HeldInv, Held, Excluded, LauncherHolds,
       Excluding, GuardianLives, Unlaunched
<1>4. LaunchInv'
    BY DEF TypeOK, LaunchInv
<1>5. GuardianInv'
    BY DEF TypeOK, GuardianInv, GuardianLives, Unlaunched, BeforeExit, Releasing
<1>6. EvidenceInv'
    BY <1>1 DEF TypeOK, EvidenceInv, Over, Unlaunched, LaunchInv, GuardianInv,
       GuardianLives, BeforeExit, Releasing, ExitInv
<1>7. ExitInv'
    BY LockOfType, ProcessNames DEF TypeOK, ExitInv
<1>8. RecordInv'
    BY DEF TypeOK, RecordInv, Over, Unlaunched, Final, Terminal
<1>9. PassInv'
    BY DEF TypeOK, PassInv, Over, Quiet, Unlaunched, Final, Terminal
<1> QED
    BY <1>1, <1>2, <1>3, <1>4, <1>5, <1>6, <1>7, <1>8, <1>9

LEMMA LauncherStepIInv ==
    ASSUME IInv, NEW a \in Attempts, LauncherStep(a)
    PROVE  IInv'
BY MarkStartingIInv, ReserveIInv, ReserveBusyIInv, RecheckIInv,
   PrepareFailsIInv, LaunchIInv, LaunchCancelledIInv, LaunchRefusedExitIInv,
   SpawnGuardianIInv, LeaveHandoffIInv, LauncherWithdrawsIInv,
   LauncherCommitsIInv
   DEF LauncherStep

LEMMA GuardianStepIInv ==
    ASSUME IInv, NEW a \in Attempts, GuardianStep(a)
    PROVE  IInv'
BY AdoptIInv, SummariseIInv, AdmitIInv, RefuseLaunchIInv, RefusedExitIInv,
   SpawnProviderIInv, JournalIInv, CleanUpIInv, PublishExitIInv, ResettleIInv,
   RepublishIInv, ReleaseIInv, TerminalCommitIInv, ClearSettledIInv,
   ReleaseFailsIInv
   DEF GuardianStep

LEMMA ProviderStepIInv ==
    ASSUME IInv, NEW a \in Attempts, ProviderStep(a)
    PROVE  IInv'
BY ForkIInv, DetachIInv, ProviderExitsIInv, OrphanExitsIInv
   DEF ProviderStep

LEMMA DecideIInv ==
    ASSUME IInv, NEW p \in Passes, NEW a \in Attempts, pass[p].of = a, Decide(p, a)
    PROVE  IInv'
BY SettleRebootedIInv, SettleRebootedTerminalIInv, SettleNeverSpawnedIInv,
   WithdrawPreparedIInv, ProveUnreservedIInv, ProveReaderAbsentIInv,
   EndOrphansIInv, FinishWriterIInv, FinishReaderIInv, FinishTerminalIInv
   DEF Decide

LEMMA CarryOutIInv ==
    ASSUME IInv, NEW p \in Passes, NEW a \in Attempts, pass[p].of = a, CarryOut(p, a)
    PROVE  IInv'
BY CommitLostIInv, ReleaseFenceIInv, PassWithdrawsIInv, PassCommitsIInv,
   SweptExitIInv, CommitFinishIInv, CommitReaderIInv, FinishFailsIInv,
   SettleRecoveredIInv
   DEF CarryOut

LEMMA ReconcileIInv ==
    ASSUME IInv, NEW p \in Passes, NEW a \in Attempts, Reconcile(p, a)
    PROVE  IInv'
BY LookIInv, DecideIInv, CarryOutIInv, HolderlessLookIInv,
   SettleHolderlessIInv
   DEF Reconcile

LEMMA NextIInv ==
    ASSUME IInv, [Next]_vars
    PROVE  IInv'
<1>1. CASE Next
    BY <1>1, LauncherStepIInv, GuardianStepIInv, ProviderStepIInv, CancelIInv,
       WithdrawQueuedIInv, CommitQueuedIInv,
       LauncherDiesIInv, GuardianDiesIInv, ReconcileIInv, UncertainIInv, PassDiesIInv,
       RebootIInv
       DEF Next
<1>2. CASE UNCHANGED vars
    BY <1>2 DEF vars, IInv, TypeOK, FlockInv, HeldInv, Held, Excluded, GuardianLives,
       LaunchInv, GuardianInv, EvidenceInv, ExitInv, RecordInv, PassInv, Over, Quiet
<1> QED
    BY <1>1, <1>2

(***************************************************************************)
(* The theorems                                                            *)
(***************************************************************************)

\* The inductive invariant holds in every reachable state: locks, evidence,
\* exits, records and passes always agree, whoever died before.
THEOREM Invariance == Spec => []IInv
<1>1. Init => IInv
    BY InitIInv
<1>2. IInv /\ [Next]_vars => IInv'
    BY NextIInv
<1> QED
    BY <1>1, <1>2, PTL DEF Spec

\* Every variable keeps its type: no launch, guardian or reconcile step leaves a
\* reservation, an exit or a pass in a state the code has no case for.
THEOREM TypeOKHolds == Spec => []TypeOK
<1>1. IInv => TypeOK
    BY DEF IInv
<1> QED
    BY <1>1, Invariance, PTL

\* Two live providers of writers both hold the worktree's flock, and the holders
\* of one flock are processes of one attempt (custody::launch, handoff::spawn).
THEOREM OneWriterHolds == Spec => []OneWriter
<1>1. IInv => OneWriter
    <2> SUFFICES ASSUME IInv, NEW a \in Writers, NEW b \in Writers,
                        provider[a] = "live", provider[b] = "live", a # b
                 PROVE  FALSE
        BY DEF OneWriter
    <2>1. Provider(a) \in lock[Worktree] /\ Provider(b) \in lock[Worktree]
        BY DEF IInv, HeldInv, Held, LockOf, Attempts
    <2>2. Provider(a) # Provider(b) /\ Provider(a)[2] = a /\ Provider(b)[2] = b
        BY DEF Provider
    <2> QED
        BY <2>1, <2>2 DEF IInv, FlockInv, Locks
<1> QED
    BY <1>1, Invariance, PTL

\* A provider exists only for a record that was running, and a running record is
\* never withdrawn: neither the launcher's withdraw, a pass's nor a person's
\* cancel can withdraw what claim_observed admitted.
THEOREM WithdrawnNeverRunsHolds == Spec => []WithdrawnNeverRuns
<1>1. IInv => WithdrawnNeverRuns
    BY DEF IInv, RecordInv, WithdrawnNeverRuns
<1> QED
    BY <1>1, Invariance, PTL

\* commit_lost follows a proof of absence, the guardian's settled exit the end
\* of the tree: neither the provider nor a descendant that let the flock go
\* still runs.  A sweep proves less: whatever it leaves has let the flock go,
\* and under OrphansEnded is nobody the exit named.
THEOREM EndedMeansGoneHolds == Spec => []EndedMeansGone
<1>1. IInv => EndedMeansGone
    BY DEF EndedMeansGone, IInv, RecordInv, ExitInv, Over
<1> QED
    BY <1>1, Invariance, PTL

-----------------------------------------------------------------------------
\* The only steps that change a record: every other one leaves all of them alone.
LEMMA RecordSteps ==
    ASSUME Next, record' # record
    PROVE  \/ \E a \in Attempts :
                \/ MarkStarting(a) \/ LauncherCommits(a) \/ Admit(a)
                \/ TerminalCommit(a) \/ CommitQueued(a)
           \/ \E p \in Passes, a \in Attempts : pass[p].of = a /\
                (CommitReader(p, a) \/ CommitLost(p, a) \/ PassCommits(p, a)
                 \/ CommitFinish(p, a))
<1>1. ASSUME NEW a \in Attempts, LauncherStep(a) \/ GuardianStep(a) \/ ProviderStep(a)
      PROVE  MarkStarting(a) \/ LauncherCommits(a) \/ Admit(a) \/ TerminalCommit(a)
    BY <1>1 DEF LauncherStep, GuardianStep, ProviderStep, Unreserve,
       Reserve, ReserveBusy, Recheck, PrepareFails, Launch, LaunchCancelled,
       LaunchRefusedExit, SpawnGuardian, LeaveHandoff, LauncherWithdraws, Adopt, Summarise,
       RefuseLaunch, RefusedExit, SpawnProvider, Journal, CleanUp,
       PublishExit, Resettle, Republish, Release, ClearSettled, ReleaseFails,
       Fork, Detach, ProviderExits, OrphanExits
<1>2. ASSUME NEW p \in Passes, NEW a \in Attempts, Reconcile(p, a)
      PROVE  pass[p].of = a /\
                (CommitReader(p, a) \/ CommitLost(p, a) \/ PassCommits(p, a)
                 \/ CommitFinish(p, a))
    BY <1>2 DEF Reconcile, Decide, CarryOut, Holding, Look, HolderlessLook,
       SettleHolderless,
       SettleRebooted, SettleRebootedTerminal, SettleNeverSpawned,
       WithdrawPrepared, ProveUnreserved, ProveReaderAbsent, EndOrphans,
       FinishWriter, FinishReader, FinishTerminal, ReleaseFence, SweptExit,
       PassWithdraws, FinishFails, SettleRecovered
<1>3. ASSUME NEW a \in Attempts,
             WithdrawQueued(a) \/ Cancel(a) \/ LauncherDies(a) \/ GuardianDies(a)
      PROVE  FALSE
    BY <1>3 DEF WithdrawQueued, Cancel, LauncherDies, GuardianDies
<1>4. ASSUME NEW p \in Passes, Uncertain(p) \/ PassDies(p)
      PROVE  FALSE
    BY <1>4 DEF Uncertain, PassDies
<1>5. ~Reboot
    BY DEF Reboot
<1> QED
    BY <1>1, <1>2, <1>3, <1>4, <1>5 DEF Next

\* Only commit_lost writes "lost", and a pass that reached it holds exclusion and
\* has found no exit since it took it.
THEOREM NoExitIsLostHolds == Spec => NoExitIsLost
<1>1. ASSUME IInv, Next, NEW b \in Attempts, record[b] # "lost", record'[b] = "lost"
      PROVE  exit[b] = "absent"
    <2>1. ASSUME NEW a \in Attempts,
                 \/ MarkStarting(a) \/ LauncherCommits(a) \/ Admit(a)
                 \/ TerminalCommit(a) \/ CommitQueued(a)
          PROVE  FALSE
        BY <1>1, <2>1, WithdrawnMeans, FinishedMeans DEF IInv, TypeOK, MarkStarting,
           LauncherCommits, Admit, TerminalCommit, CommitQueued, Committed
    <2>2. ASSUME NEW p \in Passes, NEW a \in Attempts,
                 CommitReader(p, a) \/ PassCommits(p, a) \/ CommitFinish(p, a)
          PROVE  FALSE
        BY <1>1, <2>2, WithdrawnMeans, FinishedMeans DEF CommitReader, PassCommits,
           CommitFinish, Committed
    <2>3. ASSUME NEW p \in Passes, NEW a \in Attempts, pass[p].of = a, CommitLost(p, a)
          PROVE  exit[b] = "absent"
        <3>1. exit[a] = "absent"
            BY <1>1, <2>3 DEF IInv, PassInv, CommitLost, At
        <3>2. b = a
            BY <1>1, <2>3 DEF IInv, TypeOK, CommitLost, Withdrawn
        <3> QED
            BY <3>1, <3>2
    <2> QED
        BY <1>1, <2>1, <2>2, <2>3, RecordSteps
<1>2. IInv /\ [Next]_vars =>
        [\A a \in Attempts : record[a] # "lost" /\ record'[a] = "lost" => exit[a] = "absent"]_vars
    BY <1>1
<1> QED
    BY <1>2, Invariance, PTL DEF Spec, NoExitIsLost

\* The only steps that remove a reservation: a launcher's before the handoff, a
\* guardian's after its commit, and three of a pass.
LEMMA RemovingSteps ==
    ASSUME IInv, Next, NEW b \in Attempts, reservation[b] # None, reservation'[b] = None
    PROVE  \/ launcher[b] \in {"recheck", "prepare"}
           \/ ClearSettled(b)
           \/ \E p \in Passes : pass[p].of = b /\
                (WithdrawPrepared(p, b) \/ ReleaseFence(p, b) \/ SettleRecovered(p, b))
<1>1. ASSUME NEW a \in Attempts, LauncherStep(a)
      PROVE  launcher[b] \in {"recheck", "prepare"}
    <2>1. ASSUME Launch(a) \/ LaunchCancelled(a)
          PROVE  FALSE
        BY <2>1, LaunchAmends, LaunchCancelledAmends DEF Amended
    <2>2. ASSUME Reserve(a)
          PROVE  FALSE
        <3>1. reservation \in [Attempts -> Reservations \cup {None}]
            BY DEF IInv, TypeOK
        <3>2. PICK r \in Reservations : reservation' = [reservation EXCEPT ![a] = r]
            BY <2>2 DEF Reserve, Reservations, LaunchStates, IInv, TypeOK
        <3> QED
            BY <3>1, <3>2, NoneAssumption
    <2>3. ASSUME Recheck(a) \/ PrepareFails(a)
          PROVE  launcher[b] \in {"recheck", "prepare"}
        BY <2>3 DEF Recheck, PrepareFails, Unreserve, NoReservation, IInv, TypeOK
    <2> QED
        BY <1>1, <2>1, <2>2, <2>3 DEF LauncherStep, MarkStarting, ReserveBusy,
           LaunchRefusedExit, SpawnGuardian,
           LeaveHandoff, LauncherWithdraws, LauncherCommits
<1>2. ASSUME NEW a \in Attempts, GuardianStep(a)
      PROVE  ClearSettled(b)
    <2>1. ASSUME \/ Adopt(a) \/ RefuseLaunch(a) \/ CleanUp(a) \/ Resettle(a) \/ Release(a)
          PROVE  FALSE
        BY <2>1, AdoptAmends, RefuseLaunchAmends, CleanUpAmends, ResettleAmends,
           ReleaseAmends
           DEF Amended
    <2>2. ASSUME SpawnProvider(a)
          PROVE  FALSE
        BY <2>2, SpawnProviderAmends DEF Amended
    <2>3. ASSUME ClearSettled(a)
          PROVE  a = b
        BY <2>3 DEF ClearSettled, NoReservation, IInv, TypeOK
    <2> QED
        BY <1>2, <2>1, <2>2, <2>3 DEF GuardianStep, Summarise, Admit, RefusedExit,
           Journal, PublishExit, Republish,
           TerminalCommit, ReleaseFails
<1>3. ASSUME NEW p \in Passes, NEW a \in Attempts, Reconcile(p, a)
      PROVE  /\ pass[p].of = b
             /\ WithdrawPrepared(p, b) \/ ReleaseFence(p, b) \/ SettleRecovered(p, b)
    <2>1. ASSUME pass[p].of = a, EndOrphans(p, a)
          PROVE  FALSE
        BY <2>1, EndOrphansAmends DEF Amended
    <2>2. ASSUME WithdrawPrepared(p, a) \/ ReleaseFence(p, a) \/ SettleRecovered(p, a)
          PROVE  a = b
        BY <2>2 DEF WithdrawPrepared, ReleaseFence, SettleRecovered, NoReservation,
           IInv, TypeOK
    <2> QED
        BY <1>3, <2>1, <2>2 DEF Reconcile, Decide, CarryOut, Holding, Look,
           HolderlessLook,
           SettleHolderless, SettleRebooted, SettleRebootedTerminal, SettleNeverSpawned,
           ProveUnreserved, ProveReaderAbsent, FinishWriter, FinishReader,
           FinishTerminal, CommitLost, PassWithdraws, PassCommits, SweptExit,
           CommitFinish, CommitReader, FinishFails
<1>4. ASSUME NEW a \in Attempts,
             \/ ProviderStep(a) \/ WithdrawQueued(a) \/ CommitQueued(a) \/ Cancel(a)
             \/ LauncherDies(a) \/ GuardianDies(a)
      PROVE  FALSE
    BY <1>4 DEF ProviderStep, Fork, Detach, ProviderExits, OrphanExits, WithdrawQueued,
       CommitQueued, Cancel, LauncherDies, GuardianDies
<1>5. ASSUME NEW p \in Passes, Uncertain(p) \/ PassDies(p)
      PROVE  FALSE
    BY <1>5 DEF Uncertain, PassDies
<1>6. ~Reboot
    BY DEF Reboot
<1> QED
    BY <1>1, <1>2, <1>3, <1>4, <1>5, <1>6 DEF Next

\* A fence that a handoff raised is removed only after the terminal commit and
\* the end of the processes: by the guardian after both, or by a pass that
\* proved both under exclusion (clear_settled_reservation, release_lost,
\* settle_recovered).
THEOREM FenceOutlivesRunHolds == Spec => FenceOutlivesRun
<1>1. ASSUME IInv, Next, NEW b \in Attempts, reservation[b] # None,
             reservation[b].state # "Prepared", reservation'[b] = None
      PROVE  /\ record[b] \in Terminal
             /\ provider[b] # "live"
             /\ orphan[b] = "live" =>
                 /\ Orphan(b) \notin lock[LockOf(b)]
                 /\ exit[b] \in {"swept", "leftover"}
                 /\ exit[b] = "swept" => named[b] # "orphan"
    <2>1. ~(launcher[b] \in {"recheck", "prepare"})
        BY <1>1 DEF IInv, LaunchInv
    <2>2. CASE ClearSettled(b)
        BY <1>1, <2>2 DEF IInv, GuardianInv, ClearSettled, GuardianMoves, Releasing
    <2>3. ASSUME NEW p \in Passes, pass[p].of = b, ReleaseFence(p, b) \/ SettleRecovered(p, b)
          PROVE  /\ record[b] \in Terminal
                 /\ provider[b] # "live"
                 /\ orphan[b] = "live" =>
                     /\ Orphan(b) \notin lock[LockOf(b)]
                     /\ exit[b] \in {"swept", "leftover"}
                     /\ exit[b] = "swept" => named[b] # "orphan"
        BY <1>1, <2>3 DEF IInv, PassInv, ExitInv, ReleaseFence, SettleRecovered, At, Over, Quiet
    <2>4. ASSUME NEW p \in Passes, WithdrawPrepared(p, b)
          PROVE  FALSE
        BY <1>1, <2>4 DEF WithdrawPrepared
    <2> QED
        BY <1>1, <2>1, <2>2, <2>3, <2>4, RemovingSteps
<1>2. IInv /\ [Next]_vars =>
        [\A a \in Attempts :
            /\ reservation[a] # None
            /\ reservation[a].state # "Prepared"
            /\ reservation'[a] = None
            => /\ record[a] \in Terminal
               /\ provider[a] # "live"
               /\ orphan[a] = "live" =>
                   /\ Orphan(a) \notin lock[LockOf(a)]
                   /\ exit[a] \in {"swept", "leftover"}
                   /\ exit[a] = "swept" => named[a] # "orphan"]_vars
    BY <1>1
<1> QED
    BY <1>2, Invariance, PTL DEF Spec, FenceOutlivesRun
=============================================================================
