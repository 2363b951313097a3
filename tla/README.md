# Provenant: TLA+ models, model checks and proofs

Provenant runs coding agents on a host: it admits, launches, supervises and
settles *attempts* of provider processes, lets agents coordinate through a
durable *fabric* (tasks, path claims, messages, landings of Git refs), and lands
their work through a fenced push or a pull request. The Rust workspace is
`src/tools/front-door` (paths below are relative to it). What is hard about it is
rarely one function: it is a fence that outlives the lease that issued it, a
reply lost after a commit, a process that dies between a durable "begin" and its
outcome, a provider that exits in the same turn as its deadline, a recovery pass that looks
before it has exclusion and acts after.

Contents: [inventory](#inventory) · [modules](#modules-and-the-code) ·
[runs](#runs) · [proofs](#proofs) · [findings](#findings) ·
[abstractions](#abstractions-and-what-they-leave-out) ·
[not modelled](#not-modelled) · [plan](#plan).

## Inventory

| Component | State it keeps | Operations | What is hard | What makes it correct |
|---|---|---|---|---|
| **Fenced landing** `crates/fabric-store/src/landing.rs`, `crates/fabric-runtime/src/git_transport.rs` | landing row (holder, token, generation, expiry, frozen commits), push operations and their phase, a per-ref file lock, the remote ref | acquire, renew, release, prepare, begin, confirm, uncertain, reconcile; `git push`, `ls-remote` | crash between durable Begin and outcome, pushes of dead processes still in flight, other writers, changing origin, clock steps | never called landed unless it was; one unresolved push pins its owner; only forward moves |
| **Path claims** `fabric-store/src/claims.rs` | one row per scope, generation counters, an index of descendants | acquire, renew, release, prune | overlap of ancestor and descendant, expiry, pruned rows | live claims do not overlap; fences are never reissued |
| **Coordination tasks** `fabric-store/src/tasks.rs` | task rows with owner, fence, lease, state | create, claim, renew, update, release, finish | stale owners, takeover, long sequences | updates only under the latest fence; finished is final |
| **Operation receipts** `fabric-store/src/operations.rs`, `fabric-runtime/src/coordination.rs` | receipt per operation id (actor, digest, result) | execute-or-replay, read receipt | lost replies and retries | every answer for one id agrees |
| **Lifecycle machine** `crates/supervisor/src/machine.rs` | phase, deadlines, stop attempts | `step`, `request_stop`, `retry_stop` | simultaneous events, receipts | at most one stop reason, exit wins over stops |
| **Provider guardian** `supervisor/src/guardian.rs`, `guardian/cleanup.rs`, `process_os/provider.rs` | provider process and its group, cancel.json, unresolved-cleanup reservation, process-exit.json, custody lock | launch, loop turn, TERM, KILL, cleanup, reserve, publish, linger, republish, release, settle | races with the provider's exit, refused signals, unsynced writes, deleted directories, power loss | the published exit is true, survives crashes in the conservative order, and the writer fence outlives the attempt |
| **Attempt custody and recovery** `supervisor/src/custody.rs`, `custody/orphans.rs`, `process_os/handoff.rs`, `run/src/launch.rs` | reservation (the fence), inherited flock, launch.json, process.json, cancel.json | reserve, hand off, adopt, admit, settle, classify, end orphans, release | deaths of launcher, guardian or pass at any point, reboot, evidence read before exclusion | no live provider forgotten or doubled, no outcome overruled, fences end |
| Census and spawning `supervisor/src/census.rs`, `process_os/` | none of its own | enumerate, spawn, signal | operating-system observation | – |
| **Messages and cursors** `fabric-store/src/messages.rs`, `events.rs` | message rows, numbered deliveries, one cursor per mailbox | send, read, mark | sender retries, sessions that share a mailbox | delivered once; nothing unread is passed |
| **Peer operations** `fabric-store/src/federation.rs`, `fabric-runtime/src/home.rs`, `src/fabric/peer.rs` | Prepared/Sent/Unknown/Committed journal, the owner's receipts | call, send, record, look up a receipt | lost and late requests, two callers of one id | the recorded answer is the owner's; uncertainty ends in an answer |
| **Run-event ingestion** `src/fabric.rs`, `federation.rs`, `run/src/retention.rs` | each host's run events, host cursors, the project stream | pull, fetch a page, ingest, collect | cursor read before a fetch, overlapping readers, retention | no event twice, none skipped, coverage honest |
| **Human inbox, local delivery** `human_inbox.rs`, `local_delivery.rs`, `src/hooks.rs` | requests with three revisions, answers, outbox, offers | ask, answer, close, supersede, acknowledge, offer, hook | answer racing expiry, a hook that ends after any step, oversized answers | one answer, to the session that asked, which arrives |
| Chairs, viewer `chairs.rs`, `viewer.rs` | presence rows | heartbeat, list | – | projections of other state |
| Graph scheduler `fabric-runtime/src/graph/` | node states, attempts, budgets | validate, start, retry, loop, relay | partial failure, restart | every node reaches one outcome |
| Admission and ledger `crates/run/src/admission.rs`, `ledger.rs` | queue tickets, lanes | enqueue, admit, release | limits, crashed holders | caps hold, tickets leave the queue |
| **Settlement** `run/src/settlement.rs`, `holder.rs`, `writer.rs`, `objects.rs`, `store.rs` | settlement journal, sealed files, terminal row, import receipt, shared branch | claim, pin, import, publish, decide, seal, commit, release, abandon | two drivers, crashes between any two durable writes, failing imports | one decision; what is recorded as success was published; every exit settles |
| Delivery `run/src/delivery.rs` | start markers, delivery receipts | push, find or open a pull request | replies of the forge lost | one pull request |
| **Controls** `run/src/controls.rs` | – | cancel, reconcile passes | stale evidence, launcher still on its way | withdrawn attempts never run; lost means gone |
| Writer worktrees, retention `run/src/writer.rs`, `retention.rs` | Git worktrees | create, collect | filesystem | – |
| Quota `crates/quota/` | refusals, cooldowns, tick claims | admit, record, tick | concurrent ticks | one tick per window |
| PR landing driver `src/pr/landing/` | phases, receipts | gate, merge, post-merge | forge replies lost | merge once |
| Routing, confinement, configuration, OS and SQLite layers, MCP server, CLI, telemetry, menu bar | – | pure, I/O or presentation | – | – |

How the parts meet. Agents reach the fabric through the MCP server or the CLI,
which call `LocalCoordination` (`coordination.rs`); every mutation is one
immediate SQLite transaction that also writes a receipt. A landing takes a claim
row, a file lock and a Git remote. The host side of an attempt talks to its
guardian only through files and locks: `cancel.json` (host to guardian),
the reservation and `process-exit.json` (guardian to host), the custody lock.
Tasks, claims and landings all follow one pattern, a *fenced lease*: a generation
and a secret token handed out with ownership, which every later call presents.

`PROJECT.json` lists every component with its status and every hazard at the line
where it bites, with the properties that would catch it.

## Modules and the code

| Module | Models | Uses |
|---|---|---|
| `FencedLease` | abstract promise of anything held under a fence: a grant always takes a generation never used before, ending ownership leaves it alone | |
| `FabricTasks` | tasks and operation receipts | instantiates `FencedLease` per task |
| `FabricClaims` | path claims | instantiates `FencedLease` per scope |
| `FabricLanding` | landing rows, push operations, the lock, processes, remotes | |
| `ProviderMachine` | `machine.rs` as operators | |
| `ProviderGuardian` | `Driver::run` and its environment, driving `ProviderMachine` | extends `ProviderMachine` |
| `AttemptCustody` | launch, hand-off, flock, admission, exit and every recovery decision of a reconcile pass | the guardian's loop is one observation here; `ProviderGuardian` is its detail |
| `WriterSettlement` | settlement of one exited attempt: journal, Git import, decision, receipts, release | |
| `PeerJournal` | remote mutations and their journal | |
| `OrderBy` | `ORDER BY` and `LIMIT` of the stores' queries, as operators | |
| `FabricEvents` | run events pulled from hosts into the project stream | extends `OrderBy` |
| `FabricMail` | messages, deliveries, mail cursors | extends `OrderBy` |
| `HumanInbox` | human requests and delivery of answers | extends `FabricMail` (an answer is also mail) |
| `*Proofs` | theorems and proofs of the module they are named after; `FabricStoreProofs` has those of `FabricMail`, `HumanInbox` and `FabricEvents`, whose specifications therefore have names of their own (`MailSpec`, `EventsSpec`, …) | extend the module and `TLAPS` |
| `MC*` | constants for TLC (path trees, commit graphs, symmetry) | extend the module |

Operators whose name begins with `Mut` are wrong variants of the definitions that
follow them; substituting one must break the property named beside it. They are
used by no specification.

**FabricTasks.** `tasks` is the tasks table, `receipts` is
`coordination_operations`, `answers` is a history of the replies that reached a
caller. `Execute(o, a, i, r)` is `LocalCoordination::mutate` on a fresh id: the
task operation and the receipt in one transaction, after which the reply arrives
or is lost. `Replay` is the same call on an id that has a receipt: same actor and
same input get the stored result, anything else is refused. `ReadReceipt` is the
explicit lookup, `RenewTask` renews outside receipts as the code does.
`CreateTask`, `ClaimTask`, `UpdateTask`, `CloseTask` (release and finish share one
SQL shape) are the store calls. The clock moves in both directions.

**FabricClaims.** `rows[s]` is the claim row of scope `s`, `counters` is
`claim_counters`, `index` the path index of descendants, `issued` the fences ever
handed out. `AcquireClaim` checks overlap against live claims, takes the next
generation, replaces the row and prunes at most `PruneLimit` released rows in the
same transaction. A scope is a set of paths, a path a sequence of components;
overlap is the prefix relation in either direction.

**FabricLanding.** One ref of one project. `landing`, `ops`, `counter` are the
rows, `lock` the per-ref file lock, `pc` and `req` a process's progress through
push or reconcile, `remoteRef` and `held` what each remote shows and ever showed,
`orphans` pushes whose process is gone but whose request is still under way,
`origin` the clone's current URL. A push is `StartPush` (lock), `PushCheck`,
`PreparePush`, `ObserveRemote`, `BeginPush`, `SpawnPush`, `ServePush` (the server
applies it or not), then `ConfirmPush` or `UncertainPush`; `Abandon` is an early
return or a crash at any of these points, which may leave the push an orphan.
Reconciliation is `ReconcileObserve` of the remote the operation was frozen for,
then `ReconcileRecord` with `Verdict`. Other writers, changes of origin and clock
steps are `EnvNext`.

**ProviderMachine** keeps `machine.rs`'s order of checks: a delivery receipt is
noted first, in whatever phase; then an observed exit begins cleanup, then the wall
deadline asks for a stop, and only then does the phase's own handler look at the
event, the cleanup report or the publication report. `Step(state, event, tick, flush)` returns the new state and the set of
effects.

**ProviderGuardian.** One attempt. A loop turn is split where the provider can
act in between: `Turn` (observe, choose the event, step the machine, note the
stop), `Deliver` (the TERM and its receipt), `Kill` and `EndTurn`. After the loop:
`Cleanup`, `Reserve`, `Publish`, and for unresolved cleanup `Linger`, `Resettle`,
`Republish`; then `Release`, `Settle`, `Reap`. Each file has a visible and a
durable value; a write is durable, visible only, or fails. `SpawnRefused` is
`publish_never_spawned`; `AbandonReserve` and `AbandonPublish` are the branches
for deleted directories. The environment exits, speaks, writes `cancel.json`,
deletes directories, kills the guardian (`GuardianDies`) and cuts the power
(`HostCrash`, which keeps only durable values).

**AttemptCustody.** A flock is the set of processes that hold its open file
description; writers share the lock of their worktree slot, a reader's is in its own
directory. The launcher does `MarkStarting`, `Reserve`, `Recheck`, `Launch`,
`SpawnGuardian`, `LeaveHandoff` (or `LaunchCancelled` and `LaunchRefusedExit`,
`PrepareFails`, `LauncherWithdraws` and `LauncherCommits`); the guardian `Adopt`, `Summarise`, `Admit`,
`SpawnProvider`, `Journal`, `CleanUp`, `PublishExit`, `Resettle`, `Republish`,
`Release`, `TerminalCommit`, `ClearSettled`. A pass looks at one attempt (`Look`) and
goes the way the code goes from what it saw: `SettleRebooted`, `HolderlessLook` and
`SettleHolderless` (the observation and the commit are two steps, with the lock taken
in between), `SettleNeverSpawned`, `WithdrawPrepared`, `ProveUnreserved` and
`PassWithdraws` and `PassCommits`, `EndOrphans` and `SweptExit`, `FinishWriter`, `FinishReader`,
`CommitLost`, `ReleaseFence`. Any process of the program may die before any step, and
the host may reboot.
A withdrawal is two steps, as in `commit_terminal`: terminal-pending.json is sealed
(`intent` remembers the state it was sealed in) and the row is updated only if it
still is in that state. `MarkStarting` and `Admit` do not look at the file. A person's
cancel of queued work is `WithdrawQueued` and `CommitQueued`, of started work a stop
request. `named` is whom the unresolved exit names: nobody, somebody else than the
descendant that lives, or that one. `EndOrphans` needs a name and looks at names only.
The exit is then `swept` (`OrphansEnded`) or `leftover` (`LeftoverNotProven`);
`settled` is the guardian's own proof.

**WriterSettlement.** `phase`, `attempts`, `pinned` and `due` are
settlement-progress.json, `effects`, `intent` and `refusal` the sealed files,
`record` and `receipt` the terminal row and its import receipt, `lease` the driver's
claim. The steps of a driver are the durable writes of `finish_in_custody`
(`Start`, `ClaimGranted`, `Pin`, `Charge`, `Import`, `CancelCheck`, `Publish`,
`Published`, `Verify`, `DecideFirst`, `SealRefusal`, `Effects`, `Advance`, `Intent`,
`Commit`, `Receipt`) and of `finish_effects` (`Drive`, `Reclaim`, `DecideRetry`,
`Refuse`, `Refused`, `PublishRelease`, `Complete`, `ClearFence`). The guardian
repeats the call up to `Tries` times (`Try`, `GiveUp`), passes enter with
`PassLive` or `PassTerminal`, a chair may `Abandon`. `Crash` and `StepFails` end a
call between any two writes.

**PeerJournal.** `Prepare`, `MarkSent`, `Send`, `ExchangeFails`, `RecordAnswer`,
`RetryLater`, `RecordUnknown`, `AskReceipt` and `Abandon` are the steps of
`RemoteCoordination::call`, each journal transition a local transaction.
`OwnerRuns` is the owner's side of a request, which may run long after its caller
stopped waiting; `Lost` drops a request nobody waits for.

**FabricEvents.** A reader visits the hosts: `ReadCursor`, `Fetch`, `Ingest` are
separate steps, and only `Ingest` is a transaction. `Change` appends an attempt's
event at its host, `Retention` deletes the events of collected attempts but the
newest. `ReadFeed` hands the next rows to the reader. A page is the set of its
sequence numbers; their order matters where they enter the stream (`NewRows`).

**FabricMail, HumanInbox.** `InsertMessage` is shared by `send` and by an answer.
`ReadMail` and `MarkMailRead` are separate calls of a session. `Ask`, `Answer`,
`Close`, `Acknowledge` run under an operation id with a receipt (`Replayed` and
`Operation`); a hook is `HookSelect` (a snapshot), `HookMark` (answers no envelope can
hold), `HookOffer` (a later transaction that reads the rows again), `HookPrint`,
and `HookEnds` after any of them; `OfferUntilAck` is the other way to be offered an
answer.

## Runs

| Run | Configuration | States | What it checks |
|---|---|---|---|
| `landing` | `MCFabricLanding.cfg`: 2 actors, 1 token, 2 processes, 2 operations, 3 commits (two diverging from a base), 2 remotes, 2 generations, clock {0,1}; constraint `Focus` | 852,440 | `UnresolvedPinsOwner`, `PushUnderCustody`, `CommittedWasOnRemote`, `PushesFastForward` |
| `claims` | `MCFabricClaims.cfg`: 2 actors, scopes `tree`, `pair` (a path below `tree` and one above `leaf`), `leaf`, 2 lease lengths, time 0..3, 2 generations, prune limit 1 | 61,546 | `NoOverlappingLiveClaims`, refinement `LeasePerScope` |
| `tasks` | `MCFabricTasks.cfg`: 5 operation ids, 2 actors, 2 tokens, 1 task, 3 generations, clock {0,1} | 14,198 | `AnswersAgree`, `UpdatesByLatestGrant`, refinement `LeasePerTask` |
| `guardian` | `MCProviderGuardian.cfg`: every budget 1, 2 settlement tries, cancellation, all frames, TERM and KILL may fail, one place may be deleted; `FairSpec` | 232,700 | `RecordsAreTrue` (with `TypeOK` and `OneStopReason`), `SettledExitHasReservation`, `FenceUntilSettled`, `PublishedFactsStand`, `ProviderStops`, `ExitIsPublished` |
| `custody` | `MCAttemptCustody.cfg`: one writer or one reader, an explicit pass, 2 deaths, 2 boots; `FairSpec` | 97,662 | `TypeOK`, `WithdrawnNeverRuns`, `EndedMeansGone`, `NoExitIsLost`, `FenceOutlivesRun`, `ExitIsPursued`, `RebootSettles` |
| `custody_slot` | `MCAttemptCustodySlot.cfg`: two writers of one worktree, 1 background pass, 1 death, no stop request | 1,480,322 | `OneWriter` |
| `settlement` | `MCWriterSettlement.cfg`: a writer or a reader, limit 3, 4 tries, 2 private tips, 2 faults; `FairSpec` | 665,800 | `PublishedIsPinned`, `ImportsBounded` (with `TypeOK`), `SuccessIsPublished`, `ReleasedIsSettled`, `DecisionStands`, `ExitSettles` |
| `settlement_wedge` | `MCWriterSettlementWedge.cfg`: 3 faults | – | `ExitSettles` is violated, see [Findings](#findings) |
| `peer` | `MCPeerJournal.cfg`: 2 processes, 1 operation, 2 inputs, 2 results; `FairSpec` | 2,609 | `AnswersAgree` (with `TypeOK`), `RefusalIsFinal`, `AppliedIsLearned` |
| `events` | `MCFabricEvents.cfg`: home and a peer, one expiring attempt, 2 readers (one asks any scope, one always every host), page 1, 2 events; `EventsFairSpec` | 34,722 | `FeedFaithful` (`EventsTypeOK`, `FedOnce`, `FeedComplete`, `HostOrder`), `CoverageIsHonest`, `OutcomeIsSeen` |
| `mail` | `MCFabricMail.cfg`: 3 messages, 2 mailboxes, 3 sessions (two share one), 2 bodies, page 1 | 94,907 | `NoMailLost` (`MailTypeOK`, `MailedOnce`, `ReadBeforeMarked`) |
| `inbox` | `MCHumanInbox.cfg`: 2 requests (one with a deadline), 2 answers, 2 chair sessions of one mailbox, 1 hook, 8 operation ids, page and envelope 1; `FairSpec` | 69,774 | `ResolvesOnce` (`TypeOK`, `OneAnswer`, `HistoryIsShort`, `OncePerOperation`), `OnlyToTarget`, `AckStands`, `AnswersArrive` |

Why the bounds are enough. *Landing*: an error needs an operation and a
successor, a second actor to inherit, a second process to overlap, and a commit
that is not a descendant; two generations give one takeover. A lease is either
live or expired, so a two-valued clock that moves both ways reaches every order
of expiry. `Focus` explores several owners at one server, or one owner while the
origin moves between two servers: who holds the lease does not interact with a change
of origin. *Claims*: the three scopes overlap upwards, downwards and, for `tree` and
`leaf`, not at all, so a two-path scope can meet two neighbours held at once; two
leases over four instants give expiry before, during and after a neighbour's. With
`PruneLimit` 1 some released rows stay and some go. *Tasks*: five ids carry create,
claim, takeover or update, close, and one retry; three generations allow a fence to
be stale by more than one. *Guardian*: every deadline needs only "not yet" and
"passed", and slot waiting "unused" and "used up". *Custody*: two deaths are a
launcher or guardian and the pass that recovers it; two boots are one reboot. One
pass at a time suffices for liveness; two at once are covered by the theorems, which
hold for any number of passes. Readers
and writers share no lock, so one of either suffices except for the slot, which has a
run with two writers; a stop request only disables steps there, so `OneWriter` loses
nothing by leaving it out (`MCNoStopRequest`). *Settlement*: four tries let a driver come back after the limit,
so that an uncharged import would be seen; two tips let the private branch move
between a pin and a retry. Two faults let a driver die and its successor die too; the
third is the finding. *Peer*: two processes are a call and its retry, two inputs and
results make a changed request or answer visible. *Events*: pages of one make every
cursor position a page boundary. *Mail*: pages of one and a shared mailbox let marks
of different pages cross. *Inbox*: one answer that fits behind one that does not.

What `FabricLanding`, `FabricClaims` and `FabricTasks` promise beyond the table
(`TypeOK`, `OneOperationPerGeneration`, `SettledStaysSettled`, `FencesUnique`,
`DeadFencesStayDead`, `FinishedStaysFinished`) is proved for every instance and not
repeated by a run.

Symmetry is declared where only safety is checked (`landing`, `claims`, `tasks`,
`mail`, `custody_slot`). Deadlock is checked for `landing`, `tasks`, `peer`, `events` and `mail`. It is
off for `claims`, where the modelled time ends at `MaxTime`, for the guardian,
custody and settlement, whose attempts end, and for `inbox`, where the operation ids
are used up.

**Fairness.**

* `guardian`: weak fairness of the guardian (a running process is scheduled), of time
  and of the death of a provider that was sent KILL (nothing is assumed of TERM).
  Strong fairness of a durable `Reserve` and a durable `Publish`: storage that fails
  now and then succeeds eventually, the assumption under which the code retries both
  without limit. KILL is tried once (`killed` is set whatever the answer), so
  `ProviderStops` excuses a KILL that failed. A guardian that is killed is excused
  (`pc = "dead"`); what becomes of its attempt is `AttemptCustody`.
* `custody`: live processes go on, a person asks for explicit reconcile passes again
  and again (background passes stop after three failures and are not assumed), every
  pass ends, and what can be decided does not stay undecided for ever. That a finish
  succeeds is not assumed: `ExitIsPursued` says that one is begun again and again until
  the record is terminal, `RebootSettles` names what can be settled (`Settleable`).
* `settlement`: a driver goes on, retry deadlines pass, the guardian works through its
  schedule, and passes are asked for again and again.
* `peer`: a process goes on, some process calls again for an unanswered operation, and
  a journal, transport and owner that work now and then are tried until they do.
* `events`: a reader that always asks every host keeps coming back; what failed is
  tried again by its next read.
* `inbox`: hooks of every chair keep running and print in the end, and a chair
  acknowledges what it was given.

## Proofs

Checked by TLAPS 1.4.5 with Z3, Zenon and LS4, for every value of the constants
that satisfies the named assumptions.

| Module | Theorems | Assumptions |
|---|---|---|
| `FabricLandingProofs` | `TypeCorrect`, `OwnerPinned`, `CustodyHeld`, `NoFalseLanding`, `SingleOperation`, `FastForwardOnly`, `SettledIsFinal` | `AbsentAssumption` (the "none" values are not elements), `TimeAssumption`, `AncestorAssumption` (`Ancestor` is a relation on commits; neither reflexivity nor transitivity is needed) |
| `FabricClaimsProofs` | `TypeCorrect`, `ClaimsExclude`, `GenerationsUnique`, `NoRevival`, `ImplementsLease` | `ClaimConstants` |
| `FabricTasksProofs` | `TypeCorrect`, `OneAnswer`, `GenerationsUnique`, `NoRevival`, `NoStaleUpdate`, `FinishedIsFinal`, `ImplementsLease` | `TaskConstants`, `ReceiptConstants` |
| `ProviderGuardianProofs` | `RecordsAreTrueHolds`, `SettledExitHasReservationHolds`, `FenceUntilSettledHolds`, `PublishedFactsStandHolds` | `BudgetAssumption` (budgets are numbers; the wall budget and the settlement tries are positive), `EnvironmentAssumption` |
| `AttemptCustodyProofs` | `TypeOKHolds`, `OneWriterHolds`, `WithdrawnNeverRunsHolds`, `EndedMeansGoneHolds`, `NoExitIsLostHolds`, `FenceOutlivesRunHolds` | `CustodyAssumption` (readers are not writers, the slot's name is no attempt), `NoneAssumption` |
| `WriterSettlementProofs` | `PublishedIsPinnedHolds`, `ImportsBoundedHolds`, `SuccessIsPublishedHolds`, `ReleasedIsSettledHolds`, `DecisionStandsHolds` | `SettlementAssumption` |
| `PeerJournalProofs` | `AnswersAgreeHolds`, `RefusalIsFinalHolds` | `AnswerAssumption` (a result, a refusal and the ways of having no answer are told apart) |
| `FabricStoreProofs` | `NoMailLostHolds`, `ResolvesOnceHolds`, `OnlyToTargetHolds`, `AckStandsHolds`, `FeedFaithfulHolds`, `CoverageIsHonestHolds` | `MailAssumption` (finitely many mailboxes), `InboxAssumption`, `HostAssumption` (hosts and page sizes are numbers) |

Each module proves one inductive invariant `IInv` (initial states, one step per
action, QED by PTL) and derives the rest.

*Landing.* None of the four safety invariants is inductive alone. That a recorded
landing was on the remote needs to know that what a process saw was really held
there (`SeenInv`) and that the process still works on the operation it saw it for
(`LocalsInv`: the local copy of the commits equals the frozen row). That a push has
custody needs the lock to identify the one non-idle process (`LockInv`). That an
unresolved push pins its owner needs generations to be at most the counter and
operations to belong to the current row (`GenInv`, `OpInv`). Fast-forwarding of
orphaned pushes needs `OrphanInv`: the check made before Begin is carried with the
request. The two action properties follow from `IInv` by cases on the action.

*Claims.* Exclusion needs `HeldInv` (a held row carries the counter's generation and
all its paths are in the index the overlap query reads); uniqueness of fences and revival need `IssuedInv`:
every fence issued carries a generation at most the scope's counter, which
pruning never lowers. The proof does not bound the tree of paths.

*Tasks.* `AnswerInv` ties each answer to the receipt of its id, `ReceiptInv` bounds
the generation of each receipt by the task's, and `GrantInv` says that two claim
receipts of one task and generation are the same receipt. The lemma `RowSteps` says
what any step may do to a row (nothing, create, grant, renew, write, close); the action properties and the refinement follow from it.

*Refinement.* `ImplementsLease` shows, per scope and per task, that initial states
map to `FencedLease!Init` and every step to a grant, a give-up or a stutter.

*Guardian.* `MachineInv` ties the machine's open stop attempt to the guardian's first
stop reason; a stop is opened only while none is open, so there is one reason.
`ProcessInv` says at which stages a provider and its group may still live, `CancelInv`
what a recorded cancellation knows about the signal. `ExitInv` orders the durable
writes by the guardian's stage, the reservation before the exit, the exit before the
reservation is handed over, with the unsynced copies a crash may keep or drop;
`FenceInv` says when the lock may be gone. The lemma `TurnDecides` bounds what one turn
of the loop chooses, whatever events it meets at once.

*Custody.* `FlockInv` and `HeldInv`: holders of one flock are processes of one attempt,
and a launcher, a guardian that may still spawn and a provider hold theirs; this alone
keeps two writers apart. What a pass may conclude rests on `LaunchInv`, `GuardianInv`
and `EvidenceInv` (how far the launch got, from what it left behind), `ExitInv` and
`RecordInv` (what an exit and a record imply about processes). After a sweep the
claim is weaker: the flock was free when the pass took it, so a descendant that lives on
had let it go, and under `OrphansEnded` it is none of those the exit named.
`EndedMeansGone` and `FenceOutlivesRun` state that much. `PassInv` carries what a
pass has established under exclusion to the step where it acts on it: evidence read
before the lock is used only after it was read again.

*Settlement.* `HolderInv`: whoever is at work on a writer holds the writer lock, so
the journal, the receipts and the decision move under one driver. `ModeInv` and
`DecidedInv` say which durable files exist at each step of it, `ImportInv` that imports
never exceed the charged attempts, `PinInv` that the pinned head is what was received,
published and reported. A reader is decided without the lock (`ReaderInv`). `ClearInv`
is the only place where a fence may be absent.

*Peers.* `ToldInv` and `SuccessInv`: an answer told stands in the journal, and a success
in a process's hands is already the owner's receipt. That a refusal is final needs the
course of a single caller (`CourseInv`): where it stands decides the journal's phase and
whether a copy of its request is under way. It is stated for operation ids with one
caller because it is false with two.

*Mail.* A page holds the first so many unread deliveries, so what lies between the
position it was read from and its end is on it (`FirstPage`); hence where a session
stopped, and any cursor marked from there, has passed nothing that was not given
(`ReadInv`). `SentInv` says that a message's deliveries are its recipients, each once.

*Inbox.* `RequestInv`: a request's revision counts what happened to it, so a third
revision is a closure. `OutboxInv` and `OneAnswer` tie a row of the outbox to the
request that names it. `HookInv`: a hook about to print holds rows of its own chair,
because it read them again. `AckStands` follows by cases on who writes the outbox.

*Run events.* A cursor may be stale when its page arrives and another reader may have
ingested past it. `PageOK`: a page begins at a position the host's cursor has already
passed and has every kept event up to its end, so a cursor moved to that end leaves
nothing kept behind (`FeedComplete`). `HostOrder` follows: a row of a page that is not
in the stream yet lies past the cursor or had been deleted by retention after the fetch.
`Honest` follows a pull host by host: what was due at a host already visited is in the
stream, or deleted, or the answer says so. Order needs no induction over sequences: the
rank of a number among the members of a finite set numbers them 0, 1, 2 …
(`Ranks`), which gives what `ORDER BY` and `LIMIT` promise (`AscendingIs`, `FirstPage`,
`FullPage`).

Only model-checked: all liveness (`ProviderStops`, `ExitIsPublished`,
`ExitIsPursued`, `RebootSettles`, `ExitSettles`, `AppliedIsLearned`, `OutcomeIsSeen`,
`AnswersArrive`). Out of the prover's reach in principle: liveness under fairness and
`ENABLED`, what a recursive definition computes for every input (induction over data),
and modules with `RECURSIVE` operators; this project has none of the last kind.

## Findings

`settlement_wedge` (a statement of the repository that the code does not keep, with a
run that shows it). A driver whose third import fails seals
object-import-refused.json with the reason "settlement failed after three attempts".
If it dies, or a write fails, before terminal-pending.json is sealed, the next claim
reports the limit and `finish_in_custody` takes the branch without a driver; its reason
reads "settlement exhausted three attempts", and `seal` refuses the same file with
other bytes. Every later pass ends there: the attempt is not decided, its fence stays,
and it cannot be abandoned because it is not terminal; only a cancellation frees it.
`settlement.rs:386` says "A crash leaves its progress and attempt count ready for the
next claim", `docs/specs/supervisor.md:290` "A dead owner resumes at the last durable
phase".

### Other disagreements met while modelling

Each was found by checking the formula named here in the module named here; the
modules keep the behaviour, and the formula is not one of the properties because the
code does not satisfy it.

* *ProviderGuardian*: a published exit whose stop reason is `WallDeadline` had that
  TERM delivered. The guardian records `stop_reason` before it tries the TERM
  (`supervisor/src/guardian.rs:1237`); when the provider exits in between, the TERM
  fails and the exit still names `WallDeadline`, which `holder.rs:1382` reports as a
  time-out. `machine.rs:217`: "A timeout is reportable only after WallDeadline delivery
  succeeded."
* *ProviderGuardian*, with reconcile's `WallDeadline` request among `Requests`: a turn
  after a terminal frame leaves the machine out of `Running`. The frame is consumed
  (`guardian.rs:1142`) before the event is chosen; a `WallDeadline` request read in
  that turn becomes a retry that the running machine ignores, so stdin stays open and
  no terminal grace starts. `crates/supervisor/README.md:128`: "Terminal grace uses
  `root_flush_ms`."
* *PeerJournal*: no request is sent while its journal row is `unknown`. Two processes
  with one operation id both read `prepared` and both send; when one records `unknown`
  first, the other still sends (`federation.rs:228`). `docs/specs/fabric.md:1489`: "If
  its outcome is uncertain, Fabric asks only for the home host's receipt and never
  repeats it". The owner's receipt keeps the mutation from being applied twice.
* *AttemptCustody*: every durable exit reaches the record. `custody::launch` publishes
  an exit and no launch.json when its caller was cancelled
  (`supervisor/src/custody.rs:1132`); no later pass commits it. `controls.rs:2921`: "A
  durable exit is committed and released". `ExitIsPursued` and `RebootSettles` name
  the launch summary for this reason.
* *AttemptCustody*: a final exit of a launched attempt is eventually committed. A
  withdrawal is sealed (`run/src/store.rs:1530`) under publication.lock, which neither
  `mark_starting` nor `claim_observed` takes (`admission.rs:1212`), and neither looks at
  the file. An attempt that starts, or is admitted, between the seal and the update
  runs beside a sealed rejection or cancellation; every finish and every `commit_lost`
  of it then ends in the Conflict of `store.rs:576`. `store.rs:1057`: "any other state
  is a conflict, so a cancelled queued attempt never races a starting launch".
  `controls.rs:2921`: "A durable exit is committed and released". The row never takes
  the stale decision (`WithdrawnNeverRuns`).
* *AttemptCustody*: an unresolved exit is settled once the host was rebooted. One that
  names nobody (an unavailable census or a refused fresh lease, `cleanup.rs:438`) is
  not swept (`controls.rs:3600`), its finish is refused (`store.rs:996`), and
  `settle_rebooted` leaves attempts with an exit alone. `orphans.rs:285`: "A new boot
  ended every process of the old one." `Settleable` excludes it.
* *AttemptCustody*: no descendant lives when the fence goes. `end_orphans` looks at the
  names in the exit, at most 16 (`guardian.rs:1750`); one that is not named and let the
  flock go outlives `OrphansEnded` and the fence. `docs/specs/supervisor.md:230`: "A
  writer stays fenced until three things hold", because (line 234) "a leftover
  descendant could still write the worktree".
* *AttemptCustody*: no reservation appears while a pass holds an attempt as unreserved.
  `prove_unreserved` locks the attempt directory, a writer's launcher the worktree
  slot. `custody.rs:1939`: "while this lease lives no reservation can be created".
  `WithdrawnNeverRuns` holds all the same, by the record checks before hand-off and
  at admission.
* *WriterSettlement*: a success has a receipt that says its import is done once its
  driver is gone. Receipts sealed by a driver that died before its decision are kept
  beside a later success (`holder.rs:2127`); if that driver dies before its own
  receipt, the next pass refuses an import that was published and withholds
  delivery.

## Abstractions and what they leave out

* **Store transactions are atomic.** Each mutation is one immediate SQLite
  transaction; a reader sees all of it or none.
* **Receipts** are modelled once, with tasks. Claims and landings go through the
  same function and their modules call the store operation directly.
* **Secrets.** A caller presents only fences it may know: those handed out, under
  its own or somebody else's name (`Presented`). Guessing tokens is not modelled.
* **Clocks.** Landing and tasks let the clock move both ways. Claims assume it does
  not go back: expiry is compared with the wall clock and nothing keeps a high-water
  mark, so exclusion holds only relative to that (listed as a hazard).
* **Generations** are bounded by `MaxGen`, standing for the `i64` bound
  `next_generation` refuses to pass.
* **Claim overlap** is the prefix relation on component sequences; the code's
  byte-range query for descendants is planned as a separate check.
* **Landing** leaves out the inspection read, the construction of Git arguments and
  environments, fetches and bundles, and command-line parsing.
* **Guardian.** Time is the time left to each deadline, in steps. Locals of the loop
  are reset after cleanup, where nothing reads them. A wall clock that jumps past the
  deadline is a free Boolean of the turn. Descendants are one Boolean, true from the
  spawn; before the loop ends nobody looks at them. Deletions of directories happen
  outside the loop, where their effect shows. The environment is silent once the
  guardian has ended. Complete cleanup needs a census only some builds provide, so
  completeness is a choice limited to empty groups. The reserve file kept for a full
  disk and a foreign `process-exit.json` are outcomes of a write. Errors of creating
  captures, of oversized budgets and of `checked_add` are excluded by plans that
  validation admits. The 120 s that reconcile adds to a deadline is abstracted: a
  request may come as soon as the recorded deadline has passed. Disk samples, build
  pausing, telemetry and port leases change none of the modelled facts. The hand-off
  before `Driver::run` is in `AttemptCustody`.
* **Custody.** One generation per attempt. custody.lock, launcher.lock, fences kept
  for a retained import, slot cutover, device and inode anchors and failing storage
  (which `ProviderGuardian` has) are left out. Processes that cannot be read are an
  observation of their own (`Uncertain`). A complete census is taken to be true, also of
  descendants that detached (the attempt's sandbox marks them). One descendant stands
  for all; whether the exit names it is a choice. "lost" is lost without an exit: an
  attempt whose exit leads to the outcome Lost (`holder.rs:1393`) is finished here. The kill rounds of `end_orphans` are one
  step; pids are not modelled, so their reuse is not. Reservations of predecessors do
  not exclude writers (`custody.rs:446`). A pass that dies between `commit_lost` and
  `release_lost` leaves the fence of a spawned attempt until the next boot; the model
  has that behaviour and `RebootSettles` is the promise that remains.
* **Settlement.** The exit is durable already. The guardian keeps the writer lock for
  all its tries; a pass needs it for a writer, and to decide a reader needs nothing.
  The journal's owner is folded into the lease, the retry deadline is the Boolean
  `due`. A refusal carries its reason because `seal` compares bytes. The outcome of the
  decoder is a choice; `stopped` is a cancellation delivered before the exit. The
  private tip and the shared branch are moved by the environment. A cancellation that
  arrives after publication is decided as cancelled although the branch has moved
  (`writer.rs:2362`); no document promises otherwise and no property is about it.
* **Peers.** The request body is a value frozen in the journal; SSH framing, redaction
  and size limits are left out. `RefusalIsFinal` and `AppliedIsLearned` speak of
  operation ids that one process called: with two, a copy under way may be applied
  after the other's refusal was recorded, and two callers may undo each other's phases
  for ever.
* **Events.** Rows of other kinds share the stream and are left out. `event_cursor` and
  `mark_events_read` are called by tests only. Record size limits are left out.
* **Mail.** A session marks only the cursor of a page it read.
* **Inbox.** Withdrawn, superseded and expired are one closed state, Answered,
  Confirmed and Overridden one answered state. A new operation takes the smallest
  unused id. A call with a stale expected revision is refused and changes nothing. An
  answer's size is fits, tight (alone in an envelope) or oversized. Mail is not read in
  the inbox run; reading is the mail run's.

## Not modelled

The map covers the fabric's coordination, the supervisor and the settlement of
attempts; most of the repository's lines are elsewhere.

* *Pure or presentational*: parsing, routing, configuration, record encodings,
  confinement profiles, the MCP server's schemas, the CLI, telemetry, the menu bar. They
  keep no state that steps of several actors can disturb.
* *Operating-system and SQLite layers*: assumed by the models (atomic transactions,
  flock, rename, fsync) and not modelled themselves.
* *Parts of modelled components*: control mail of the menu bar (Steer, ChairMessage),
  listings and viewer rows; `settle_unreserved_loss`, steering, status and clean of the
  controls; worktree removal, manifest conflicts and budget commits of settlement.
* *Still to do*: the components in the plan.

## Plan

Done: `FabricLanding`, `FencedLease`, `FabricClaims`, `FabricTasks`, `ProviderMachine`,
`ProviderGuardian`, `AttemptCustody`, `WriterSettlement`, `PeerJournal`, `FabricMail`,
`HumanInbox`, `FabricEvents` and their proofs: every invariant and action property the
runs check is a theorem.

Next, in this order:

1. `WriterDelivery`: `deliver_once`, push, `existing_pr`, `retry_terminal_effects`. At
   most one pull request, a delivered receipt is true, nothing automatic after a seal;
   `docs/specs/run.md:699` ("A start without a known result … is never automatically
   repeated") is the sentence to check.
2. `SettlementQueue`: the detached workers that run passes. `OrphanSweep`: the kill
   rounds with pids that are reused and the identity check before each signal.
3. `RunAdmission`: tickets, lane caps and spacing; caps hold, tickets do not starve.
4. `GraphNode`: the per-node attempt machine with its journal and restart.
5. The pull-request landing driver, quota ticks, retention of worktrees.
6. `ClaimPaths`: the byte-range overlap query against the prefix definition, over
   bounded byte strings.

Theorems next: the inductive invariant of each new module, and a refinement of
`AttemptCustody` by `ProviderGuardian` (the guardian's loop as one observation).
