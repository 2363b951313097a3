------------------------- MODULE WriterSettlement -------------------------
(***************************************************************************)
(* Settlement of one exited attempt: the Git import of a writer, the       *)
(* terminal decision, the import receipt and the release of the fence.     *)
(*                                                                         *)
(* The attempt has a durable exit.  Its guardian settles it in a bounded   *)
(* number of tries; reconcile passes settle it once the guardian let go of *)
(* the writer lock; a chair may abandon it.  A writer is settled under the *)
(* writer lock (holder); the decision on a reader is reached without it,   *)
(* so a pass and the guardian race.  Every driver claims the settlement    *)
(* journal (lease) before it works on an undecided attempt.                *)
(*                                                                         *)
(* Sources: crates/run/src/settlement.rs (journal, claim, driver),         *)
(* holder.rs (finish_in_custody, finish_effects), writer.rs (terminal),    *)
(* objects.rs (publish_branch), store.rs (publish_terminal, receipts),     *)
(* crates/supervisor/src/guardian.rs (release).                            *)
(***************************************************************************)
EXTENDS Naturals

CONSTANTS Limit,      \* attempts that may reach the object import
          Tries,      \* tries of the guardian
          Tips,       \* tips the private branch may have, 1..Tips
          Faults      \* bound on crashes and failed steps

ASSUME SettlementAssumption ==
  /\ Limit \in Nat \ {0}
  /\ Tries \in Nat \ {0}
  /\ Tips \in Nat \ {0}
  /\ Faults \in Nat

VARIABLES
  phase, attempts, pinned, due,   \* settlement-progress.json
  effects, intent, refusal,       \* sealed files of the attempt directory
  record, receipt,                \* the terminal row and its import receipt
  tip, imported, branch,          \* private tip, shared objects, shared branch
  fence, released, abandoned,     \* reservation, release.json, abandonment
  holder, lease,                  \* writer lock, settlement-driver lock
  guardian, tries, pc, loc,       \* the drivers
  writer,                         \* whether the attempt has a writer
  cancel, stopped,                \* cancel.json; stop delivered before the exit
  faults, imports, published      \* bound; history of imports and publications

journal == <<phase, attempts, pinned>>
sealed  == <<effects, intent, refusal>>
row     == <<record, receipt>>
git     == <<tip, imported, branch, published>>
ends    == <<fence, released, abandoned>>
locks   == <<holder, lease, due>>
proc    == <<guardian, tries>>
env     == <<writer, cancel, stopped, faults>>
vars    == <<journal, sealed, row, git, ends, locks, proc, env, pc, loc, imports>>

Drivers  == {"guardian", "pass"}
Actors   == Drivers \cup {"chair"}
Phases   == <<"import", "publish", "record", "release", "complete">>
Outcomes == {"succeeded", "failed", "cancelled"}
Heads    == 1..Tips
Base     == 0            \* the branch still is the pinned base
Ahead    == Tips + 1     \* a descendant of the pinned head
Other    == Tips + 2     \* neither: somebody else moved it

Rank(p) == CHOOSE i \in 1..5 : Phases[i] = p
Later(p, q) == IF Rank(p) < Rank(q) THEN q ELSE p

\* A driver at rest.
Blank == [mode |-> "first", res |-> "ok", out |-> "failed", lost |-> FALSE]

TypeOK ==
  /\ phase \in {Phases[i] : i \in 1..5} /\ attempts \in 0..Limit
  /\ pinned \in Heads \cup {0} /\ due \in BOOLEAN
  /\ effects \in {"none", "done", "retry", "refused"}
  /\ intent \in Outcomes \cup {"none"} /\ record \in Outcomes \cup {"none"}
  /\ refusal \in {"none", "failed", "limit", "precondition", "final"}
  /\ receipt \in {"none", "done", "retry", "refused"}
  /\ tip \in Heads /\ imported \subseteq Heads /\ published \subseteq Heads
  /\ branch \in Heads \cup {Base, Ahead, Other}
  /\ fence \in BOOLEAN /\ released \in BOOLEAN /\ abandoned \in BOOLEAN
  /\ holder \in Actors \cup {"none"} /\ lease \in Actors \cup {"none"}
  /\ guardian \in BOOLEAN /\ tries \in 0..Tries
  /\ pc \in [Actors -> {"idle", "start", "claim", "pin", "charge", "importing",
                        "cancelcheck", "publish", "published", "verify", "decide",
                        "seal", "effects", "advance", "intent", "commit", "receipt",
                        "drive", "reclaim", "refuse", "refused", "settle",
                        "settled", "clear"}]
  /\ loc \in [Actors -> [mode : {"first", "retry", "final"},
                         res : {"ok", "error", "precondition", "limit", "failed"},
                         out : Outcomes, lost : BOOLEAN]]
  /\ writer \in BOOLEAN /\ cancel \in BOOLEAN /\ stopped \in BOOLEAN /\ faults \in 0..Faults
  /\ imports \in Nat

Init ==
  /\ phase = "import" /\ attempts = 0 /\ pinned = 0 /\ due = FALSE
  /\ effects = "none" /\ intent = "none" /\ refusal = "none"
  /\ record = "none" /\ receipt = "none"
  /\ tip = 1 /\ imported = {} /\ branch = Base
  /\ fence = TRUE /\ released = FALSE /\ abandoned = FALSE
  /\ holder = "guardian" /\ lease = "none"
  /\ guardian = TRUE /\ tries = Tries
  /\ pc = [a \in Actors |-> "idle"] /\ loc = [a \in Actors |-> Blank]
  /\ writer \in BOOLEAN /\ stopped \in BOOLEAN /\ cancel = stopped
  /\ faults = 0 /\ imports = 0 /\ published = {}

(***************************************************************************)
(* Helpers.                                                                *)
(***************************************************************************)
Go(a, step) == pc' = [pc EXCEPT ![a] = step]

Note(a, field, v) == loc' = [loc EXCEPT ![a][field] = v]

\* Dropping the driver clears the journal owner and sets the retry deadline.
Drop(a) ==
  /\ lease' = IF lease = a THEN "none" ELSE lease
  /\ due' = (due \/ lease = a)

\* The call ends.  A pass lets go of the writer lock; the guardian keeps it
\* for its next try.
Leave(a) ==
  /\ Drop(a) /\ Go(a, "idle") /\ loc' = [loc EXCEPT ![a] = Blank]
  /\ holder' = IF holder = a /\ a # "guardian" THEN "none" ELSE holder

\* import_release_permitted: only a failed import that can still be retried
\* holds custody.
MutPermitted == record # "none"
Permitted == abandoned \/ refusal # "none" \/ receipt # "retry"

\* record_effect: a receipt that says done is never replaced.
Writable(r) == receipt = "done" => r = "done"

\* The claim finds another driver, a finished journal or a retry deadline.
Exhausted == attempts = Limit /\ phase = "import"
Busy == \/ lease # "none" \/ phase = "complete"
        \/ due /\ ~Exhausted

(***************************************************************************)
(* The guardian and the passes enter.                                      *)
(***************************************************************************)
\* retry_terminal_with: the next try of the guardian's schedule.
Try ==
  /\ guardian /\ pc["guardian"] = "idle" /\ tries > 0
  /\ tries' = tries - 1 /\ Go("guardian", "start")
  /\ UNCHANGED <<journal, sealed, row, git, ends, locks, guardian, env, loc, imports>>

\* The schedule is used up: the guardian ends and its lock with it.
GiveUp ==
  /\ guardian /\ pc["guardian"] = "idle" /\ tries = 0
  /\ guardian' = FALSE
  /\ holder' = IF holder = "guardian" THEN "none" ELSE holder
  /\ UNCHANGED <<journal, sealed, row, git, ends, lease, due, tries, env, pc, loc, imports>>

\* reconcile_live_attempt and finish: an undecided attempt with an exit.  A
\* writer needs the writer lock, a reader nothing.
PassLive ==
  /\ pc["pass"] = "idle" /\ record = "none" /\ ~abandoned
  /\ writer => holder = "none"
  /\ holder' = IF writer THEN "pass" ELSE holder
  /\ Go("pass", "start")
  /\ UNCHANGED <<journal, sealed, row, git, ends, lease, due, proc, env, loc, imports>>

\* What settle_failed_import refuses: an import that could be retried, and a
\* refused one whose evidence is sealed.
MutFailedImport == FALSE
FailedImport == receipt = "retry" \/ (receipt = "refused" /\ refusal # "none")

\* reconcile_attempt and finish_recovered_terminal: a decided attempt whose
\* fence is retained.  settle_failed_import turns an import that could still
\* be retried into a final refusal first, excluding a live driver.
PassTerminal ==
  /\ pc["pass"] = "idle" /\ record # "none" /\ ~abandoned
  /\ ~Permitted \/ (effects # "none" /\ fence)
  /\ holder = "none" /\ holder' = "pass"
  /\ \/ /\ FailedImport /\ lease = "none"
        /\ Go("pass", "refuse") /\ Note("pass", "mode", "final")
     \/ ~FailedImport /\ Go("pass", "start") /\ UNCHANGED loc
  /\ UNCHANGED <<journal, sealed, row, git, ends, lease, due, proc, env, imports>>

(***************************************************************************)
(* finish_in_custody.                                                      *)
(***************************************************************************)
\* A decided attempt goes on with its effects; a sealed decision is replayed.
Start(a) ==
  /\ pc[a] = "start"
  /\ \/ /\ record # "none" /\ Go(a, "drive") /\ UNCHANGED row
     \/ /\ record = "none" /\ intent # "none" /\ Go(a, "drive")
        /\ record' = intent /\ receipt' = effects
     \/ /\ record = "none" /\ intent = "none" /\ Go(a, "claim")
        /\ UNCHANGED row
  /\ UNCHANGED <<journal, sealed, git, ends, locks, proc, env, loc, imports>>

\* Guard::claim refuses: the call ends in contention.
ClaimRefused(a) ==
  /\ pc[a] = "claim" /\ Busy
  /\ Leave(a)
  /\ UNCHANGED <<journal, sealed, row, git, ends, proc, env, imports>>

\* The outcome the decoder and the publication checks give.
Decoded(a) == \E o \in {"succeeded", "failed"} : Note(a, "out", o)

\* A sealed refusal replaces whatever was decoded.
MutRefusedOutcome(a) == Decoded(a)
RefusedOutcome(a) == Note(a, "out", "failed")

\* Guard::claim grants the journal, or reports the limit (no driver then).  A
\* reader, a stopped attempt and a refused import skip the import.
ClaimGranted(a) ==
  /\ pc[a] = "claim" /\ ~Busy
  /\ \/ Exhausted /\ UNCHANGED <<lease, due>>
     \/ ~Exhausted /\ lease' = a /\ due' = TRUE
  /\ \/ stopped /\ Go(a, "effects") /\ Note(a, "out", "cancelled")
     \/ ~stopped /\ ~writer /\ Go(a, "effects") /\ Decoded(a)
     \/ ~stopped /\ writer /\ Exhausted /\ Go(a, "decide") /\ Note(a, "res", "limit")
     \/ /\ ~stopped /\ writer /\ ~Exhausted /\ refusal # "none"
        /\ Go(a, "effects") /\ RefusedOutcome(a)
     \/ /\ ~stopped /\ writer /\ ~Exhausted /\ refusal = "none"
        /\ Go(a, "pin") /\ UNCHANGED loc
  /\ UNCHANGED <<journal, sealed, row, git, ends, holder, proc, env, imports>>

(***************************************************************************)
(* WriterLaunch::terminal, run by the first decision and by a retry.       *)
(***************************************************************************)
\* The base and the head are pinned once; a later driver takes the pinned head.
MutPin(a) ==
  /\ pc[a] = "pin"
  /\ pinned' = tip
  /\ Go(a, IF phase = "import" THEN "charge" ELSE "cancelcheck")
  /\ UNCHANGED <<phase, attempts, sealed, row, git, ends, locks, proc, env, loc, imports>>
Pin(a) ==
  /\ pc[a] = "pin"
  /\ pinned' = IF pinned = 0 THEN tip ELSE pinned
  /\ Go(a, IF phase = "import" THEN "charge" ELSE "cancelcheck")
  /\ UNCHANGED <<phase, attempts, sealed, row, git, ends, locks, proc, env, loc, imports>>

\* begin_import charges the driver before Git runs.
MutCharge(a) ==
  /\ pc[a] = "charge"
  /\ UNCHANGED attempts /\ imports' = imports + 1
  /\ Go(a, "importing")
  /\ UNCHANGED <<phase, pinned, sealed, row, git, ends, locks, proc, env, loc>>
Charge(a) ==
  /\ pc[a] = "charge"
  /\ attempts' = attempts + 1 /\ imports' = imports + 1
  /\ Go(a, "importing")
  /\ UNCHANGED <<phase, pinned, sealed, row, git, ends, locks, proc, env, loc>>

\* settle_many received the graph of the pinned head.
Import(a) ==
  /\ pc[a] = "importing"
  /\ imported' = imported \cup {pinned}
  /\ phase' = Later(phase, "publish")
  /\ Go(a, "cancelcheck")
  /\ UNCHANGED <<attempts, pinned, sealed, row, tip, branch, published, ends, locks, proc, env, loc, imports>>

\* A cancellation request stops the import between receive and publication.
CancelCheck(a) ==
  /\ pc[a] = "cancelcheck"
  /\ \/ cancel /\ Go(a, "decide") /\ Note(a, "res", "error")
     \/ /\ ~cancel /\ Go(a, IF phase = "publish" THEN "publish" ELSE "verify")
        /\ UNCHANGED loc
  /\ UNCHANGED <<journal, sealed, row, git, ends, locks, proc, env, imports>>

\* publish_branch: compare and swap from the base; a branch that is the head
\* or contains it is left where it is.
Publish(a) ==
  /\ pc[a] = "publish"
  /\ branch \in {Base, pinned, Ahead}
  /\ branch' = IF branch = Base THEN pinned ELSE branch
  /\ published' = published \cup {pinned}
  /\ Go(a, "published")
  /\ UNCHANGED <<journal, sealed, row, tip, imported, ends, locks, proc, env, loc, imports>>

Published(a) ==
  /\ pc[a] = "published"
  /\ phase' = Later(phase, "record") /\ Go(a, "verify")
  /\ UNCHANGED <<attempts, pinned, sealed, row, git, ends, locks, proc, env, loc, imports>>

\* The branch is the head or descends from it and the tree is settled.
Verify(a) ==
  /\ pc[a] = "verify" /\ branch \in {pinned, Ahead}
  /\ Go(a, "decide") /\ Note(a, "res", "ok")
  /\ UNCHANGED <<journal, sealed, row, git, ends, locks, proc, env, imports>>

\* Any step of terminal may fail: Git, the index, a lost swap, a moved branch,
\* the cancellation token; after the swap, the restored index and the import
\* refs.  What the worktree refuses, before the pin or in the last
\* verification, is a refused precondition.
TerminalFails(a) ==
  /\ \/ /\ pc[a] \in {"pin", "importing", "publish", "published", "verify"}
        /\ Note(a, "res", "error")
     \/ pc[a] \in {"pin", "verify"} /\ Note(a, "res", "precondition")
  /\ Go(a, "decide")
  /\ UNCHANGED <<journal, sealed, row, git, ends, locks, proc, env, imports>>

(***************************************************************************)
(* The decision: refusal, receipts, intent, commit.                        *)
(***************************************************************************)
\* First decision.  A requested stop turns a failed import into a
\* cancellation; refused preconditions and the limit seal a refusal; any other
\* failure is a failed decision with an import that can be retried.
DecideFirst(a) ==
  /\ pc[a] = "decide" /\ loc[a].mode = "first"
  /\ LET res == loc[a].res
     IN \/ res = "ok" /\ Go(a, "effects") /\ Decoded(a)
        \/ res = "precondition" /\ Go(a, "seal") /\ UNCHANGED loc
        \/ /\ res \in {"error", "limit"} /\ cancel
           /\ Go(a, "effects") /\ Note(a, "out", "cancelled")
        \/ res = "limit" /\ ~cancel /\ Go(a, "seal") /\ UNCHANGED loc
        \/ /\ res = "error" /\ ~cancel /\ attempts = Limit
           /\ Go(a, "seal") /\ Note(a, "res", "failed")
        \/ /\ res = "error" /\ ~cancel /\ attempts < Limit
           /\ Go(a, "effects") /\ Note(a, "lost", TRUE)
  /\ UNCHANGED <<journal, sealed, row, git, ends, locks, proc, env, imports>>

\* seal_import_refusal.  The file is sealed with the reason; the same file
\* with another reason is a conflict, and the call ends.
SealRefusal(a) ==
  /\ pc[a] = "seal"
  /\ \/ /\ refusal \in {"none", loc[a].res}
        /\ refusal' = loc[a].res /\ Go(a, "effects")
        /\ UNCHANGED <<locks, loc>>
     \/ /\ refusal \notin {"none", loc[a].res}
        /\ Leave(a) /\ UNCHANGED refusal
  /\ UNCHANGED <<journal, effects, intent, row, git, ends, proc, env, imports>>

\* terminal-effects.json: the receipts the commit will write.  Receipts that
\* an earlier driver sealed are kept.
Effects(a) ==
  /\ pc[a] = "effects"
  /\ effects' = IF effects # "none" THEN effects
                ELSE IF loc[a].lost THEN "retry"
                ELSE IF refusal # "none" THEN "refused" ELSE "done"
  /\ Go(a, "advance")
  /\ UNCHANGED <<journal, intent, refusal, row, git, ends, locks, proc, env, loc, imports>>

Advance(a) ==
  /\ pc[a] = "advance"
  /\ phase' = IF ~loc[a].lost /\ lease = a THEN Later(phase, "record") ELSE phase
  /\ Go(a, "intent")
  /\ UNCHANGED <<attempts, pinned, sealed, row, git, ends, locks, proc, env, loc, imports>>

\* commit_terminal seals terminal-pending.json; another decision, sealed or
\* committed meanwhile, ends the call.
MutIntent(a) ==
  /\ pc[a] = "intent"
  /\ intent' = loc[a].out /\ Go(a, "commit")
  /\ UNCHANGED <<journal, effects, refusal, row, git, ends, locks, proc, env, loc, imports>>
Intent(a) ==
  /\ pc[a] = "intent"
  /\ \/ /\ intent = "none" /\ record = "none"
        /\ intent' = loc[a].out /\ Go(a, "commit")
        /\ UNCHANGED <<locks, loc>>
     \/ /\ intent # "none" \/ record # "none"
        /\ Leave(a) /\ UNCHANGED intent
  /\ UNCHANGED <<journal, effects, refusal, row, git, ends, proc, env, imports>>

\* replay_terminal_locked and commit_terminal_record: the sealed decision and
\* the sealed receipts become the row; a row that already holds the decision
\* is left alone.
Commit(a) ==
  /\ pc[a] = "commit"
  /\ \/ record = "none" /\ record' = intent /\ receipt' = effects
     \/ record # "none" /\ UNCHANGED row
  /\ Go(a, "receipt")
  /\ UNCHANGED <<journal, sealed, git, ends, locks, proc, env, loc, imports>>

\* The import receipt of this driver.  A failed import ends the call; a pass
\* whose row nevertheless permits the release publishes it.
Receipt(a) ==
  LET want == IF refusal # "none" THEN "refused" ELSE "done"
  IN /\ pc[a] = "receipt"
     /\ \/ /\ loc[a].lost \/ ~Writable(want)
           /\ Leave(a) /\ UNCHANGED row
           /\ released' = (released \/ (loc[a].lost /\ a = "pass" /\ Permitted))
        \/ /\ ~loc[a].lost /\ Writable(want)
           /\ receipt' = want /\ Go(a, "drive")
           /\ UNCHANGED <<record, released, locks, loc>>
     /\ UNCHANGED <<journal, sealed, git, fence, abandoned, proc, env, imports>>

(***************************************************************************)
(* finish_effects: a decided attempt.                                      *)
(***************************************************************************)
\* Custody may be released, or the import is tried again.
Drive(a) ==
  /\ pc[a] = "drive"
  /\ \/ /\ Permitted /\ Drop(a) /\ Go(a, "settle")
        /\ phase' = IF lease = a THEN Later(phase, "release") ELSE phase
     \/ /\ ~Permitted /\ Go(a, "reclaim") /\ UNCHANGED <<lease, due, phase>>
  /\ UNCHANGED <<attempts, pinned, sealed, row, git, ends, holder, proc, env, loc, imports>>

Reclaim(a) ==
  /\ pc[a] = "reclaim"
  /\ \/ Busy /\ Leave(a)
     \/ /\ ~Busy /\ Exhausted /\ Go(a, "refuse") /\ UNCHANGED <<locks, loc>>
     \/ /\ ~Busy /\ ~Exhausted /\ lease' = a /\ due' = TRUE
        /\ Go(a, "pin") /\ Note(a, "mode", "retry") /\ UNCHANGED holder
  /\ UNCHANGED <<journal, sealed, row, git, ends, proc, env, imports>>

\* The retried import: done, refused for good, or still to be retried.
DecideRetry(a) ==
  /\ pc[a] = "decide" /\ loc[a].mode = "retry"
  /\ LET res == loc[a].res
         final == res = "precondition" \/ attempts = Limit
     IN \/ /\ res = "ok" /\ receipt' = "done" /\ Drop(a) /\ Go(a, "settle")
           /\ UNCHANGED <<holder, loc>>
        \/ /\ res # "ok" /\ final /\ Go(a, "refuse") /\ UNCHANGED <<receipt, locks, loc>>
        \/ /\ res # "ok" /\ ~final /\ receipt' = "retry" /\ Leave(a)
  /\ UNCHANGED <<journal, sealed, record, git, ends, proc, env, imports>>

\* refuse_pending_import: the refusal first (a sealed reason is kept) ...
Refuse(a) ==
  /\ pc[a] = "refuse"
  /\ refusal' = IF refusal = "none" THEN "final" ELSE refusal
  /\ Go(a, "refused")
  /\ UNCHANGED <<journal, effects, intent, row, git, ends, locks, proc, env, loc, imports>>

\* ... then the receipt.  settle_failed_import goes on with the decision, a
\* retry with the release.
Refused(a) ==
  /\ pc[a] = "refused" /\ Writable("refused")
  /\ receipt' = "refused" /\ Drop(a)
  /\ Go(a, IF loc[a].mode = "final" THEN "start" ELSE "settle")
  /\ UNCHANGED <<journal, sealed, record, git, ends, holder, proc, env, loc, imports>>

(***************************************************************************)
(* Release.                                                                *)
(***************************************************************************)
\* The guardian, and a pass on a refused import, publish release.json before
\* they complete the journal; another pass completes first.
ReleaseFirst(a) == a = "guardian" \/ refusal # "none" \/ holder # a

PublishRelease(a) ==
  /\ pc[a] = IF ReleaseFirst(a) THEN "settle" ELSE "settled"
  /\ released' = TRUE
  /\ \/ /\ holder # a /\ Leave(a)                     \* a pass on a reader
     \/ /\ holder = a /\ UNCHANGED <<locks, loc>>
        /\ Go(a, IF ReleaseFirst(a) THEN "settled" ELSE "clear")
  /\ UNCHANGED <<journal, sealed, row, git, fence, abandoned, proc, env, imports>>

Complete(a) ==
  /\ pc[a] = IF ReleaseFirst(a) THEN "settled" ELSE "settle"
  /\ Permitted
  /\ phase' = "complete"
  /\ Go(a, IF ReleaseFirst(a) THEN "clear" ELSE "settled")
  /\ UNCHANGED <<attempts, pinned, sealed, row, git, ends, locks, proc, env, loc, imports>>

\* verify_settlement, then the reservation goes; the guardian ends.
ClearFence(a) ==
  /\ pc[a] = "clear" /\ released /\ record # "none"
  /\ fence' = FALSE
  /\ guardian' = (guardian /\ a # "guardian")
  /\ holder' = "none" /\ Drop(a) /\ Go(a, "idle") /\ loc' = [loc EXCEPT ![a] = Blank]
  /\ UNCHANGED <<journal, sealed, row, git, released, abandoned, tries, env, imports>>

\* abandon_settlement: only of a decided attempt, under both locks; the
\* abandonment is durable before the fence goes, and repeating it completes
\* an interrupted release.
Abandon ==
  /\ writer /\ pc["chair"] = "idle" /\ record # "none" /\ fence
  /\ lease = "none" /\ holder = "none"
  /\ abandoned \/ phase # "complete"
  /\ abandoned' = TRUE /\ phase' = "complete"
  /\ lease' = "chair" /\ holder' = "chair" /\ Go("chair", "clear")
  /\ UNCHANGED <<attempts, pinned, sealed, row, git, fence, released, due, proc, env, loc, imports>>

AbandonRelease ==
  /\ pc["chair"] = "clear"
  /\ fence' = FALSE /\ lease' = "none" /\ holder' = "none" /\ Go("chair", "idle")
  /\ UNCHANGED <<journal, sealed, row, git, released, abandoned, due, proc, env, loc, imports>>

(***************************************************************************)
(* The environment.                                                        *)
(***************************************************************************)
\* The process of a driver dies: its locks go, its journal entry stays.
Crash(a) ==
  /\ faults < Faults /\ faults' = faults + 1
  /\ pc[a] # "idle" /\ Go(a, "idle") /\ loc' = [loc EXCEPT ![a] = Blank]
  /\ lease' = IF lease = a THEN "none" ELSE lease
  /\ holder' = IF holder = a THEN "none" ELSE holder
  /\ guardian' = (guardian /\ a # "guardian")
  /\ UNCHANGED <<journal, sealed, row, git, ends, due, tries, writer, cancel, stopped, imports>>

\* A read, a write or a lock fails: the call ends, the process goes on.
StepFails(a) ==
  /\ faults < Faults /\ faults' = faults + 1
  /\ pc[a] # "idle" /\ Leave(a)
  /\ UNCHANGED <<journal, sealed, row, git, ends, proc, writer, cancel, stopped, imports>>

Deadline == /\ due /\ due' = FALSE
            /\ UNCHANGED <<journal, sealed, row, git, ends, holder, lease, proc, env, pc, loc, imports>>

\* cancel_with_observer on an attempt that is not decided.
Cancel ==
  /\ record = "none" /\ ~cancel /\ cancel' = TRUE
  /\ UNCHANGED <<journal, sealed, row, git, ends, locks, proc, writer, stopped, faults, pc, loc, imports>>

\* Somebody commits in the private worktree, or moves the shared branch.
MoveTip ==
  /\ tip < Tips /\ tip' = tip + 1
  /\ UNCHANGED <<journal, sealed, row, imported, branch, published, ends, locks, proc, env, pc, loc, imports>>
MoveBranch ==
  /\ branch \in Heads \cup {Base}
  /\ branch' = IF branch = Base THEN Other ELSE Ahead
  /\ UNCHANGED <<journal, sealed, row, tip, imported, published, ends, locks, proc, env, pc, loc, imports>>

Step(a) ==
  \/ Start(a) \/ ClaimRefused(a) \/ ClaimGranted(a) \/ Pin(a) \/ Charge(a)
  \/ Import(a) \/ CancelCheck(a) \/ Publish(a) \/ Published(a) \/ Verify(a)
  \/ TerminalFails(a) \/ DecideFirst(a) \/ SealRefusal(a) \/ Effects(a)
  \/ Advance(a) \/ Intent(a) \/ Commit(a) \/ Receipt(a) \/ Drive(a)
  \/ Reclaim(a) \/ DecideRetry(a) \/ Refuse(a) \/ Refused(a)
  \/ PublishRelease(a) \/ Complete(a) \/ ClearFence(a)

Next ==
  \/ Try \/ GiveUp \/ PassLive \/ PassTerminal
  \/ \E a \in Drivers : Step(a)
  \/ Abandon \/ AbandonRelease
  \/ \E a \in Actors : Crash(a)
  \/ \E a \in Actors : StepFails(a)
  \/ Deadline \/ Cancel \/ MoveTip \/ MoveBranch

Spec == Init /\ [][Next]_vars

\* A live driver goes on, retry deadlines pass, the guardian works through its
\* schedule and ends, and people ask for reconcile again and again.
FairSpec ==
  /\ Spec
  /\ \A a \in Drivers : WF_vars(Step(a))
  /\ WF_vars(Try) /\ WF_vars(GiveUp) /\ WF_vars(AbandonRelease) /\ SF_vars(Deadline)
  /\ SF_vars(PassLive) /\ SF_vars(PassTerminal)

(***************************************************************************)
(* Properties.                                                             *)
(***************************************************************************)
\* What reaches the shared branch is the head the journal pinned, with its
\* graph received, however often the private tip moved and whoever published.
PublishedIsPinned == published \subseteq ({pinned} \cap imported)

\* No more than Limit drivers reach the object import, whatever dies or fails
\* between the charge and the next claim (settlement.rs begin_import); the
\* journal's own count stays within its bounds (TypeOK).
ImportsBounded == TypeOK /\ imports <= Limit

\* A writer that is recorded as succeeded has its head on the branch: neither
\* an import that was cancelled or refused before publication, nor a journal
\* advanced past publication by such a decision, ever becomes a success.
SuccessIsPublished == writer /\ record = "succeeded" => pinned \in published

\* The row holds the decision that was sealed, and neither changes once it
\* exists, though a pass and the guardian may both be deciding; after a refusal
\* was sealed or the settlement abandoned no import starts and nothing is
\* published.
DecisionStands ==
  [][/\ intent # "none" => intent' = intent
     /\ record # "none" => record' = record
     /\ record' # "none" => record' = intent'
     /\ refusal # "none" \/ abandoned => imports' = imports /\ published' = published]_vars

\* The fence goes only with a decision whose import is done or refused for
\* good, or with an abandonment: never while an import could still be retried.
ReleasedIsSettled ==
  ~fence => abandoned \/ (record # "none" /\ (receipt # "retry" \/ refusal # "none"))

\* Every exit is settled: the fence goes, or the chair gave the attempt up.
ExitSettles == <>(~fence \/ abandoned)
=============================================================================
