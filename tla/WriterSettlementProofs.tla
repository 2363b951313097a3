------------------------ MODULE WriterSettlementProofs ------------------------
(***************************************************************************)
(* Proofs about WriterSettlement, for any limit, schedule and number of    *)
(* tips, crashes and failed steps.                                         *)
(*                                                                         *)
(* The argument rests on the writer lock: whoever is at work on a writer   *)
(* holds it, so the journal, the receipts and the decision only move under *)
(* one driver, and where that driver stands tells what is already durable. *)
(* A reader is decided without the lock; its receipt never is a retry.     *)
(***************************************************************************)
EXTENDS WriterSettlement, TLAPS

Steps == {"idle", "start", "claim", "pin", "charge", "importing", "cancelcheck",
          "publish", "published", "verify", "decide", "seal", "effects", "advance",
          "intent", "commit", "receipt", "drive", "reclaim", "refuse", "refused",
          "settle", "settled", "clear"}
Locals == [mode : {"first", "retry", "final"},
           res : {"ok", "error", "precondition", "limit", "failed"},
           out : Outcomes, lost : BOOLEAN]

Importing == {"pin", "charge", "importing", "cancelcheck", "publish", "published", "verify"}
Deciding  == {"claim", "seal", "effects", "advance", "intent"}
Decided   == {"receipt", "drive", "reclaim", "refuse", "refused", "settle", "settled", "clear"}

\* A reader has no import: nothing of it can be retried, refused or abandoned.
ReaderInv ==
  ~writer =>
    /\ effects \in {"none", "done"} /\ receipt \in {"none", "done"}
    /\ refusal = "none" /\ ~abandoned /\ imports = 0 /\ published = {}
    /\ pc["chair"] = "idle"
    /\ \A a \in Actors : /\ loc[a].lost = FALSE /\ loc[a].mode = "first"
                         /\ pc[a] \notin Importing \cup {"decide", "seal", "reclaim",
                                                         "refuse", "refused"}

\* Whoever works on a writer holds its lock, and so does a live guardian.
HolderInv ==
  /\ guardian => holder = "guardian"
  /\ pc["guardian"] # "idle" => guardian
  /\ pc["chair"] \in {"idle", "clear"}
  /\ pc["chair"] = "clear" => abandoned /\ holder = "chair"
  /\ \A a \in Actors : /\ writer /\ pc[a] # "idle" => holder = a
                       /\ pc[a] \in {"settled", "clear"} => holder = a

\* The row is the sealed decision; what follows the decision has a row.
DecidedInv ==
  /\ record # "none" => record = intent
  /\ abandoned => record # "none"
  /\ \A a \in Drivers : /\ pc[a] \in Decided => record # "none"
                        /\ pc[a] = "commit" => intent # "none"
                        /\ pc[a] = "idle" => loc[a].mode = "first"
                        /\ pc[a] = "seal" => loc[a].res \in {"precondition", "limit", "failed"}
                        /\ pc[a] = "start" => loc[a].mode = "first" \/ record # "none"
                        /\ pc[a] \in Deciding => loc[a].mode = "first"
                        /\ pc[a] \in Importing \cup {"decide"} => loc[a].mode \in {"first", "retry"}

\* A first decision on a writer is taken before anything is sealed, a retried
\* import while its receipt still allows it.
ModeInv ==
  writer => \A a \in Drivers :
    pc[a] \in Importing \cup Deciding \cup {"decide"} =>
      /\ loc[a].mode = "first" => record = "none" /\ intent = "none"
      /\ loc[a].mode = "retry" => record # "none" /\ receipt = "retry"
                                  /\ refusal = "none" /\ ~abandoned

\* An import is under way only without a refusal and before the limit.
ImportInv ==
  /\ imports = attempts
  /\ \A a \in Drivers :
       /\ pc[a] \in Importing => refusal = "none" /\ ~abandoned
       /\ pc[a] = "pin" /\ phase = "import" => attempts < Limit
       /\ pc[a] = "charge" => attempts < Limit
       /\ pc[a] \in Importing \ {"pin"} => pinned # 0
       /\ pc[a] = "cancelcheck" => phase # "import"
       /\ pc[a] = "publish" => phase = "publish"
       /\ pc[a] = "published" => pinned \in published

\* What was published was pinned and received, a success was published.
PinInv ==
  /\ published \subseteq ({pinned} \cap imported)
  /\ phase = "publish" => pinned # 0 /\ pinned \in imported
  /\ writer => /\ "succeeded" \in {intent, record} => pinned \in published
               /\ \A a \in Drivers :
                    /\ loc[a].out = "succeeded" => pinned \in published
                    /\ loc[a].mode = "first" /\ (pc[a] = "verify" \/
                         (pc[a] = "decide" /\ loc[a].res = "ok")) => pinned \in published

Excused == pinned \in published \/ cancel \/ refusal # "none"

\* A journal past publication without one belongs to a cancelled or refused
\* attempt.
PastInv ==
  /\ stopped => cancel
  /\ writer => /\ record = "none" /\ intent = "none" /\ phase \notin {"import", "publish"} => Excused
               /\ \A a \in Drivers : pc[a] \in {"effects", "advance"} /\ ~loc[a].lost => Excused

\* Custody goes only once it may.
ClearInv ==
  /\ \A a \in Drivers : /\ pc[a] \in {"settle", "settled", "clear"} => Permitted
                        /\ pc[a] = "reclaim" => ~Permitted
  /\ ~fence => record # "none" /\ Permitted

IInv ==
  /\ TypeOK
  /\ ReaderInv
  /\ HolderInv
  /\ DecidedInv
  /\ ModeInv
  /\ ImportInv
  /\ PinInv
  /\ PastInv
  /\ ClearInv

-----------------------------------------------------------------------------
LEMMA PhaseSet ==
  {Phases[i] : i \in 1..5} = {"import", "publish", "record", "release", "complete"}
BY DEF Phases

\* Later moves the journal forward only.
LEMMA LaterIs ==
  ASSUME NEW p \in {"import", "publish", "record", "release", "complete"},
         NEW q \in {"publish", "record", "release"}
  PROVE  /\ Later(p, q) \in {p, q}
         /\ Later(p, q) # "import"
         /\ q = "publish" /\ p \in {"import", "publish"} => Later(p, q) = "publish"
         /\ q # "publish" => Later(p, q) # "publish"
<1>1. /\ Rank("import") = 1 /\ Rank("publish") = 2 /\ Rank("record") = 3
      /\ Rank("release") = 4 /\ Rank("complete") = 5
  BY DEF Rank, Phases
<1> QED
  BY <1>1 DEF Later

-----------------------------------------------------------------------------
LEMMA BlankTyped == Blank \in Locals
BY DEF Blank, Locals, Outcomes

LEMMA InitIInv ==
  ASSUME Init
  PROVE  IInv
<1> USE SettlementAssumption DEF Init, Blank
<1>1. TypeOK
  <2>1. /\ pc \in [Actors -> Steps] /\ loc \in [Actors -> Locals]
        /\ cancel \in BOOLEAN
    BY BlankTyped DEF Steps
  <2>2. /\ 0 \in 0..Limit /\ 1 \in Heads /\ Tries \in 0..Tries /\ 0 \in 0..Faults
    BY DEF Heads
  <2> QED
    BY <2>1, <2>2, PhaseSet DEF TypeOK, Base, Actors, Drivers, Steps, Locals
<1>2. ReaderInv /\ HolderInv /\ DecidedInv /\ ModeInv
  BY DEF ReaderInv, HolderInv, DecidedInv, ModeInv, Actors, Drivers, Importing,
     Deciding, Decided
<1>3. ImportInv /\ PinInv /\ PastInv /\ ClearInv
  BY DEF ImportInv, PinInv, PastInv, ClearInv, Excused, Permitted, Actors, Drivers,
     Importing
<1> QED
  BY <1>1, <1>2, <1>3 DEF IInv

LEMMA TryIInv ==
  ASSUME IInv, Try
  PROVE  IInv'
<1> USE SettlementAssumption, PhaseSet DEF IInv, Try, Go, journal, sealed, row, git,
   ends, locks, env, Drivers, Actors
<1>1. TypeOK'
  BY PhaseSet DEF TypeOK
<1>2. ReaderInv'
  BY DEF ReaderInv, TypeOK, Importing
<1>3. HolderInv'
  BY <1>1 DEF HolderInv, TypeOK, Outcomes, ReaderInv
<1>4. DecidedInv'
  BY DEF DecidedInv, TypeOK, Importing, Deciding, Decided
<1>5. ModeInv'
  BY DEF ModeInv, TypeOK, Importing, Deciding
<1>6. ImportInv'
  BY DEF ImportInv, TypeOK, Importing
<1>7. PinInv'
  BY DEF PinInv, TypeOK
<1>8. PastInv'
  BY DEF PastInv, TypeOK, Excused
<1>9. ClearInv'
  BY DEF ClearInv, TypeOK, Permitted
<1> QED
  BY <1>1, <1>2, <1>3, <1>4, <1>5, <1>6, <1>7, <1>8, <1>9

LEMMA GiveUpIInv ==
  ASSUME IInv, GiveUp
  PROVE  IInv'
<1> USE SettlementAssumption, PhaseSet DEF IInv, GiveUp, journal, sealed, row, git,
   ends, env, Drivers, Actors
<1>1. TypeOK'
  <2>1. /\ due' \in BOOLEAN /\ fence' \in BOOLEAN /\ released' \in BOOLEAN
        /\ abandoned' \in BOOLEAN /\ guardian' \in BOOLEAN
    BY DEF TypeOK
  <2>2. pc' \in [Actors -> Steps]
    BY DEF TypeOK, Steps
  <2>3. loc' \in [Actors -> Locals]
    BY DEF TypeOK, Locals, Outcomes
  <2>4. /\ phase' \in {Phases[i] : i \in 1..5}
        /\ effects' \in {"none", "done", "retry", "refused"}
        /\ receipt' \in {"none", "done", "retry", "refused"}
        /\ intent' \in Outcomes \cup {"none"} /\ record' \in Outcomes \cup {"none"}
        /\ refusal' \in {"none", "failed", "limit", "precondition", "final"}
        /\ holder' \in Actors \cup {"none"} /\ lease' \in Actors \cup {"none"}
    BY PhaseSet DEF TypeOK
  <2> QED
    BY <2>1, <2>2, <2>3, <2>4 DEF TypeOK, Steps, Locals
<1>2. ReaderInv'
  BY DEF ReaderInv, TypeOK, Importing
<1>3. HolderInv'
  BY <1>1 DEF HolderInv, TypeOK, Outcomes, ReaderInv
<1>4. DecidedInv'
  BY DEF DecidedInv, TypeOK, Importing, Deciding, Decided
<1>5. ModeInv'
  BY DEF ModeInv, TypeOK, Importing, Deciding
<1>6. ImportInv'
  BY DEF ImportInv, TypeOK, Importing
<1>7. PinInv'
  BY DEF PinInv, TypeOK
<1>8. PastInv'
  BY DEF PastInv, TypeOK, Excused
<1>9. ClearInv'
  BY DEF ClearInv, TypeOK, Permitted
<1> QED
  BY <1>1, <1>2, <1>3, <1>4, <1>5, <1>6, <1>7, <1>8, <1>9

LEMMA PassLiveIInv ==
  ASSUME IInv, PassLive
  PROVE  IInv'
<1> USE SettlementAssumption, PhaseSet DEF IInv, PassLive, Go, journal, sealed, row,
   git, ends, proc, env, Drivers, Actors
<1>1. TypeOK'
  BY PhaseSet DEF TypeOK
<1>2. ReaderInv'
  BY DEF ReaderInv, TypeOK, Importing
<1>3. HolderInv'
  BY <1>1 DEF HolderInv, TypeOK, Outcomes, ReaderInv
<1>4. DecidedInv'
  BY DEF DecidedInv, TypeOK, Importing, Deciding, Decided
<1>5. ModeInv'
  BY DEF ModeInv, TypeOK, Importing, Deciding
<1>6. ImportInv'
  BY DEF ImportInv, TypeOK, Importing
<1>7. PinInv'
  BY DEF PinInv, TypeOK
<1>8. PastInv'
  BY DEF PastInv, TypeOK, Excused
<1>9. ClearInv'
  BY DEF ClearInv, TypeOK, Permitted
<1> QED
  BY <1>1, <1>2, <1>3, <1>4, <1>5, <1>6, <1>7, <1>8, <1>9

LEMMA PassTerminalIInv ==
  ASSUME IInv, PassTerminal
  PROVE  IInv'
<1> USE SettlementAssumption, PhaseSet DEF IInv, PassTerminal, FailedImport, Go,
   Note, journal, sealed, row, git, ends, proc, env, Drivers, Actors
<1>1. TypeOK'
  BY PhaseSet DEF TypeOK
<1>2. ReaderInv'
  BY DEF ReaderInv, TypeOK, Importing
<1>3. HolderInv'
  BY <1>1 DEF HolderInv, TypeOK, Outcomes, ReaderInv
<1>4. DecidedInv'
  BY DEF DecidedInv, TypeOK, Importing, Deciding, Decided
<1>5. ModeInv'
  BY DEF ModeInv, TypeOK, Importing, Deciding
<1>6. ImportInv'
  BY DEF ImportInv, TypeOK, Importing
<1>7. PinInv'
  BY DEF PinInv, TypeOK
<1>8. PastInv'
  BY DEF PastInv, TypeOK, Excused
<1>9. ClearInv'
  BY DEF ClearInv, TypeOK, Permitted
<1> QED
  BY <1>1, <1>2, <1>3, <1>4, <1>5, <1>6, <1>7, <1>8, <1>9

LEMMA StartIInv ==
  ASSUME IInv, NEW a \in Drivers, Start(a)
  PROVE  IInv'
<1> USE SettlementAssumption, PhaseSet DEF IInv, Start, Go, journal, sealed, row,
   git, ends, locks, proc, env, Drivers, Actors
<1>1. TypeOK'
  BY PhaseSet DEF TypeOK
<1>2. ReaderInv'
  BY DEF ReaderInv, TypeOK, Importing
<1>3. HolderInv'
  BY <1>1 DEF HolderInv, TypeOK, Outcomes, ReaderInv
<1>4. DecidedInv'
  BY DEF DecidedInv, TypeOK, Importing, Deciding, Decided
<1>5. ModeInv'
  BY <1>1 DEF ModeInv, TypeOK, Importing, Deciding, HolderInv, DecidedInv
<1>6. ImportInv'
  BY DEF ImportInv, TypeOK, Importing
<1>7. PinInv'
  BY DEF PinInv, TypeOK
<1>8. PastInv'
  BY DEF PastInv, TypeOK, Excused
<1>9. ClearInv'
  BY <1>1 DEF ClearInv, TypeOK, Permitted, HolderInv, DecidedInv, Decided
<1> QED
  BY <1>1, <1>2, <1>3, <1>4, <1>5, <1>6, <1>7, <1>8, <1>9

LEMMA ClaimRefusedIInv ==
  ASSUME IInv, NEW a \in Drivers, ClaimRefused(a)
  PROVE  IInv'
<1> USE SettlementAssumption, PhaseSet DEF IInv, ClaimRefused, Leave, Drop, Go,
   Blank, journal, sealed, row, git, ends, proc, env, Drivers, Actors
<1>1. TypeOK'
  BY PhaseSet DEF TypeOK, Outcomes
<1>2. ReaderInv'
  BY DEF ReaderInv, TypeOK, Importing
<1>3. HolderInv'
  BY <1>1 DEF HolderInv, TypeOK, Outcomes, ReaderInv
<1>4. DecidedInv'
  BY DEF DecidedInv, TypeOK, Importing, Deciding, Decided
<1>5. ModeInv'
  BY DEF ModeInv, TypeOK, Importing, Deciding
<1>6. ImportInv'
  BY DEF ImportInv, TypeOK, Importing
<1>7. PinInv'
  BY DEF PinInv, TypeOK
<1>8. PastInv'
  BY DEF PastInv, TypeOK, Excused
<1>9. ClearInv'
  BY DEF ClearInv, TypeOK, Permitted
<1> QED
  BY <1>1, <1>2, <1>3, <1>4, <1>5, <1>6, <1>7, <1>8, <1>9

LEMMA ClaimGrantedIInv ==
  ASSUME IInv, NEW a \in Drivers, ClaimGranted(a)
  PROVE  IInv'
<1> USE SettlementAssumption, PhaseSet DEF IInv, ClaimGranted, Busy, Exhausted, Go,
   Note, Decoded, RefusedOutcome, journal, sealed, row, git, ends, proc, env, Drivers,
   Actors
<1>1. TypeOK'
  <2>1. /\ due' \in BOOLEAN /\ fence' \in BOOLEAN /\ released' \in BOOLEAN
        /\ abandoned' \in BOOLEAN /\ guardian' \in BOOLEAN
    BY DEF TypeOK
  <2>2. pc' \in [Actors -> Steps]
    BY DEF TypeOK, Steps
  <2>3. loc' \in [Actors -> Locals]
    BY DEF TypeOK, Locals, Outcomes
  <2>4. /\ phase' \in {Phases[i] : i \in 1..5}
        /\ effects' \in {"none", "done", "retry", "refused"}
        /\ receipt' \in {"none", "done", "retry", "refused"}
        /\ intent' \in Outcomes \cup {"none"} /\ record' \in Outcomes \cup {"none"}
        /\ refusal' \in {"none", "failed", "limit", "precondition", "final"}
        /\ holder' \in Actors \cup {"none"} /\ lease' \in Actors \cup {"none"}
    BY PhaseSet DEF TypeOK
  <2> QED
    BY <2>1, <2>2, <2>3, <2>4 DEF TypeOK, Steps, Locals
<1>2. ReaderInv'
  BY DEF ReaderInv, TypeOK, Importing
<1>3. HolderInv'
  BY <1>1 DEF HolderInv, TypeOK, Outcomes, ReaderInv
<1>4. DecidedInv'
  BY DEF DecidedInv, TypeOK, Importing, Deciding, Decided
<1>5. ModeInv'
  BY DEF ModeInv, TypeOK, Importing, Deciding
<1>6. ImportInv'
  <2> SUFFICES ASSUME NEW d \in Drivers
               PROVE  ImportInv!2!(d)'
    BY DEF ImportInv
  <2>1. /\ UNCHANGED <<imports, attempts, refusal, abandoned, phase, pinned, published>>
        /\ d # a => pc'[d] = pc[d]
    BY DEF TypeOK
  <2>2. CASE d # a
    BY <2>1, <2>2 DEF ImportInv
  <2>3. CASE d = a
    <3>1. pc'[a] \in {"effects", "decide"} \/ (writer /\ pc'[a] = "pin" /\ refusal = "none" /\ ~Exhausted)
      BY DEF TypeOK
    <3>2. writer => record = "none" /\ ~abandoned
      BY DEF ModeInv, DecidedInv, Deciding
    <3>3. ~Exhausted /\ phase = "import" => attempts < Limit
      BY DEF TypeOK
    <3> QED
      BY <2>1, <2>3, <3>1, <3>2, <3>3 DEF Importing
  <2> QED
    BY <2>2, <2>3
<1>7. PinInv'
  BY DEF PinInv, TypeOK
<1>8. PastInv'
  BY DEF PastInv, TypeOK, Excused
<1>9. ClearInv'
  BY DEF ClearInv, TypeOK, Permitted
<1> QED
  BY <1>1, <1>2, <1>3, <1>4, <1>5, <1>6, <1>7, <1>8, <1>9

LEMMA PinIInv ==
  ASSUME IInv, NEW a \in Drivers, Pin(a)
  PROVE  IInv'
<1> USE SettlementAssumption, PhaseSet DEF IInv, Pin, Go, sealed, row, git, ends,
   locks, proc, env, Drivers, Actors
<1>1. TypeOK'
  BY PhaseSet DEF TypeOK, Heads
<1>2. ReaderInv'
  BY DEF ReaderInv, TypeOK, Importing
<1>3. HolderInv'
  BY <1>1 DEF HolderInv, TypeOK, Outcomes, ReaderInv
<1>4. DecidedInv'
  BY DEF DecidedInv, TypeOK, Importing, Deciding, Decided
<1>5. ModeInv'
  BY DEF ModeInv, TypeOK, Importing, Deciding
<1>6. ImportInv'
  BY <1>1 DEF ImportInv, TypeOK, Outcomes, Heads, ReaderInv, HolderInv, DecidedInv,
     ModeInv, Importing, Permitted, PinInv
<1>7. PinInv'
  BY <1>1 DEF PinInv, TypeOK, HolderInv, ImportInv, Importing, Heads
<1>8. PastInv'
  BY <1>1 DEF PastInv, TypeOK, Outcomes, Heads, ReaderInv, HolderInv, DecidedInv,
     ModeInv, ImportInv, PinInv, Excused, Importing, Deciding, Decided
<1>9. ClearInv'
  BY DEF ClearInv, TypeOK, Permitted
<1> QED
  BY <1>1, <1>2, <1>3, <1>4, <1>5, <1>6, <1>7, <1>8, <1>9

LEMMA ChargeIInv ==
  ASSUME IInv, NEW a \in Drivers, Charge(a)
  PROVE  IInv'
<1> USE SettlementAssumption, PhaseSet DEF IInv, Charge, Go, sealed, row, git, ends,
   locks, proc, env, Drivers, Actors
<1>1. TypeOK'
  BY PhaseSet DEF TypeOK, ImportInv
<1>2. ReaderInv'
  BY DEF ReaderInv, TypeOK, Importing
<1>3. HolderInv'
  BY <1>1 DEF HolderInv, TypeOK, Outcomes, ReaderInv
<1>4. DecidedInv'
  BY DEF DecidedInv, TypeOK, Importing, Deciding, Decided
<1>5. ModeInv'
  BY DEF ModeInv, TypeOK, Importing, Deciding
<1>6. ImportInv'
  BY <1>1 DEF ImportInv, TypeOK, Outcomes, Heads, ReaderInv, HolderInv, DecidedInv,
     ModeInv, Importing, Permitted, PinInv
<1>7. PinInv'
  BY DEF PinInv, TypeOK
<1>8. PastInv'
  BY DEF PastInv, TypeOK, Excused
<1>9. ClearInv'
  BY DEF ClearInv, TypeOK, Permitted
<1> QED
  BY <1>1, <1>2, <1>3, <1>4, <1>5, <1>6, <1>7, <1>8, <1>9

LEMMA ImportIInv ==
  ASSUME IInv, NEW a \in Drivers, Import(a)
  PROVE  IInv'
<1> USE SettlementAssumption, PhaseSet DEF IInv, Import, Go, sealed, row, ends,
   locks, proc, env, Drivers, Actors
<1>1. TypeOK'
  BY LaterIs, PhaseSet DEF TypeOK, Heads, ImportInv, Importing
<1>2. ReaderInv'
  BY LaterIs DEF ReaderInv, TypeOK, Importing
<1>3. HolderInv'
  BY LaterIs, <1>1 DEF HolderInv, TypeOK, Outcomes, ReaderInv
<1>4. DecidedInv'
  BY LaterIs DEF DecidedInv, TypeOK, Importing, Deciding, Decided
<1>5. ModeInv'
  BY LaterIs DEF ModeInv, TypeOK, Importing, Deciding
<1>6. ImportInv'
  BY LaterIs DEF ImportInv, TypeOK, Importing
<1>7. PinInv'
  BY LaterIs, <1>1 DEF PinInv, TypeOK, HolderInv, ImportInv, Importing, Heads
<1>8. PastInv'
  BY LaterIs DEF PastInv, TypeOK, Excused
<1>9. ClearInv'
  BY LaterIs DEF ClearInv, TypeOK, Permitted
<1> QED
  BY <1>1, <1>2, <1>3, <1>4, <1>5, <1>6, <1>7, <1>8, <1>9

LEMMA CancelCheckIInv ==
  ASSUME IInv, NEW a \in Drivers, CancelCheck(a)
  PROVE  IInv'
<1> USE SettlementAssumption, PhaseSet DEF IInv, CancelCheck, Go, Note, journal,
   sealed, row, git, ends, locks, proc, env, Drivers, Actors
<1>1. TypeOK'
  BY PhaseSet DEF TypeOK
<1>2. ReaderInv'
  BY DEF ReaderInv, TypeOK, Importing
<1>3. HolderInv'
  BY <1>1 DEF HolderInv, TypeOK, Outcomes, ReaderInv
<1>4. DecidedInv'
  BY DEF DecidedInv, TypeOK, Importing, Deciding, Decided
<1>5. ModeInv'
  BY DEF ModeInv, TypeOK, Importing, Deciding
<1>6. ImportInv'
  BY DEF ImportInv, TypeOK, Importing
<1>7. PinInv'
  BY <1>1 DEF PinInv, TypeOK, Outcomes, Heads, ReaderInv, HolderInv, DecidedInv,
     ModeInv, ImportInv, PastInv, Excused, Importing
<1>8. PastInv'
  BY DEF PastInv, TypeOK, Excused
<1>9. ClearInv'
  BY DEF ClearInv, TypeOK, Permitted
<1> QED
  BY <1>1, <1>2, <1>3, <1>4, <1>5, <1>6, <1>7, <1>8, <1>9

LEMMA PublishIInv ==
  ASSUME IInv, NEW a \in Drivers, Publish(a)
  PROVE  IInv'
<1> USE SettlementAssumption, PhaseSet DEF IInv, Publish, Go, journal, sealed, row,
   ends, locks, proc, env, Drivers, Actors
<1>1. TypeOK'
  <2>1. pinned \in Heads /\ Heads \subseteq Nat
    BY DEF TypeOK, ImportInv, Importing, Heads
  <2>2. published' \subseteq Heads /\ branch' \in Heads \cup {Base, Ahead, Other}
    BY <2>1 DEF TypeOK
  <2>3. pc' \in [Actors -> Steps]
    BY DEF TypeOK, Steps
  <2> QED
    BY <2>2, <2>3 DEF TypeOK, Steps
<1>2. ReaderInv'
  BY DEF ReaderInv, TypeOK, Importing
<1>3. HolderInv'
  BY <1>1 DEF HolderInv, TypeOK, Outcomes, ReaderInv
<1>4. DecidedInv'
  BY DEF DecidedInv, TypeOK, Importing, Deciding, Decided
<1>5. ModeInv'
  BY DEF ModeInv, TypeOK, Importing, Deciding
<1>6. ImportInv'
  BY DEF ImportInv, TypeOK, Importing
<1>7. PinInv'
  BY <1>1 DEF PinInv, TypeOK, HolderInv, ImportInv, Importing, Heads
<1>8. PastInv'
  BY DEF PastInv, TypeOK, Excused
<1>9. ClearInv'
  BY DEF ClearInv, TypeOK, Permitted
<1> QED
  BY <1>1, <1>2, <1>3, <1>4, <1>5, <1>6, <1>7, <1>8, <1>9

LEMMA PublishedIInv ==
  ASSUME IInv, NEW a \in Drivers, Published(a)
  PROVE  IInv'
<1> USE SettlementAssumption, PhaseSet DEF IInv, Published, Go, sealed, row, git,
   ends, locks, proc, env, Drivers, Actors
<1>1. TypeOK'
  BY LaterIs, PhaseSet DEF TypeOK
<1>2. ReaderInv'
  BY LaterIs DEF ReaderInv, TypeOK, Importing
<1>3. HolderInv'
  BY LaterIs, <1>1 DEF HolderInv, TypeOK, Outcomes, ReaderInv
<1>4. DecidedInv'
  BY LaterIs DEF DecidedInv, TypeOK, Importing, Deciding, Decided
<1>5. ModeInv'
  BY LaterIs DEF ModeInv, TypeOK, Importing, Deciding
<1>6. ImportInv'
  BY LaterIs, <1>1 DEF ImportInv, TypeOK, Outcomes, Heads, ReaderInv, HolderInv,
     DecidedInv, ModeInv, Importing, Permitted, PinInv
<1>7. PinInv'
  BY LaterIs, <1>1 DEF PinInv, TypeOK, HolderInv, ImportInv, Importing, Heads
<1>8. PastInv'
  BY LaterIs, <1>1 DEF PastInv, TypeOK, Outcomes, Heads, ReaderInv, HolderInv,
     DecidedInv, ModeInv, ImportInv, PinInv, Excused, Importing, Deciding, Decided
<1>9. ClearInv'
  BY LaterIs DEF ClearInv, TypeOK, Permitted
<1> QED
  BY <1>1, <1>2, <1>3, <1>4, <1>5, <1>6, <1>7, <1>8, <1>9

LEMMA VerifyIInv ==
  ASSUME IInv, NEW a \in Drivers, Verify(a)
  PROVE  IInv'
<1> USE SettlementAssumption, PhaseSet DEF IInv, Verify, Go, Note, journal, sealed,
   row, git, ends, locks, proc, env, Drivers, Actors
<1>1. TypeOK'
  BY PhaseSet DEF TypeOK
<1>2. ReaderInv'
  BY DEF ReaderInv, TypeOK, Importing
<1>3. HolderInv'
  BY <1>1 DEF HolderInv, TypeOK, Outcomes, ReaderInv
<1>4. DecidedInv'
  BY DEF DecidedInv, TypeOK, Importing, Deciding, Decided
<1>5. ModeInv'
  BY DEF ModeInv, TypeOK, Importing, Deciding
<1>6. ImportInv'
  BY DEF ImportInv, TypeOK, Importing
<1>7. PinInv'
  BY DEF PinInv, TypeOK
<1>8. PastInv'
  BY DEF PastInv, TypeOK, Excused
<1>9. ClearInv'
  BY DEF ClearInv, TypeOK, Permitted
<1> QED
  BY <1>1, <1>2, <1>3, <1>4, <1>5, <1>6, <1>7, <1>8, <1>9

LEMMA TerminalFailsIInv ==
  ASSUME IInv, NEW a \in Drivers, TerminalFails(a)
  PROVE  IInv'
<1> USE SettlementAssumption, PhaseSet DEF IInv, TerminalFails, Go, Note, journal,
   sealed, row, git, ends, locks, proc, env, Drivers, Actors
<1>1. TypeOK'
  BY PhaseSet DEF TypeOK
<1>2. ReaderInv'
  BY DEF ReaderInv, TypeOK, Importing
<1>3. HolderInv'
  BY <1>1 DEF HolderInv, TypeOK, Outcomes, ReaderInv
<1>4. DecidedInv'
  BY DEF DecidedInv, TypeOK, Importing, Deciding, Decided
<1>5. ModeInv'
  BY DEF ModeInv, TypeOK, Importing, Deciding
<1>6. ImportInv'
  BY DEF ImportInv, TypeOK, Importing
<1>7. PinInv'
  BY DEF PinInv, TypeOK
<1>8. PastInv'
  BY DEF PastInv, TypeOK, Excused
<1>9. ClearInv'
  BY DEF ClearInv, TypeOK, Permitted
<1> QED
  BY <1>1, <1>2, <1>3, <1>4, <1>5, <1>6, <1>7, <1>8, <1>9

LEMMA DecideFirstIInv ==
  ASSUME IInv, NEW a \in Drivers, DecideFirst(a)
  PROVE  IInv'
<1> USE SettlementAssumption, PhaseSet DEF IInv, DecideFirst, Decoded, Go, Note,
   journal, sealed, row, git, ends, locks, proc, env, Drivers, Actors
<1>1. TypeOK'
  <2>1. /\ due' \in BOOLEAN /\ fence' \in BOOLEAN /\ released' \in BOOLEAN
        /\ abandoned' \in BOOLEAN /\ guardian' \in BOOLEAN
    BY DEF TypeOK
  <2>2. pc' \in [Actors -> Steps]
    BY DEF TypeOK, Steps
  <2>3. loc' \in [Actors -> Locals]
    <3>1. loc \in [Actors -> Locals]
      BY DEF TypeOK, Locals
    <3>2. \/ loc' = loc \/ loc' = [loc EXCEPT ![a].lost = TRUE]
          \/ loc' = [loc EXCEPT ![a].res = "failed"]
          \/ \E o \in Outcomes : loc' = [loc EXCEPT ![a].out = o]
      BY DEF Outcomes
    <3> HIDE DEF DecideFirst, IInv
    <3>3. CASE loc' = [loc EXCEPT ![a].lost = TRUE]
      <4>1. [loc[a] EXCEPT !.lost = TRUE] \in Locals
        BY <3>1 DEF Locals
      <4> QED
        BY <3>1, <3>3, <4>1
    <3>4. CASE loc' = [loc EXCEPT ![a].res = "failed"]
      BY <3>1, <3>4 DEF Locals
    <3>5. ASSUME NEW o \in Outcomes, loc' = [loc EXCEPT ![a].out = o]
          PROVE  loc' \in [Actors -> Locals]
      BY <3>1, <3>5 DEF Locals
    <3> QED
      BY <3>1, <3>2, <3>3, <3>4, <3>5
  <2>4. /\ phase' \in {Phases[i] : i \in 1..5}
        /\ effects' \in {"none", "done", "retry", "refused"}
        /\ receipt' \in {"none", "done", "retry", "refused"}
        /\ intent' \in Outcomes \cup {"none"} /\ record' \in Outcomes \cup {"none"}
        /\ refusal' \in {"none", "failed", "limit", "precondition", "final"}
        /\ holder' \in Actors \cup {"none"} /\ lease' \in Actors \cup {"none"}
    BY PhaseSet DEF TypeOK
  <2> QED
    BY <2>1, <2>2, <2>3, <2>4 DEF TypeOK, Steps, Locals
<1>2. ReaderInv'
  BY DEF ReaderInv, TypeOK, Importing
<1>3. HolderInv'
  BY <1>1 DEF HolderInv, TypeOK, Outcomes, ReaderInv
<1>4. DecidedInv'
  BY DEF DecidedInv, TypeOK, Importing, Deciding, Decided
<1>5. ModeInv'
  BY DEF ModeInv, TypeOK, Importing, Deciding
<1>6. ImportInv'
  BY DEF ImportInv, TypeOK, Importing
<1>7. PinInv'
  BY DEF PinInv, TypeOK
<1>8. PastInv'
  BY <1>1 DEF PastInv, TypeOK, Excused, HolderInv, DecidedInv, ModeInv, PinInv, Deciding
<1>9. ClearInv'
  BY DEF ClearInv, TypeOK, Permitted
<1> QED
  BY <1>1, <1>2, <1>3, <1>4, <1>5, <1>6, <1>7, <1>8, <1>9

LEMMA SealRefusalIInv ==
  ASSUME IInv, NEW a \in Drivers, SealRefusal(a)
  PROVE  IInv'
<1> USE SettlementAssumption, PhaseSet DEF IInv, SealRefusal, Leave, Drop, Go,
   Blank, journal, row, git, ends, locks, proc, env, Drivers, Actors
<1>1. TypeOK'
  <2>1. /\ due' \in BOOLEAN /\ fence' \in BOOLEAN /\ released' \in BOOLEAN
        /\ abandoned' \in BOOLEAN /\ guardian' \in BOOLEAN
    BY DEF TypeOK
  <2>2. pc' \in [Actors -> Steps]
    BY DEF TypeOK, Steps
  <2>3. loc' \in [Actors -> Locals]
    <3> HIDE DEF Blank
    <3>1. loc' = loc \/ loc' = [loc EXCEPT ![a] = Blank]
      OBVIOUS
    <3> HIDE DEF IInv
    <3>2. loc \in [Actors -> Locals]
      BY DEF IInv, TypeOK, Locals
    <3> QED
      BY <3>1, <3>2, BlankTyped
  <2>4. /\ phase' \in {Phases[i] : i \in 1..5}
        /\ effects' \in {"none", "done", "retry", "refused"}
        /\ receipt' \in {"none", "done", "retry", "refused"}
        /\ intent' \in Outcomes \cup {"none"} /\ record' \in Outcomes \cup {"none"}
        /\ refusal' \in {"none", "failed", "limit", "precondition", "final"}
        /\ holder' \in Actors \cup {"none"} /\ lease' \in Actors \cup {"none"}
    BY PhaseSet DEF TypeOK, DecidedInv
  <2> QED
    BY <2>1, <2>2, <2>3, <2>4 DEF TypeOK, Steps, Locals
<1>2. ReaderInv'
  BY DEF ReaderInv, TypeOK, Importing
<1>3. HolderInv'
  BY <1>1 DEF HolderInv, TypeOK, Outcomes, ReaderInv
<1>4. DecidedInv'
  BY DEF DecidedInv, TypeOK, Importing, Deciding, Decided
<1>5. ModeInv'
  BY <1>1 DEF ModeInv, TypeOK, Importing, Deciding, HolderInv, DecidedInv
<1>6. ImportInv'
  BY <1>1 DEF ImportInv, TypeOK, Outcomes, Heads, ReaderInv, HolderInv, DecidedInv,
     ModeInv, Importing, Permitted, PinInv
<1>7. PinInv'
  BY DEF PinInv, TypeOK
<1>8. PastInv'
  BY DEF PastInv, TypeOK, Excused
<1>9. ClearInv'
  BY <1>1 DEF ClearInv, TypeOK, Outcomes, ReaderInv, HolderInv, DecidedInv, ModeInv,
     Permitted, Importing, Decided
<1> QED
  BY <1>1, <1>2, <1>3, <1>4, <1>5, <1>6, <1>7, <1>8, <1>9

LEMMA EffectsIInv ==
  ASSUME IInv, NEW a \in Drivers, Effects(a)
  PROVE  IInv'
<1> USE SettlementAssumption, PhaseSet DEF IInv, Effects, Go, journal, row, git,
   ends, locks, proc, env, Drivers, Actors
<1>1. TypeOK'
  BY PhaseSet DEF TypeOK
<1>2. ReaderInv'
  BY DEF ReaderInv, TypeOK, Importing
<1>3. HolderInv'
  BY <1>1 DEF HolderInv, TypeOK, Outcomes, ReaderInv
<1>4. DecidedInv'
  BY DEF DecidedInv, TypeOK, Importing, Deciding, Decided
<1>5. ModeInv'
  BY DEF ModeInv, TypeOK, Importing, Deciding
<1>6. ImportInv'
  BY DEF ImportInv, TypeOK, Importing
<1>7. PinInv'
  BY DEF PinInv, TypeOK
<1>8. PastInv'
  BY DEF PastInv, TypeOK, Excused
<1>9. ClearInv'
  BY DEF ClearInv, TypeOK, Permitted
<1> QED
  BY <1>1, <1>2, <1>3, <1>4, <1>5, <1>6, <1>7, <1>8, <1>9

LEMMA AdvanceIInv ==
  ASSUME IInv, NEW a \in Drivers, Advance(a)
  PROVE  IInv'
<1> USE SettlementAssumption, PhaseSet DEF IInv, Advance, Go, sealed, row, git,
   ends, locks, proc, env, Drivers, Actors
<1>1. TypeOK'
  BY LaterIs, PhaseSet DEF TypeOK
<1>2. ReaderInv'
  BY LaterIs DEF ReaderInv, TypeOK, Importing
<1>3. HolderInv'
  BY LaterIs, <1>1 DEF HolderInv, TypeOK, Outcomes, ReaderInv
<1>4. DecidedInv'
  BY LaterIs DEF DecidedInv, TypeOK, Importing, Deciding, Decided
<1>5. ModeInv'
  BY LaterIs DEF ModeInv, TypeOK, Importing, Deciding
<1>6. ImportInv'
  BY LaterIs, <1>1 DEF ImportInv, TypeOK, Outcomes, Heads, ReaderInv, HolderInv,
     DecidedInv, ModeInv, Importing, Permitted, PinInv
<1>7. PinInv'
  BY LaterIs DEF PinInv, TypeOK
<1>8. PastInv'
  BY LaterIs DEF PastInv, TypeOK, Excused
<1>9. ClearInv'
  BY LaterIs DEF ClearInv, TypeOK, Permitted
<1> QED
  BY <1>1, <1>2, <1>3, <1>4, <1>5, <1>6, <1>7, <1>8, <1>9

LEMMA IntentIInv ==
  ASSUME IInv, NEW a \in Drivers, Intent(a)
  PROVE  IInv'
<1> USE SettlementAssumption, PhaseSet DEF IInv, Intent, Leave, Drop, Go, Blank,
   journal, row, git, ends, locks, proc, env, Drivers, Actors
<1>1. TypeOK'
  <2>1. /\ due' \in BOOLEAN /\ fence' \in BOOLEAN /\ released' \in BOOLEAN
        /\ abandoned' \in BOOLEAN /\ guardian' \in BOOLEAN
    BY DEF TypeOK
  <2>2. pc' \in [Actors -> Steps]
    BY DEF TypeOK, Steps
  <2>3. loc' \in [Actors -> Locals]
    <3> HIDE DEF Blank
    <3>1. loc' = loc \/ loc' = [loc EXCEPT ![a] = Blank]
      OBVIOUS
    <3> HIDE DEF IInv
    <3>2. loc \in [Actors -> Locals]
      BY DEF IInv, TypeOK, Locals
    <3> QED
      BY <3>1, <3>2, BlankTyped
  <2>4. /\ phase' \in {Phases[i] : i \in 1..5}
        /\ effects' \in {"none", "done", "retry", "refused"}
        /\ receipt' \in {"none", "done", "retry", "refused"}
        /\ intent' \in Outcomes \cup {"none"} /\ record' \in Outcomes \cup {"none"}
        /\ refusal' \in {"none", "failed", "limit", "precondition", "final"}
        /\ holder' \in Actors \cup {"none"} /\ lease' \in Actors \cup {"none"}
    BY PhaseSet DEF TypeOK
  <2> QED
    BY <2>1, <2>2, <2>3, <2>4 DEF TypeOK, Steps, Locals
<1>2. ReaderInv'
  BY DEF ReaderInv, TypeOK, Importing
<1>3. HolderInv'
  BY <1>1 DEF HolderInv, TypeOK, Outcomes, ReaderInv
<1>4. DecidedInv'
  BY <1>1 DEF DecidedInv, TypeOK, Outcomes, ReaderInv, HolderInv, Importing,
     Deciding, Decided, ModeInv
<1>5. ModeInv'
  BY <1>1 DEF ModeInv, TypeOK, Importing, Deciding, HolderInv, DecidedInv
<1>6. ImportInv'
  BY DEF ImportInv, TypeOK, Importing
<1>7. PinInv'
  BY DEF PinInv, TypeOK
<1>8. PastInv'
  BY DEF PastInv, TypeOK, Excused
<1>9. ClearInv'
  BY DEF ClearInv, TypeOK, Permitted
<1> QED
  BY <1>1, <1>2, <1>3, <1>4, <1>5, <1>6, <1>7, <1>8, <1>9

LEMMA CommitIInv ==
  ASSUME IInv, NEW a \in Drivers, Commit(a)
  PROVE  IInv'
<1> USE SettlementAssumption, PhaseSet DEF IInv, Commit, Go, journal, sealed, row,
   git, ends, locks, proc, env, Drivers, Actors
<1>1. TypeOK'
  BY PhaseSet DEF TypeOK
<1>2. ReaderInv'
  BY DEF ReaderInv, TypeOK, Importing
<1>3. HolderInv'
  BY <1>1 DEF HolderInv, TypeOK, Outcomes, ReaderInv
<1>4. DecidedInv'
  BY DEF DecidedInv, TypeOK, Importing, Deciding, Decided
<1>5. ModeInv'
  BY DEF ModeInv, TypeOK, Importing, Deciding
<1>6. ImportInv'
  BY DEF ImportInv, TypeOK, Importing
<1>7. PinInv'
  BY DEF PinInv, TypeOK
<1>8. PastInv'
  BY DEF PastInv, TypeOK, Excused
<1>9. ClearInv'
  BY <1>1 DEF ClearInv, TypeOK, Permitted, HolderInv, DecidedInv, Decided
<1> QED
  BY <1>1, <1>2, <1>3, <1>4, <1>5, <1>6, <1>7, <1>8, <1>9

LEMMA ReceiptIInv ==
  ASSUME IInv, NEW a \in Drivers, Receipt(a)
  PROVE  IInv'
<1> USE SettlementAssumption, PhaseSet DEF IInv, Receipt, Writable, Leave, Drop, Go,
   Blank, journal, sealed, row, git, locks, proc, env, Drivers, Actors
<1>1. TypeOK'
  <2>1. /\ due' \in BOOLEAN /\ fence' \in BOOLEAN /\ released' \in BOOLEAN
        /\ abandoned' \in BOOLEAN /\ guardian' \in BOOLEAN
    BY DEF TypeOK
  <2>2. pc' \in [Actors -> Steps]
    BY DEF TypeOK, Steps
  <2>3. loc' \in [Actors -> Locals]
    <3> HIDE DEF Blank
    <3>1. loc' = loc \/ loc' = [loc EXCEPT ![a] = Blank]
      OBVIOUS
    <3> HIDE DEF IInv
    <3>2. loc \in [Actors -> Locals]
      BY DEF IInv, TypeOK, Locals
    <3> QED
      BY <3>1, <3>2, BlankTyped
  <2>4. /\ phase' \in {Phases[i] : i \in 1..5}
        /\ effects' \in {"none", "done", "retry", "refused"}
        /\ receipt' \in {"none", "done", "retry", "refused"}
        /\ intent' \in Outcomes \cup {"none"} /\ record' \in Outcomes \cup {"none"}
        /\ refusal' \in {"none", "failed", "limit", "precondition", "final"}
        /\ holder' \in Actors \cup {"none"} /\ lease' \in Actors \cup {"none"}
    BY PhaseSet DEF TypeOK
  <2> QED
    BY <2>1, <2>2, <2>3, <2>4 DEF TypeOK, Steps, Locals
<1>2. ReaderInv'
  BY DEF ReaderInv, TypeOK, Importing
<1>3. HolderInv'
  BY <1>1 DEF HolderInv, TypeOK, Outcomes, ReaderInv
<1>4. DecidedInv'
  BY DEF DecidedInv, TypeOK, Importing, Deciding, Decided
<1>5. ModeInv'
  BY <1>1 DEF ModeInv, TypeOK, Importing, Deciding, HolderInv, DecidedInv
<1>6. ImportInv'
  BY DEF ImportInv, TypeOK, Importing
<1>7. PinInv'
  BY DEF PinInv, TypeOK
<1>8. PastInv'
  BY DEF PastInv, TypeOK, Excused
<1>9. ClearInv'
  BY <1>1 DEF ClearInv, TypeOK, Outcomes, ReaderInv, HolderInv, DecidedInv, ModeInv,
     Permitted, Importing, Decided
<1> QED
  BY <1>1, <1>2, <1>3, <1>4, <1>5, <1>6, <1>7, <1>8, <1>9

LEMMA DriveIInv ==
  ASSUME IInv, NEW a \in Drivers, Drive(a)
  PROVE  IInv'
<1> USE SettlementAssumption, PhaseSet DEF IInv, Drive, Drop, Go, sealed, row, git,
   ends, proc, env, Drivers, Actors
<1>1. TypeOK'
  <2>1. /\ due' \in BOOLEAN /\ fence' \in BOOLEAN /\ released' \in BOOLEAN
        /\ abandoned' \in BOOLEAN /\ guardian' \in BOOLEAN
    BY DEF TypeOK
  <2>2. pc' \in [Actors -> Steps]
    BY DEF TypeOK, Steps
  <2>3. loc' \in [Actors -> Locals]
    BY DEF TypeOK, Locals, Outcomes
  <2>4. /\ phase' \in {Phases[i] : i \in 1..5}
        /\ effects' \in {"none", "done", "retry", "refused"}
        /\ receipt' \in {"none", "done", "retry", "refused"}
        /\ intent' \in Outcomes \cup {"none"} /\ record' \in Outcomes \cup {"none"}
        /\ refusal' \in {"none", "failed", "limit", "precondition", "final"}
        /\ holder' \in Actors \cup {"none"} /\ lease' \in Actors \cup {"none"}
    BY LaterIs, PhaseSet DEF TypeOK
  <2> QED
    BY <2>1, <2>2, <2>3, <2>4 DEF TypeOK, Steps, Locals
<1>2. ReaderInv'
  BY LaterIs, <1>1 DEF ReaderInv, TypeOK, Outcomes, Permitted, DecidedInv,
     Importing, HolderInv
<1>3. HolderInv'
  BY LaterIs, <1>1 DEF HolderInv, TypeOK, Outcomes, ReaderInv
<1>4. DecidedInv'
  BY LaterIs DEF DecidedInv, TypeOK, Importing, Deciding, Decided
<1>5. ModeInv'
  BY LaterIs DEF ModeInv, TypeOK, Importing, Deciding
<1>6. ImportInv'
  BY LaterIs, <1>1 DEF ImportInv, TypeOK, Outcomes, Heads, ReaderInv, HolderInv,
     DecidedInv, ModeInv, Importing, Permitted, PinInv
<1>7. PinInv'
  BY LaterIs DEF PinInv, TypeOK
<1>8. PastInv'
  BY LaterIs, <1>1 DEF PastInv, TypeOK, Outcomes, Heads, ReaderInv, HolderInv,
     DecidedInv, ModeInv, ImportInv, PinInv, Excused, Importing, Deciding, Decided
<1>9. ClearInv'
  BY LaterIs DEF ClearInv, TypeOK, Permitted
<1> QED
  BY <1>1, <1>2, <1>3, <1>4, <1>5, <1>6, <1>7, <1>8, <1>9

LEMMA ReclaimIInv ==
  ASSUME IInv, NEW a \in Drivers, Reclaim(a)
  PROVE  IInv'
<1> USE SettlementAssumption, PhaseSet DEF IInv, Reclaim, Busy, Exhausted, Leave,
   Drop, Go, Note, Blank, journal, sealed, row, git, ends, locks, proc, env, Drivers,
   Actors
<1>1. TypeOK'
  <2>1. /\ due' \in BOOLEAN /\ fence' \in BOOLEAN /\ released' \in BOOLEAN
        /\ abandoned' \in BOOLEAN /\ guardian' \in BOOLEAN
    BY DEF TypeOK
  <2>2. pc' \in [Actors -> Steps]
    BY DEF TypeOK, Steps
  <2>3. loc' \in [Actors -> Locals]
    <3> HIDE DEF Blank
    <3>1. loc' = loc \/ loc' = [loc EXCEPT ![a] = Blank] \/ loc' = [loc EXCEPT ![a].mode = "retry"]
      OBVIOUS
    <3>2. loc \in [Actors -> Locals]
      BY DEF TypeOK, Locals
    <3>3. CASE loc' = [loc EXCEPT ![a].mode = "retry"]
      BY <3>2, <3>3 DEF Locals
    <3> QED
      BY <3>1, <3>2, <3>3, BlankTyped
  <2>4. /\ phase' \in {Phases[i] : i \in 1..5}
        /\ effects' \in {"none", "done", "retry", "refused"}
        /\ receipt' \in {"none", "done", "retry", "refused"}
        /\ intent' \in Outcomes \cup {"none"} /\ record' \in Outcomes \cup {"none"}
        /\ refusal' \in {"none", "failed", "limit", "precondition", "final"}
        /\ holder' \in Actors \cup {"none"} /\ lease' \in Actors \cup {"none"}
    BY PhaseSet DEF TypeOK
  <2> QED
    BY <2>1, <2>2, <2>3, <2>4 DEF TypeOK, Steps, Locals
<1>2. ReaderInv'
  BY DEF ReaderInv, TypeOK, Importing
<1>3. HolderInv'
  BY <1>1 DEF HolderInv, TypeOK, Outcomes, ReaderInv
<1>4. DecidedInv'
  BY DEF DecidedInv, TypeOK, Importing, Deciding, Decided
<1>5. ModeInv'
  <2>1. UNCHANGED <<writer, record, intent, receipt, refusal, abandoned>>
    OBVIOUS
  <2>2. \A d \in Drivers : d # a => pc'[d] = pc[d] /\ loc'[d] = loc[d]
    BY DEF TypeOK
  <2>3. \/ pc'[a] \in {"idle", "refuse"}
        \/ pc'[a] = "pin" /\ loc'[a].mode = "retry"
    BY DEF TypeOK
  <2>4. record # "none" /\ receipt = "retry" /\ refusal = "none" /\ ~abandoned
    BY DEF DecidedInv, Decided, ClearInv, Permitted
  <2> QED
    BY <2>1, <2>2, <2>3, <2>4 DEF ModeInv, Importing, Deciding
<1>6. ImportInv'
  <2>1. UNCHANGED <<imports, attempts, refusal, abandoned, phase, pinned, published>>
    OBVIOUS
  <2>2. \A d \in Drivers : d # a => pc'[d] = pc[d]
    BY DEF TypeOK
  <2>3. \/ pc'[a] \in {"idle", "refuse"}
        \/ pc'[a] = "pin" /\ ~Exhausted
    BY DEF TypeOK
  <2>4. refusal = "none" /\ ~abandoned
    BY DEF ClearInv, Permitted
  <2>5. ~Exhausted /\ phase = "import" => attempts < Limit
    BY DEF TypeOK
  <2> QED
    BY <2>1, <2>2, <2>3, <2>4, <2>5 DEF ImportInv, Importing
<1>7. PinInv'
  BY DEF PinInv, TypeOK
<1>8. PastInv'
  BY DEF PastInv, TypeOK, Excused
<1>9. ClearInv'
  BY DEF ClearInv, TypeOK, Permitted
<1> QED
  BY <1>1, <1>2, <1>3, <1>4, <1>5, <1>6, <1>7, <1>8, <1>9

LEMMA DecideRetryIInv ==
  ASSUME IInv, NEW a \in Drivers, DecideRetry(a)
  PROVE  IInv'
<1> USE SettlementAssumption, PhaseSet DEF IInv, DecideRetry, Leave, Drop, Go,
   Blank, journal, sealed, git, ends, locks, proc, env, Drivers, Actors
<1>1. TypeOK'
  <2>1. /\ due' \in BOOLEAN /\ fence' \in BOOLEAN /\ released' \in BOOLEAN
        /\ abandoned' \in BOOLEAN /\ guardian' \in BOOLEAN
    BY DEF TypeOK
  <2>2. pc' \in [Actors -> Steps]
    BY DEF TypeOK, Steps
  <2>3. loc' \in [Actors -> Locals]
    <3> HIDE DEF Blank
    <3>1. loc' = loc \/ loc' = [loc EXCEPT ![a] = Blank]
      OBVIOUS
    <3> HIDE DEF IInv
    <3>2. loc \in [Actors -> Locals]
      BY DEF IInv, TypeOK, Locals
    <3> QED
      BY <3>1, <3>2, BlankTyped
  <2>4. /\ phase' \in {Phases[i] : i \in 1..5}
        /\ effects' \in {"none", "done", "retry", "refused"}
        /\ receipt' \in {"none", "done", "retry", "refused"}
        /\ intent' \in Outcomes \cup {"none"} /\ record' \in Outcomes \cup {"none"}
        /\ refusal' \in {"none", "failed", "limit", "precondition", "final"}
        /\ holder' \in Actors \cup {"none"} /\ lease' \in Actors \cup {"none"}
    BY PhaseSet DEF TypeOK
  <2> QED
    BY <2>1, <2>2, <2>3, <2>4 DEF TypeOK, Steps, Locals
<1>2. ReaderInv'
  BY DEF ReaderInv, TypeOK, Importing
<1>3. HolderInv'
  BY <1>1 DEF HolderInv, TypeOK, Outcomes, ReaderInv
<1>4. DecidedInv'
  BY <1>1 DEF DecidedInv, TypeOK, Outcomes, ReaderInv, HolderInv, Importing,
     Deciding, Decided, ModeInv
<1>5. ModeInv'
  BY <1>1 DEF ModeInv, TypeOK, Importing, Deciding, HolderInv, DecidedInv
<1>6. ImportInv'
  BY DEF ImportInv, TypeOK, Importing
<1>7. PinInv'
  BY DEF PinInv, TypeOK
<1>8. PastInv'
  BY DEF PastInv, TypeOK, Excused
<1>9. ClearInv'
  BY <1>1 DEF ClearInv, TypeOK, Outcomes, ReaderInv, HolderInv, DecidedInv, ModeInv,
     Permitted, Importing, Decided
<1> QED
  BY <1>1, <1>2, <1>3, <1>4, <1>5, <1>6, <1>7, <1>8, <1>9

LEMMA RefuseIInv ==
  ASSUME IInv, NEW a \in Drivers, Refuse(a)
  PROVE  IInv'
<1> USE SettlementAssumption, PhaseSet DEF IInv, Refuse, Go, journal, row, git,
   ends, locks, proc, env, Drivers, Actors
<1>1. TypeOK'
  BY PhaseSet DEF TypeOK
<1>2. ReaderInv'
  BY DEF ReaderInv, TypeOK, Importing
<1>3. HolderInv'
  BY <1>1 DEF HolderInv, TypeOK, Outcomes, ReaderInv
<1>4. DecidedInv'
  BY DEF DecidedInv, TypeOK, Importing, Deciding, Decided
<1>5. ModeInv'
  BY <1>1 DEF ModeInv, TypeOK, Importing, Deciding, HolderInv, DecidedInv
<1>6. ImportInv'
  BY <1>1 DEF ImportInv, TypeOK, Outcomes, Heads, ReaderInv, HolderInv, DecidedInv,
     ModeInv, Importing, Permitted, PinInv
<1>7. PinInv'
  BY DEF PinInv, TypeOK
<1>8. PastInv'
  BY DEF PastInv, TypeOK, Excused
<1>9. ClearInv'
  BY <1>1 DEF ClearInv, TypeOK, Outcomes, ReaderInv, HolderInv, DecidedInv, ModeInv,
     Permitted, Importing, Decided
<1> QED
  BY <1>1, <1>2, <1>3, <1>4, <1>5, <1>6, <1>7, <1>8, <1>9

LEMMA RefusedIInv ==
  ASSUME IInv, NEW a \in Drivers, Refused(a)
  PROVE  IInv'
<1> USE SettlementAssumption, PhaseSet DEF IInv, Refused, Writable, Drop, Go,
   journal, sealed, git, ends, proc, env, Drivers, Actors
<1>1. TypeOK'
  BY PhaseSet DEF TypeOK
<1>2. ReaderInv'
  BY DEF ReaderInv, TypeOK, Importing
<1>3. HolderInv'
  BY <1>1 DEF HolderInv, TypeOK, Outcomes, ReaderInv
<1>4. DecidedInv'
  BY DEF DecidedInv, TypeOK, Importing, Deciding, Decided
<1>5. ModeInv'
  BY <1>1 DEF ModeInv, TypeOK, Importing, Deciding, HolderInv, DecidedInv
<1>6. ImportInv'
  BY DEF ImportInv, TypeOK, Importing
<1>7. PinInv'
  BY DEF PinInv, TypeOK
<1>8. PastInv'
  BY DEF PastInv, TypeOK, Excused
<1>9. ClearInv'
  BY <1>1 DEF ClearInv, TypeOK, Outcomes, ReaderInv, HolderInv, DecidedInv, ModeInv,
     Permitted, Importing, Decided
<1> QED
  BY <1>1, <1>2, <1>3, <1>4, <1>5, <1>6, <1>7, <1>8, <1>9

LEMMA PublishReleaseIInv ==
  ASSUME IInv, NEW a \in Drivers, PublishRelease(a)
  PROVE  IInv'
<1> USE SettlementAssumption, PhaseSet DEF IInv, PublishRelease, ReleaseFirst,
   Leave, Drop, Go, Blank, journal, sealed, row, git, locks, proc, env, Drivers, Actors
<1>1. TypeOK'
  <2>1. /\ due' \in BOOLEAN /\ fence' \in BOOLEAN /\ released' \in BOOLEAN
        /\ abandoned' \in BOOLEAN /\ guardian' \in BOOLEAN
    BY DEF TypeOK
  <2>2. pc' \in [Actors -> Steps]
    BY DEF TypeOK, Steps
  <2>3. loc' \in [Actors -> Locals]
    <3> HIDE DEF Blank
    <3>1. loc' = loc \/ loc' = [loc EXCEPT ![a] = Blank]
      OBVIOUS
    <3> HIDE DEF IInv
    <3>2. loc \in [Actors -> Locals]
      BY DEF IInv, TypeOK, Locals
    <3> QED
      BY <3>1, <3>2, BlankTyped
  <2>4. /\ phase' \in {Phases[i] : i \in 1..5}
        /\ effects' \in {"none", "done", "retry", "refused"}
        /\ receipt' \in {"none", "done", "retry", "refused"}
        /\ intent' \in Outcomes \cup {"none"} /\ record' \in Outcomes \cup {"none"}
        /\ refusal' \in {"none", "failed", "limit", "precondition", "final"}
        /\ holder' \in Actors \cup {"none"} /\ lease' \in Actors \cup {"none"}
    BY PhaseSet DEF TypeOK
  <2> QED
    BY <2>1, <2>2, <2>3, <2>4 DEF TypeOK, Steps, Locals
<1>2. ReaderInv'
  BY DEF ReaderInv, TypeOK, Importing
<1>3. HolderInv'
  BY <1>1 DEF HolderInv, TypeOK, Outcomes, ReaderInv
<1>4. DecidedInv'
  BY DEF DecidedInv, TypeOK, Importing, Deciding, Decided
<1>5. ModeInv'
  BY DEF ModeInv, TypeOK, Importing, Deciding
<1>6. ImportInv'
  BY DEF ImportInv, TypeOK, Importing
<1>7. PinInv'
  BY DEF PinInv, TypeOK
<1>8. PastInv'
  BY DEF PastInv, TypeOK, Excused
<1>9. ClearInv'
  BY DEF ClearInv, TypeOK, Permitted
<1> QED
  BY <1>1, <1>2, <1>3, <1>4, <1>5, <1>6, <1>7, <1>8, <1>9

LEMMA CompleteIInv ==
  ASSUME IInv, NEW a \in Drivers, Complete(a)
  PROVE  IInv'
<1> USE SettlementAssumption, PhaseSet DEF IInv, Complete, ReleaseFirst, Go, sealed,
   row, git, ends, locks, proc, env, Drivers, Actors
<1>1. TypeOK'
  BY PhaseSet DEF TypeOK
<1>2. ReaderInv'
  BY DEF ReaderInv, TypeOK, Importing
<1>3. HolderInv'
  BY <1>1 DEF HolderInv, TypeOK, Outcomes, ReaderInv
<1>4. DecidedInv'
  BY DEF DecidedInv, TypeOK, Importing, Deciding, Decided
<1>5. ModeInv'
  BY DEF ModeInv, TypeOK, Importing, Deciding
<1>6. ImportInv'
  BY <1>1 DEF ImportInv, TypeOK, Outcomes, Heads, ReaderInv, HolderInv, DecidedInv,
     ModeInv, Importing, Permitted, PinInv
<1>7. PinInv'
  BY DEF PinInv, TypeOK
<1>8. PastInv'
  BY <1>1 DEF PastInv, TypeOK, Outcomes, Heads, ReaderInv, HolderInv, DecidedInv,
     ModeInv, ImportInv, PinInv, Excused, Importing, Deciding, Decided
<1>9. ClearInv'
  BY DEF ClearInv, TypeOK, Permitted
<1> QED
  BY <1>1, <1>2, <1>3, <1>4, <1>5, <1>6, <1>7, <1>8, <1>9

LEMMA ClearFenceIInv ==
  ASSUME IInv, NEW a \in Drivers, ClearFence(a)
  PROVE  IInv'
<1> USE SettlementAssumption, PhaseSet DEF IInv, ClearFence, Drop, Go, Blank,
   journal, sealed, row, git, env, Drivers, Actors
<1>1. TypeOK'
  <2>1. /\ due' \in BOOLEAN /\ fence' \in BOOLEAN /\ released' \in BOOLEAN
        /\ abandoned' \in BOOLEAN /\ guardian' \in BOOLEAN
    BY DEF TypeOK
  <2>2. pc' \in [Actors -> Steps]
    BY DEF TypeOK, Steps
  <2>3. loc' \in [Actors -> Locals]
    BY DEF TypeOK, Locals, Outcomes
  <2>4. /\ phase' \in {Phases[i] : i \in 1..5}
        /\ effects' \in {"none", "done", "retry", "refused"}
        /\ receipt' \in {"none", "done", "retry", "refused"}
        /\ intent' \in Outcomes \cup {"none"} /\ record' \in Outcomes \cup {"none"}
        /\ refusal' \in {"none", "failed", "limit", "precondition", "final"}
        /\ holder' \in Actors \cup {"none"} /\ lease' \in Actors \cup {"none"}
    BY PhaseSet DEF TypeOK
  <2> QED
    BY <2>1, <2>2, <2>3, <2>4 DEF TypeOK, Steps, Locals
<1>2. ReaderInv'
  BY DEF ReaderInv, TypeOK, Importing
<1>3. HolderInv'
  BY <1>1 DEF HolderInv, TypeOK, Outcomes, ReaderInv
<1>4. DecidedInv'
  BY DEF DecidedInv, TypeOK, Importing, Deciding, Decided
<1>5. ModeInv'
  BY DEF ModeInv, TypeOK, Importing, Deciding
<1>6. ImportInv'
  BY DEF ImportInv, TypeOK, Importing
<1>7. PinInv'
  BY DEF PinInv, TypeOK
<1>8. PastInv'
  BY DEF PastInv, TypeOK, Excused
<1>9. ClearInv'
  BY DEF ClearInv, TypeOK, Permitted
<1> QED
  BY <1>1, <1>2, <1>3, <1>4, <1>5, <1>6, <1>7, <1>8, <1>9

LEMMA AbandonIInv ==
  ASSUME IInv, Abandon
  PROVE  IInv'
<1> USE SettlementAssumption, PhaseSet DEF IInv, Abandon, Go, sealed, row, git,
   proc, env, Drivers, Actors
<1>1. TypeOK'
  BY PhaseSet DEF TypeOK
<1>2. ReaderInv'
  BY DEF ReaderInv, TypeOK, Importing
<1>3. HolderInv'
  BY <1>1 DEF HolderInv, TypeOK, Outcomes, ReaderInv
<1>4. DecidedInv'
  BY DEF DecidedInv, TypeOK, Importing, Deciding, Decided
<1>5. ModeInv'
  BY <1>1 DEF ModeInv, TypeOK, Importing, Deciding, HolderInv, DecidedInv
<1>6. ImportInv'
  BY <1>1 DEF ImportInv, TypeOK, Importing, HolderInv, DecidedInv, ModeInv
<1>7. PinInv'
  BY DEF PinInv, TypeOK
<1>8. PastInv'
  BY DEF PastInv, TypeOK, Excused
<1>9. ClearInv'
  BY <1>1 DEF ClearInv, TypeOK, Permitted, HolderInv, DecidedInv, Decided
<1> QED
  BY <1>1, <1>2, <1>3, <1>4, <1>5, <1>6, <1>7, <1>8, <1>9

LEMMA AbandonReleaseIInv ==
  ASSUME IInv, AbandonRelease
  PROVE  IInv'
<1> USE SettlementAssumption, PhaseSet DEF IInv, AbandonRelease, Go, journal,
   sealed, row, git, proc, env, Drivers, Actors
<1>1. TypeOK'
  <2>1. /\ due' \in BOOLEAN /\ fence' \in BOOLEAN /\ released' \in BOOLEAN
        /\ abandoned' \in BOOLEAN /\ guardian' \in BOOLEAN
    BY DEF TypeOK
  <2>2. pc' \in [Actors -> Steps]
    BY DEF TypeOK, Steps
  <2>3. loc' \in [Actors -> Locals]
    BY DEF TypeOK, Locals, Outcomes
  <2>4. /\ phase' \in {Phases[i] : i \in 1..5}
        /\ effects' \in {"none", "done", "retry", "refused"}
        /\ receipt' \in {"none", "done", "retry", "refused"}
        /\ intent' \in Outcomes \cup {"none"} /\ record' \in Outcomes \cup {"none"}
        /\ refusal' \in {"none", "failed", "limit", "precondition", "final"}
        /\ holder' \in Actors \cup {"none"} /\ lease' \in Actors \cup {"none"}
    BY PhaseSet DEF TypeOK
  <2> QED
    BY <2>1, <2>2, <2>3, <2>4 DEF TypeOK, Steps, Locals
<1>2. ReaderInv'
  BY DEF ReaderInv, TypeOK, Importing
<1>3. HolderInv'
  BY <1>1 DEF HolderInv, TypeOK, Outcomes, ReaderInv
<1>4. DecidedInv'
  BY DEF DecidedInv, TypeOK, Importing, Deciding, Decided
<1>5. ModeInv'
  BY DEF ModeInv, TypeOK, Importing, Deciding
<1>6. ImportInv'
  BY DEF ImportInv, TypeOK, Importing
<1>7. PinInv'
  BY DEF PinInv, TypeOK
<1>8. PastInv'
  BY DEF PastInv, TypeOK, Excused
<1>9. ClearInv'
  BY <1>1 DEF ClearInv, TypeOK, Permitted, HolderInv, DecidedInv, Decided
<1> QED
  BY <1>1, <1>2, <1>3, <1>4, <1>5, <1>6, <1>7, <1>8, <1>9

LEMMA CrashIInv ==
  ASSUME IInv, NEW a \in Actors, Crash(a)
  PROVE  IInv'
<1> USE SettlementAssumption, PhaseSet DEF IInv, Crash, Go, Blank, journal, sealed,
   row, git, ends, Drivers, Actors
<1>1. TypeOK'
  BY PhaseSet DEF TypeOK, Outcomes
<1>2. ReaderInv'
  BY DEF ReaderInv, TypeOK, Importing
<1>3. HolderInv'
  BY <1>1 DEF HolderInv, TypeOK, Outcomes, ReaderInv
<1>4. DecidedInv'
  BY DEF DecidedInv, TypeOK, Importing, Deciding, Decided
<1>5. ModeInv'
  BY DEF ModeInv, TypeOK, Importing, Deciding
<1>6. ImportInv'
  BY DEF ImportInv, TypeOK, Importing
<1>7. PinInv'
  BY DEF PinInv, TypeOK
<1>8. PastInv'
  BY DEF PastInv, TypeOK, Excused
<1>9. ClearInv'
  BY DEF ClearInv, TypeOK, Permitted
<1> QED
  BY <1>1, <1>2, <1>3, <1>4, <1>5, <1>6, <1>7, <1>8, <1>9

LEMMA StepFailsIInv ==
  ASSUME IInv, NEW a \in Actors, StepFails(a)
  PROVE  IInv'
<1> USE SettlementAssumption, PhaseSet DEF IInv, StepFails, Leave, Drop, Go, Blank,
   journal, sealed, row, git, ends, proc, Drivers, Actors
<1>1. TypeOK'
  BY PhaseSet DEF TypeOK, Outcomes
<1>2. ReaderInv'
  BY DEF ReaderInv, TypeOK, Importing
<1>3. HolderInv'
  BY <1>1 DEF HolderInv, TypeOK, Outcomes, ReaderInv
<1>4. DecidedInv'
  BY DEF DecidedInv, TypeOK, Importing, Deciding, Decided
<1>5. ModeInv'
  BY DEF ModeInv, TypeOK, Importing, Deciding
<1>6. ImportInv'
  BY DEF ImportInv, TypeOK, Importing
<1>7. PinInv'
  BY DEF PinInv, TypeOK
<1>8. PastInv'
  BY DEF PastInv, TypeOK, Excused
<1>9. ClearInv'
  BY DEF ClearInv, TypeOK, Permitted
<1> QED
  BY <1>1, <1>2, <1>3, <1>4, <1>5, <1>6, <1>7, <1>8, <1>9

LEMMA DeadlineIInv ==
  ASSUME IInv, Deadline
  PROVE  IInv'
<1> USE SettlementAssumption, PhaseSet DEF IInv, Deadline, journal, sealed, row,
   git, ends, proc, env, Drivers, Actors
<1>1. TypeOK'
  <2>1. /\ due' \in BOOLEAN /\ fence' \in BOOLEAN /\ released' \in BOOLEAN
        /\ abandoned' \in BOOLEAN /\ guardian' \in BOOLEAN
    BY DEF TypeOK
  <2>2. pc' \in [Actors -> Steps]
    BY DEF TypeOK, Steps
  <2>3. loc' \in [Actors -> Locals]
    BY DEF TypeOK, Locals, Outcomes
  <2>4. /\ phase' \in {Phases[i] : i \in 1..5}
        /\ effects' \in {"none", "done", "retry", "refused"}
        /\ receipt' \in {"none", "done", "retry", "refused"}
        /\ intent' \in Outcomes \cup {"none"} /\ record' \in Outcomes \cup {"none"}
        /\ refusal' \in {"none", "failed", "limit", "precondition", "final"}
        /\ holder' \in Actors \cup {"none"} /\ lease' \in Actors \cup {"none"}
    BY PhaseSet DEF TypeOK
  <2> QED
    BY <2>1, <2>2, <2>3, <2>4 DEF TypeOK, Steps, Locals
<1>2. ReaderInv'
  BY DEF ReaderInv, TypeOK, Importing
<1>3. HolderInv'
  BY <1>1 DEF HolderInv, TypeOK, Outcomes, ReaderInv
<1>4. DecidedInv'
  BY DEF DecidedInv, TypeOK, Importing, Deciding, Decided
<1>5. ModeInv'
  BY DEF ModeInv, TypeOK, Importing, Deciding
<1>6. ImportInv'
  BY DEF ImportInv, TypeOK, Importing
<1>7. PinInv'
  BY DEF PinInv, TypeOK
<1>8. PastInv'
  BY DEF PastInv, TypeOK, Excused
<1>9. ClearInv'
  BY DEF ClearInv, TypeOK, Permitted
<1> QED
  BY <1>1, <1>2, <1>3, <1>4, <1>5, <1>6, <1>7, <1>8, <1>9

LEMMA CancelIInv ==
  ASSUME IInv, Cancel
  PROVE  IInv'
<1> USE SettlementAssumption, PhaseSet DEF IInv, Cancel, journal, sealed, row, git,
   ends, locks, proc, Drivers, Actors
<1>1. TypeOK'
  BY PhaseSet DEF TypeOK
<1>2. ReaderInv'
  BY DEF ReaderInv, TypeOK, Importing
<1>3. HolderInv'
  BY <1>1 DEF HolderInv, TypeOK, Outcomes, ReaderInv
<1>4. DecidedInv'
  BY DEF DecidedInv, TypeOK, Importing, Deciding, Decided
<1>5. ModeInv'
  BY DEF ModeInv, TypeOK, Importing, Deciding
<1>6. ImportInv'
  BY DEF ImportInv, TypeOK, Importing
<1>7. PinInv'
  BY DEF PinInv, TypeOK
<1>8. PastInv'
  BY DEF PastInv, TypeOK, Excused
<1>9. ClearInv'
  BY DEF ClearInv, TypeOK, Permitted
<1> QED
  BY <1>1, <1>2, <1>3, <1>4, <1>5, <1>6, <1>7, <1>8, <1>9

LEMMA MoveTipIInv ==
  ASSUME IInv, MoveTip
  PROVE  IInv'
<1> USE SettlementAssumption, PhaseSet DEF IInv, MoveTip, journal, sealed, row,
   ends, locks, proc, env, Drivers, Actors
<1>1. TypeOK'
  BY PhaseSet DEF TypeOK, Heads
<1>2. ReaderInv'
  BY DEF ReaderInv, TypeOK, Importing
<1>3. HolderInv'
  BY <1>1 DEF HolderInv, TypeOK, Outcomes, ReaderInv
<1>4. DecidedInv'
  BY DEF DecidedInv, TypeOK, Importing, Deciding, Decided
<1>5. ModeInv'
  BY DEF ModeInv, TypeOK, Importing, Deciding
<1>6. ImportInv'
  BY DEF ImportInv, TypeOK, Importing
<1>7. PinInv'
  BY DEF PinInv, TypeOK
<1>8. PastInv'
  BY DEF PastInv, TypeOK, Excused
<1>9. ClearInv'
  BY DEF ClearInv, TypeOK, Permitted
<1> QED
  BY <1>1, <1>2, <1>3, <1>4, <1>5, <1>6, <1>7, <1>8, <1>9

LEMMA MoveBranchIInv ==
  ASSUME IInv, MoveBranch
  PROVE  IInv'
<1> USE SettlementAssumption, PhaseSet DEF IInv, MoveBranch, journal, sealed, row,
   ends, locks, proc, env, Drivers, Actors
<1>1. TypeOK'
  BY PhaseSet DEF TypeOK, Heads, Base
<1>2. ReaderInv'
  BY DEF ReaderInv, TypeOK, Importing
<1>3. HolderInv'
  BY <1>1 DEF HolderInv, TypeOK, Outcomes, ReaderInv
<1>4. DecidedInv'
  BY DEF DecidedInv, TypeOK, Importing, Deciding, Decided
<1>5. ModeInv'
  BY DEF ModeInv, TypeOK, Importing, Deciding
<1>6. ImportInv'
  BY DEF ImportInv, TypeOK, Importing
<1>7. PinInv'
  BY DEF PinInv, TypeOK
<1>8. PastInv'
  BY DEF PastInv, TypeOK, Excused
<1>9. ClearInv'
  BY DEF ClearInv, TypeOK, Permitted
<1> QED
  BY <1>1, <1>2, <1>3, <1>4, <1>5, <1>6, <1>7, <1>8, <1>9

-----------------------------------------------------------------------------
LEMMA StepIInv ==
  ASSUME IInv, NEW a \in Drivers, Step(a)
  PROVE  IInv'
BY StartIInv, ClaimRefusedIInv, ClaimGrantedIInv, PinIInv, ChargeIInv, ImportIInv,
   CancelCheckIInv, PublishIInv, PublishedIInv, VerifyIInv, TerminalFailsIInv,
   DecideFirstIInv, SealRefusalIInv, EffectsIInv, AdvanceIInv, IntentIInv, CommitIInv,
   ReceiptIInv, DriveIInv, ReclaimIInv, DecideRetryIInv, RefuseIInv, RefusedIInv,
   PublishReleaseIInv, CompleteIInv, ClearFenceIInv DEF Step

LEMMA NextIInv ==
  ASSUME IInv, [Next]_vars
  PROVE  IInv'
<1>1. CASE UNCHANGED vars
  BY <1>1 DEF vars, journal, sealed, row, git, ends, locks, proc, env, IInv, TypeOK,
     ReaderInv, HolderInv, DecidedInv, ModeInv, ImportInv, PinInv, PastInv, Excused,
     ClearInv, Permitted
<1>2. ASSUME NEW a \in Drivers, Step(a) PROVE IInv'
  BY <1>2, StepIInv
<1>3. ASSUME NEW a \in Actors, Crash(a) \/ StepFails(a) PROVE IInv'
  BY <1>3, CrashIInv, StepFailsIInv
<1>4. CASE Try \/ GiveUp \/ PassLive \/ PassTerminal \/ Abandon \/ AbandonRelease
           \/ Deadline \/ Cancel \/ MoveTip \/ MoveBranch
  BY <1>4, TryIInv, GiveUpIInv, PassLiveIInv, PassTerminalIInv, AbandonIInv,
     AbandonReleaseIInv, DeadlineIInv, CancelIInv, MoveTipIInv, MoveBranchIInv
<1> QED
  BY <1>1, <1>2, <1>3, <1>4 DEF Next

\* The inductive invariant holds whatever fails, dies or races.
THEOREM Invariance == Spec => []IInv
<1>1. IInv /\ [Next]_vars => IInv'
  BY NextIInv
<1> QED
  BY InitIInv, <1>1, PTL DEF Spec

\* What reaches the shared branch is the head the journal pinned, with its graph
\* received, for any number of drivers' calls, crashes and moves of the private
\* tip (objects.rs publish_branch, settlement.rs).
THEOREM PublishedIsPinnedHolds == Spec => []PublishedIsPinned
<1>1. IInv => PublishedIsPinned
  BY DEF IInv, PinInv, PublishedIsPinned
<1> QED
  BY Invariance, <1>1, PTL

\* At most Limit drivers ever reach the object import, for any limit: the charge
\* of begin_import is durable before Git runs, and the claim counts it.
THEOREM ImportsBoundedHolds == Spec => []ImportsBounded
<1>1. IInv => ImportsBounded
  BY SettlementAssumption DEF IInv, TypeOK, ImportInv, ImportsBounded
<1> QED
  BY Invariance, <1>1, PTL

\* A writer recorded as succeeded has its head on the shared branch, whoever
\* decided it and however often the decision was interrupted.
THEOREM SuccessIsPublishedHolds == Spec => []SuccessIsPublished
<1>1. IInv => SuccessIsPublished
  BY DEF IInv, PinInv, SuccessIsPublished
<1> QED
  BY Invariance, <1>1, PTL

\* The fence goes only with an abandonment, or with a decision whose import is
\* done or refused for good (import_release_permitted).
THEOREM ReleasedIsSettledHolds == Spec => []ReleasedIsSettled
<1>1. IInv => ReleasedIsSettled
  BY DEF IInv, ClearInv, Permitted, ReleasedIsSettled
<1> QED
  BY Invariance, <1>1, PTL

-----------------------------------------------------------------------------
(* The action property *)

\* What a step may not do: replace a decision, or import or publish after a
\* refusal or an abandonment.
Stands ==
  /\ intent # "none" => intent' = intent
  /\ record # "none" => record' = record
  /\ record' # "none" => record' = intent'
  /\ refusal # "none" \/ abandoned => imports' = imports /\ published' = published

Same == UNCHANGED <<intent, record, imports, published>>

LEMMA StepStands ==
  ASSUME IInv, NEW a \in Drivers, Step(a)
  PROVE  Stands
<1> USE DEF journal, sealed, row, git, ends, locks, proc, env
<1>1. ASSUME Same PROVE Stands
  BY <1>1 DEF IInv, DecidedInv, Same, Stands
<1>2. CASE Start(a) \/ Intent(a) \/ Commit(a)
  BY <1>2 DEF Start, Intent, Commit, IInv, DecidedInv, Stands
<1>3. CASE Charge(a)
  BY <1>3 DEF Charge, IInv, DecidedInv, ImportInv, Importing, Stands
<1>4. CASE Publish(a)
  BY <1>4 DEF Publish, IInv, DecidedInv, ImportInv, Importing, Stands
<1>5. CASE ClaimRefused(a) \/ ClaimGranted(a) \/ Pin(a) \/ Import(a) \/ CancelCheck(a)
           \/ Published(a) \/ Verify(a) \/ TerminalFails(a) \/ DecideFirst(a)
  BY <1>1, <1>5 DEF Same, ClaimRefused, ClaimGranted, Pin, Import, CancelCheck,
     Published,
     Verify, TerminalFails, DecideFirst
<1>6. CASE SealRefusal(a) \/ Effects(a) \/ Advance(a) \/ Receipt(a) \/ Drive(a) \/ Reclaim(a)
  BY <1>1, <1>6 DEF Same, SealRefusal, Effects, Advance, Receipt, Drive, Reclaim
<1>7. CASE DecideRetry(a) \/ Refuse(a) \/ Refused(a) \/ PublishRelease(a) \/ Complete(a)
           \/ ClearFence(a)
  BY <1>1, <1>7 DEF Same, DecideRetry, Refuse, Refused, PublishRelease, Complete,
     ClearFence
<1> QED
  BY <1>2, <1>3, <1>4, <1>5, <1>6, <1>7 DEF Step

LEMMA NextStands ==
  ASSUME IInv, [Next]_vars
  PROVE  Stands
<1> USE DEF journal, sealed, row, git, ends, locks, proc, env
<1>1. ASSUME Same PROVE Stands
  BY <1>1 DEF IInv, DecidedInv, Same, Stands
<1>2. CASE UNCHANGED vars
  BY <1>1, <1>2 DEF Same, vars
<1>3. ASSUME NEW a \in Drivers, Step(a) PROVE Stands
  BY <1>3, StepStands
<1>4. ASSUME NEW a \in Actors, Crash(a) \/ StepFails(a) PROVE Stands
  BY <1>1, <1>4 DEF Same, Crash, StepFails
<1>5. CASE Try \/ GiveUp \/ PassLive \/ PassTerminal \/ Abandon \/ AbandonRelease
           \/ Deadline \/ Cancel \/ MoveTip \/ MoveBranch
  BY <1>1, <1>5 DEF Same, Try, GiveUp, PassLive, PassTerminal, Abandon, AbandonRelease,
     Deadline, Cancel, MoveTip, MoveBranch
<1> QED
  BY <1>2, <1>3, <1>4, <1>5 DEF Next

\* A sealed decision is never replaced, the row never differs from it, and after
\* a refusal or an abandonment nothing is imported or published any more, though
\* a pass, the guardian and the chair race (commit_terminal, abandon_settlement).
THEOREM DecisionStandsHolds == Spec => DecisionStands
<1>1. IInv /\ [Next]_vars => [Stands]_vars
  BY NextStands
<1> QED
  BY Invariance, <1>1, PTL DEF Spec, DecisionStands, Stands
=============================================================================
