-------------------------- MODULE FabricStoreProofs --------------------------
(***************************************************************************)
(* Proofs about what the Fabric store keeps for its readers: FabricMail,   *)
(* HumanInbox and FabricEvents, for any messages, mailboxes, sessions,     *)
(* requests, chairs, hooks, hosts, logs and page sizes.                    *)
(*                                                                         *)
(* Mail: a page is the first so many unread deliveries of a mailbox, so    *)
(* whatever lies between the position it was read from and its end is on   *)
(* it (FirstPage); where a session stopped, and hence any cursor marked    *)
(* from there, has passed nothing that was not given (ReadInv).            *)
(*                                                                         *)
(* The inbox: the revision of a request counts what happened to it and its *)
(* answer names the row of the outbox that names it back.  A hook that is  *)
(* about to print has re-read its rows, so they are its own chair's.       *)
(*                                                                         *)
(* Run events: a page begins at a position the host's cursor has passed    *)
(* and has no gap, so a cursor that moves to its end leaves nothing kept   *)
(* behind; a row that comes late in the stream was behind the cursor and   *)
(* not fed, hence one that retention had deleted.                          *)
(***************************************************************************)
EXTENDS HumanInbox, FabricEvents, FiniteSetTheorems, WellFoundedInduction, TLAPS
-----------------------------------------------------------------------------
(* Sets of numbers and their sequences *)

\* SetToSeq lists a finite set, each member once.
LEMMA InSequence ==
    ASSUME NEW S, IsFiniteSet(S)
    PROVE  /\ Cardinality(S) \in Nat
           /\ SetToSeq(S) \in [1 .. Cardinality(S) -> S]
           /\ \A i, j \in 1 .. Cardinality(S) : SetToSeq(S)[i] = SetToSeq(S)[j] => i = j
           /\ \A x \in S : \E i \in 1 .. Cardinality(S) : SetToSeq(S)[i] = x
<1> DEFINE n == Cardinality(S)
<1>1. n \in Nat /\ ExistsBijection(1 .. n, S)
    BY FS_CardinalityType
<1>2. \E f \in [1 .. n -> S] : IsInjective(f)
    BY <1>1 DEF ExistsBijection, Bijection, Injection, IsInjective
<1>3. SetToSeq(S) \in [1 .. n -> S] /\ IsInjective(SetToSeq(S))
    BY <1>2 DEF SetToSeq
<1>4. SetToSeq(S) \in Injection(1 .. n, S)
    BY <1>3 DEF Injection
<1>5. Cardinality(1 .. n) = n
    BY <1>1, FS_Interval
<1>6. SetToSeq(S) \in Surjection(1 .. n, S)
    BY <1>4, <1>5, FS_Injection
<1> QED
    BY <1>1, <1>3, <1>6 DEF Surjection, IsInjective

\* A bounded set of numbers has a greatest member.
LEMMA Greatest ==
    ASSUME NEW S, NEW n \in Nat, S \subseteq 0 .. n, S # {}
    PROVE  Max(S) \in S /\ \A y \in S : y <= Max(S)
<1> DEFINE T == {k \in Nat : \A y \in S : y <= k}
<1>1. n \in T
    OBVIOUS
<1>2. PICK k \in T : \A j \in T : ~(j < k)
    <2>1. \E x \in T : \A y \in T : ~(<<y, x>> \in OpToRel(<, Nat))
        BY <1>1, NatLessThanWellFounded, WFMin
    <2> QED
        BY <2>1 DEF OpToRel
<1>3. k \in S
    <2> SUFFICES ASSUME k \notin S PROVE FALSE
        OBVIOUS
    <2>1. PICK y \in S : y <= k
        OBVIOUS
    <2>2. k - 1 \in T
        <3>1. \A x \in S : x <= k - 1
            OBVIOUS
        <3> QED
            BY <2>1, <3>1
    <2> QED
        BY <1>2, <2>2
<1>4. \A y \in S : k >= y
    OBVIOUS
<1> HIDE DEF T
<1>5. \E x \in S : \A y \in S : x >= y
    BY <1>3, <1>4
<1>6. Max(S) \in S /\ \A y \in S : Max(S) >= y
    BY <1>5 DEF Max
<1> QED
    BY <1>6

\* The first page of a set of numbers holds all of them up to its last.
LEMMA FirstPage ==
    ASSUME NEW S, NEW n \in Nat, S \subseteq 0 .. n, NEW p \in Nat,
           NEW a \in FirstOf(S, p), NEW s \in S, s <= a
    PROVE  s \in FirstOf(S, p)
<1> DEFINE below(x) == {b \in S : b < x}
<1>1. IsFiniteSet(below(a)) /\ below(a) \subseteq 0 .. n
    <2>1. IsFiniteSet(0 .. n)
        BY FS_Interval
    <2> QED
        BY <2>1, FS_Subset
<1>2. below(s) \subseteq below(a)
    <2>1. a \in 0 .. n /\ s \in 0 .. n /\ \A b \in S : b \in 0 .. n
        BY DEF FirstOf
    <2>2. ASSUME NEW b \in S, b < s
          PROVE  b < a
        BY <2>1, <2>2
    <2> QED
        BY <2>2
<1>3. Cardinality(below(s)) <= Cardinality(below(a))
    BY <1>1, <1>2, FS_Subset
<1>4. Cardinality(below(a)) < p
    BY DEF FirstOf, Rank
<1>5. Cardinality(below(s)) \in Nat /\ Cardinality(below(a)) \in Nat
    BY <1>1, <1>2, FS_Subset, FS_CardinalityType
<1>6. Cardinality(below(s)) < p
    BY <1>3, <1>4, <1>5
<1> QED
    BY <1>6 DEF FirstOf, Rank

\* Among the numbers of a bounded set each has its own rank, and every rank up
\* to the size of the set is taken.
LEMMA Ranks ==
    ASSUME NEW n \in Nat, NEW S, S \subseteq 0 .. n
    PROVE  /\ IsFiniteSet(S) /\ Cardinality(S) \in Nat
           /\ \A x \in S : Rank(x, S) \in 0 .. Cardinality(S) - 1
           /\ \A x, y \in S : x < y => Rank(x, S) < Rank(y, S)
           /\ \A k \in 0 .. Cardinality(S) - 1 : \E x \in S : Rank(x, S) = k
<1> DEFINE below(x) == {b \in S : b < x}
           N == Cardinality(S)
<1>1. IsFiniteSet(S) /\ N \in Nat
    <2>1. IsFiniteSet(0 .. n)
        BY FS_Interval
    <2> QED
        BY <2>1, FS_Subset, FS_CardinalityType
<1>2. ASSUME NEW T, T \subseteq S
      PROVE  IsFiniteSet(T) /\ Cardinality(T) \in Nat /\ Cardinality(T) <= N
    BY <1>1, <1>2, FS_Subset, FS_CardinalityType
<1>3. ASSUME NEW T, T \subseteq S, NEW U, U \subseteq T, U # T
      PROVE  Cardinality(U) < Cardinality(T)
    <2>1. IsFiniteSet(T) /\ Cardinality(T) \in Nat /\ Cardinality(U) \in Nat
        BY <1>2, <1>3
    <2>2. Cardinality(U) <= Cardinality(T) /\ (Cardinality(U) = Cardinality(T) => U = T)
        BY <1>3, <2>1, FS_Subset
    <2> QED
        BY <1>3, <2>1, <2>2
<1>4. ASSUME NEW x \in S
      PROVE  Rank(x, S) \in 0 .. N - 1
    <2>1. below(x) \subseteq S /\ below(x) # S
        BY <1>4
    <2>2. Cardinality(below(x)) < N /\ Cardinality(below(x)) \in Nat
        BY <1>2, <1>3, <2>1
    <2> QED
        BY <1>1, <2>2 DEF Rank
<1>5. ASSUME NEW x \in S, NEW y \in S, x < y
      PROVE  Rank(x, S) < Rank(y, S)
    <2>1. below(x) \subseteq below(y) /\ x \in below(y) /\ x \notin below(x)
        <3>1. \A b \in S : b \in Int
            OBVIOUS
        <3>2. \A b \in S : b < x => b < y
            BY <1>5, <3>1
        <3>3. ~(x < x)
            BY <3>1
        <3> QED
            BY <1>5, <3>2, <3>3
    <2>2. below(y) \subseteq S
        OBVIOUS
    <2> HIDE DEF below
    <2>3. Cardinality(below(x)) < Cardinality(below(y))
        BY <1>3, <2>1, <2>2
    <2> QED
        BY <2>3 DEF Rank, below
<1> DEFINE f == [x \in S |-> Rank(x, S)]
<1>6. f \in Injection(S, 0 .. N - 1)
    <2>1. f \in [S -> 0 .. N - 1]
        BY <1>4
    <2>2. ASSUME NEW x \in S, NEW y \in S, x # y
          PROVE  f[x] # f[y]
        <3>1. x \in Int /\ y \in Int
            OBVIOUS
        <3>2. Rank(x, S) \in Int /\ Rank(y, S) \in Int
            BY <1>1, <1>4
        <3>3. x < y \/ y < x
            BY <2>2, <3>1
        <3>4. Rank(x, S) # Rank(y, S)
            BY <1>5, <3>2, <3>3
        <3> QED
            BY <3>4
    <2> QED
        BY <2>1, <2>2 DEF Injection, IsInjective
<1>7. f \in Surjection(S, 0 .. N - 1)
    <2>1. IsFiniteSet(0 .. N - 1) /\ Cardinality(0 .. N - 1) = N
        BY <1>1, FS_Interval
    <2> QED
        BY <1>1, <1>6, <2>1, FS_Injection
<1>8. ASSUME NEW k \in 0 .. N - 1
      PROVE  \E x \in S : Rank(x, S) = k
    BY <1>7 DEF Surjection
<1> QED
    BY <1>1, <1>4, <1>5, <1>8

\* ORDER BY lists a set without gaps, in order.
LEMMA AscendingIs ==
    ASSUME NEW n \in Nat, NEW S, S \subseteq 0 .. n
    PROVE  /\ Cardinality(S) \in Nat
           /\ Ascending(S) \in [1 .. Cardinality(S) -> S]
           /\ \A i, j \in 1 .. Cardinality(S) : i < j => Ascending(S)[i] < Ascending(S)[j]
           /\ \A x \in S : \E i \in 1 .. Cardinality(S) : Ascending(S)[i] = x
<1> DEFINE N == Cardinality(S)
           q == Ascending(S)
<1>1. /\ N \in Nat
      /\ \A x \in S : Rank(x, S) \in 0 .. N - 1
      /\ \A x, y \in S : x < y => Rank(x, S) < Rank(y, S)
      /\ \A k \in 0 .. N - 1 : \E x \in S : Rank(x, S) = k
    BY Ranks
<1>2. ASSUME NEW k \in 1 .. N
      PROVE  q[k] \in S /\ Rank(q[k], S) = k - 1
    <2>1. k - 1 \in 0 .. N - 1
        BY <1>1
    <2>2. \E x \in S : Rank(x, S) = k - 1
        BY <1>1, <2>1
    <2>3. q[k] = CHOOSE x \in S : Rank(x, S) = k - 1
        BY DEF Ascending
    <2> QED
        BY <2>2, <2>3
<1>3. q \in [1 .. N -> S]
    <2>1. DOMAIN q = 1 .. N /\ q = [k \in 1 .. N |-> q[k]]
        BY DEF Ascending
    <2> HIDE DEF q, N
    <2> QED
        BY <1>2, <2>1
<1> HIDE DEF q, N
<1>4. ASSUME NEW x \in S, NEW y \in S
      PROVE  /\ x \in Int /\ y \in Int
             /\ Rank(x, S) < Rank(y, S) => x < y
             /\ Rank(x, S) = Rank(y, S) => x = y
    <2>1. x \in Int /\ y \in Int
        OBVIOUS
    <2>2. Rank(x, S) \in Int /\ Rank(y, S) \in Int
        BY <1>1
    <2>3. x < y => Rank(x, S) < Rank(y, S)
        BY <1>1
    <2>4. y < x => Rank(y, S) < Rank(x, S)
        BY <1>1
    <2> QED
        BY <2>1, <2>2, <2>3, <2>4
<1>5. ASSUME NEW i \in 1 .. N, NEW j \in 1 .. N, i < j
      PROVE  q[i] < q[j]
    <2>1. q[i] \in S /\ q[j] \in S /\ Rank(q[i], S) = i - 1 /\ Rank(q[j], S) = j - 1
        BY <1>2
    <2>2. Rank(q[i], S) < Rank(q[j], S)
        BY <1>1, <1>5, <2>1
    <2> QED
        BY <1>4, <2>1, <2>2
<1>6. ASSUME NEW x \in S
      PROVE  \E i \in 1 .. N : q[i] = x
    <2>1. PICK i \in 1 .. N : i - 1 = Rank(x, S)
        <3>1. Rank(x, S) \in 0 .. N - 1
            BY <1>1
        <3>2. PICK k \in 0 .. N - 1 : k = Rank(x, S)
            BY <3>1
        <3>3. k + 1 \in 1 .. N /\ (k + 1) - 1 = k
            BY <1>1
        <3> QED
            BY <3>2, <3>3
    <2>2. q[i] \in S /\ Rank(q[i], S) = Rank(x, S)
        BY <1>2, <2>1
    <2>3. q[i] = x
        BY <1>4, <2>2
    <2> QED
        BY <2>3
<1> QED
    BY <1>1, <1>3, <1>5, <1>6 DEF q, N

\* A page that leaves something out is full.
LEMMA FullPage ==
    ASSUME NEW n \in Nat, NEW S, S \subseteq 0 .. n, NEW p \in Nat,
           NEW x \in S, x \notin FirstOf(S, p)
    PROVE  Cardinality(FirstOf(S, p)) = p
<1> DEFINE N == Cardinality(S)
           T == FirstOf(S, p)
           f == [y \in T |-> Rank(y, S)]
<1>1. /\ N \in Nat /\ IsFiniteSet(S)
      /\ \A y \in S : Rank(y, S) \in 0 .. N - 1
      /\ \A y, z \in S : y < z => Rank(y, S) < Rank(z, S)
      /\ \A k \in 0 .. N - 1 : \E y \in S : Rank(y, S) = k
    BY Ranks
<1>2. p <= N - 1
    <2>1. ~(Rank(x, S) < p)
        BY DEF FirstOf
    <2> QED
        BY <1>1, <2>1
<1>3. T \subseteq S /\ \A y \in S : y \in T <=> Rank(y, S) < p
    BY DEF FirstOf
<1> HIDE DEF N, T
<1>4. f \in [T -> 0 .. p - 1]
    <2>1. \A y \in T : Rank(y, S) \in 0 .. p - 1
        BY <1>1, <1>3
    <2> QED
        BY <2>1
<1>5. f \in Injection(T, 0 .. p - 1)
    <2>1. ASSUME NEW y \in T, NEW z \in T, y # z
          PROVE  f[y] # f[z]
        <3>1. y \in S /\ z \in S /\ y \in Int /\ z \in Int
            BY <1>3
        <3>2. Rank(y, S) \in Int /\ Rank(z, S) \in Int
            BY <1>1, <3>1
        <3>3. y < z \/ z < y
            BY <2>1, <3>1
        <3>4. Rank(y, S) # Rank(z, S)
            BY <1>1, <3>1, <3>2, <3>3
        <3> QED
            BY <3>4
    <2> QED
        BY <1>4, <2>1 DEF Injection, IsInjective
<1>6. f \in Surjection(T, 0 .. p - 1)
    <2>1. ASSUME NEW k \in 0 .. p - 1
          PROVE  \E y \in T : f[y] = k
        <3>1. k \in 0 .. N - 1
            BY <1>1, <1>2
        <3>2. PICK y \in S : Rank(y, S) = k
            BY <1>1, <3>1
        <3>3. y \in T
            BY <1>3, <3>2
        <3> QED
            BY <3>2, <3>3
    <2> QED
        BY <1>4, <2>1 DEF Surjection
<1>7. ExistsBijection(T, 0 .. p - 1)
    BY <1>5, <1>6 DEF ExistsBijection, Bijection
<1>8. IsFiniteSet(T)
    BY <1>1, <1>3, FS_Subset
<1>9. IsFiniteSet(0 .. p - 1) /\ Cardinality(0 .. p - 1) = p
    <2>1. p - 1 \in Int /\ 0 \in Int /\ (0 > p - 1 => p = 0) /\ (p - 1) - 0 + 1 = p
        OBVIOUS
    <2>2. Cardinality(0 .. p - 1) = IF 0 > p - 1 THEN 0 ELSE (p - 1) - 0 + 1
        BY <2>1, FS_Interval
    <2> QED
        BY <2>1, <2>2, FS_Interval
<1> QED
    BY <1>7, <1>8, <1>9, FS_Bijection DEF T

-----------------------------------------------------------------------------
(* Mail *)

Rows == [message : Messages, recipient : Mailboxes]
Contents == [to : SUBSET Mailboxes, body : Bodies]

\* Every delivery up to n of mailbox b was given to a session of b.
Passed(b, n) ==
    \A s \in DOMAIN deliveries : deliveries[s].recipient = b /\ s <= n => s \in given

\* Deliveries come from stored messages, one per recipient.
SentInv ==
    /\ \A s \in DOMAIN deliveries : ~IsNew(deliveries[s].message)
    /\ \A s, t \in DOMAIN deliveries : deliveries[s] = deliveries[t] => s = t
    /\ \A msg \in Messages : ~IsNew(msg) =>
          \A b \in messages[msg].to : \E s \in DOMAIN deliveries :
              deliveries[s] = [message |-> msg, recipient |-> b]

\* No cursor, durable or of a session, has passed a delivery nobody was given.
ReadInv ==
    /\ \A b \in Mailboxes : Passed(b, mailCursor[b])
    /\ \A r \in Readers : Passed(MailboxOf[r], readTo[r])

MailIInv == MailTypeOK /\ SentInv /\ ReadInv

\* What a new message adds to the deliveries: each recipient once.
LEMMA DeliveredIs ==
    ASSUME NEW msg \in Messages, NEW to \in SUBSET Mailboxes
    PROVE  /\ Delivered(msg, to) \in Seq(Rows)
           /\ \A i \in DOMAIN Delivered(msg, to) :
                /\ Delivered(msg, to)[i].message = msg
                /\ Delivered(msg, to)[i].recipient \in to
           /\ \A i, j \in DOMAIN Delivered(msg, to) :
                Delivered(msg, to)[i] = Delivered(msg, to)[j] => i = j
           /\ \A b \in to : \E i \in DOMAIN Delivered(msg, to) :
                Delivered(msg, to)[i] = [message |-> msg, recipient |-> b]
<1> DEFINE order == SetToSeq(to)
           n == Cardinality(to)
           new == [i \in DOMAIN order |-> [message |-> msg, recipient |-> order[i]]]
<1>1. IsFiniteSet(to)
    BY MailAssumption, FS_Subset
<1>2. /\ n \in Nat /\ order \in [1 .. n -> to]
      /\ \A i, j \in 1 .. n : order[i] = order[j] => i = j
      /\ \A x \in to : \E i \in 1 .. n : order[i] = x
    BY <1>1, InSequence
<1> HIDE DEF order, n
<1>3. new = [i \in 1 .. n |-> [message |-> msg, recipient |-> order[i]]]
    BY <1>2
<1>4. \A i \in 1 .. n : /\ new[i] = [message |-> msg, recipient |-> order[i]]
                        /\ new[i].message = msg /\ new[i].recipient = order[i]
                        /\ new[i] \in Rows /\ order[i] \in to
    BY <1>2, <1>3 DEF Rows
<1>5. DOMAIN new = 1 .. n
    BY <1>3
<1>6. Delivered(msg, to) = new
    BY DEF Delivered, order
<1> HIDE DEF new
<1>7. new \in Seq(Rows)
    <2>1. new \in [1 .. n -> Rows]
        BY <1>3, <1>4, <1>5
    <2> QED
        BY <1>2, <2>1
<1>8. \A i, j \in 1 .. n : new[i] = new[j] => i = j
    <2> SUFFICES ASSUME NEW i \in 1 .. n, NEW j \in 1 .. n, new[i] = new[j] PROVE i = j
        OBVIOUS
    <2>1. new[i].recipient = order[i] /\ new[j].recipient = order[j]
        BY <1>4
    <2> QED
        BY <1>2, <2>1
<1>9. \A b \in to : \E i \in 1 .. n : new[i] = [message |-> msg, recipient |-> b]
    BY <1>2, <1>4
<1> QED
    BY <1>4, <1>5, <1>6, <1>7, <1>8, <1>9

\* Appending a new message's deliveries keeps what the tables promise.
LEMMA InsertKeeps ==
    ASSUME MailTypeOK, SentInv, NEW msg \in Messages, NEW to \in SUBSET Mailboxes,
           NEW body \in Bodies, InsertMessage(msg, to, body)
    PROVE  /\ MailTypeOK' /\ SentInv'
           /\ \A m \in Messages : ~IsNew(m) => ~IsNew(m)'
           /\ ~IsNew(msg)'
           /\ Len(deliveries) <= Len(deliveries') /\ Len(deliveries) \in Nat
           /\ \A s \in 1 .. Len(deliveries) : deliveries'[s] = deliveries[s]
           /\ UNCHANGED <<mailCursor, readTo, given>>
<1>1. /\ messages \in [Messages -> Contents \cup {NoMessage}]
      /\ deliveries \in Seq(Rows)
      /\ Len(deliveries) \in Nat /\ DOMAIN deliveries = 1 .. Len(deliveries)
      /\ UNCHANGED <<mailCursor, readTo, given>>
    BY DEF MailTypeOK, Contents, Rows, InsertMessage
<1>2. CASE ~IsNew(msg)
    <2>1. UNCHANGED <<messages, deliveries, mailCursor, readTo, given>>
        BY <1>2 DEF InsertMessage
    <2>2. MailTypeOK'
        BY <2>1 DEF MailTypeOK
    <2>3. SentInv'
        BY <2>1 DEF SentInv, IsNew
    <2>4. \A m \in Messages : ~IsNew(m) => ~IsNew(m)'
        BY <2>1 DEF IsNew
    <2> QED
        BY <1>1, <1>2, <2>1, <2>2, <2>3, <2>4
<1>3. CASE IsNew(msg)
    <2> DEFINE new == Delivered(msg, to)
    <2>1. /\ messages' = [messages EXCEPT ![msg] = [to |-> to, body |-> body]]
          /\ deliveries' = deliveries \o new
        BY <1>3 DEF InsertMessage
    <2>2. /\ new \in Seq(Rows)
          /\ \A i \in DOMAIN new : new[i].message = msg /\ new[i].recipient \in to
          /\ \A i, j \in DOMAIN new : new[i] = new[j] => i = j
          /\ \A b \in to : \E i \in DOMAIN new : new[i] = [message |-> msg, recipient |-> b]
        BY DeliveredIs
    <2> HIDE DEF new
    <2>3. Len(new) \in Nat /\ DOMAIN new = 1 .. Len(new)
        BY <2>2
    <2>4. /\ deliveries' \in Seq(Rows)
          /\ Len(deliveries') = Len(deliveries) + Len(new)
          /\ DOMAIN deliveries' = 1 .. Len(deliveries')
          /\ \A s \in 1 .. Len(deliveries) : deliveries'[s] = deliveries[s]
          /\ \A i \in 1 .. Len(new) : deliveries'[Len(deliveries) + i] = new[i]
        BY <1>1, <2>1, <2>2, <2>3
    <2>5. \A s \in 1 .. Len(deliveries') :
            \/ s \in 1 .. Len(deliveries) /\ deliveries'[s] = deliveries[s]
            \/ \E i \in 1 .. Len(new) : s = Len(deliveries) + i /\ deliveries'[s] = new[i]
        <3> SUFFICES ASSUME NEW s \in 1 .. Len(deliveries'), s \notin 1 .. Len(deliveries)
                     PROVE  \E i \in 1 .. Len(new) :
                                s = Len(deliveries) + i /\ deliveries'[s] = new[i]
            BY <2>4
        <3>1. /\ s - Len(deliveries) \in 1 .. Len(new)
              /\ s = Len(deliveries) + (s - Len(deliveries))
            BY <1>1, <2>3, <2>4
        <3> QED
            BY <2>4, <3>1
    <2>6. /\ [to |-> to, body |-> body] \in Contents
          /\ [to |-> to, body |-> body] # NoMessage
        BY MailAssumption DEF Contents
    <2>7. /\ messages' \in [Messages -> Contents \cup {NoMessage}]
          /\ messages'[msg] = [to |-> to, body |-> body] /\ messages'[msg] # NoMessage
          /\ messages'[msg].to = to
          /\ \A m \in Messages : m # msg => messages'[m] = messages[m]
        BY <1>1, <2>1, <2>6
    <2>8. \A s \in 1 .. Len(deliveries) : /\ deliveries[s].message \in Messages
                                          /\ deliveries[s].message # msg
        <3> SUFFICES ASSUME NEW s \in 1 .. Len(deliveries)
                     PROVE  deliveries[s].message \in Messages /\ deliveries[s].message # msg
            OBVIOUS
        <3>1. deliveries[s] \in Rows /\ ~IsNew(deliveries[s].message)
            BY <1>1 DEF SentInv
        <3> QED
            BY <1>3, <3>1 DEF Rows
    <2>9. ASSUME NEW s \in 1 .. Len(deliveries'), s \notin 1 .. Len(deliveries)
          PROVE  \E i \in 1 .. Len(new) : /\ s = Len(deliveries) + i /\ deliveries'[s] = new[i]
                                          /\ deliveries'[s].message = msg
                                          /\ deliveries'[s].recipient \in to
        <3>1. PICK i \in 1 .. Len(new) : s = Len(deliveries) + i /\ deliveries'[s] = new[i]
            BY <2>5, <2>9
        <3>2. new[i].message = msg /\ new[i].recipient \in to
            BY <2>2, <2>3
        <3> QED
            BY <3>1, <3>2
    <2>10. MailTypeOK'
        <3>1. \A s \in DOMAIN deliveries' :
                deliveries'[s].recipient \in messages'[deliveries'[s].message].to
            <4> SUFFICES
                    ASSUME NEW s \in 1 .. Len(deliveries')
                    PROVE  deliveries'[s].recipient \in messages'[deliveries'[s].message].to
                BY <2>4
            <4>1. CASE s \in 1 .. Len(deliveries)
                BY <1>1, <2>4, <2>7, <2>8, <4>1 DEF MailTypeOK
            <4>2. CASE s \notin 1 .. Len(deliveries)
                BY <2>7, <2>9, <4>2
            <4> QED
                BY <4>1, <4>2
        <3>2. /\ mailCursor' \in [Mailboxes -> 0 .. Len(deliveries')]
              /\ readTo' \in [Readers -> 0 .. Len(deliveries')]
              /\ given' \subseteq DOMAIN deliveries'
            BY <1>1, <2>3, <2>4 DEF MailTypeOK
        <3> QED
            BY <2>4, <2>7, <3>1, <3>2 DEF MailTypeOK, Contents, Rows
    <2>11. SentInv'
        <3>1. \A s \in 1 .. Len(deliveries') : messages'[deliveries'[s].message] # NoMessage
            <4> SUFFICES ASSUME NEW s \in 1 .. Len(deliveries')
                         PROVE  messages'[deliveries'[s].message] # NoMessage
                OBVIOUS
            <4>1. CASE s \in 1 .. Len(deliveries)
                <5>1. messages[deliveries[s].message] # NoMessage
                    BY <1>1, <4>1 DEF SentInv, IsNew
                <5> QED
                    BY <2>4, <2>7, <2>8, <4>1, <5>1
            <4>2. CASE s \notin 1 .. Len(deliveries)
                BY <2>2, <2>3, <2>5, <2>7, <4>2
            <4> QED
                BY <4>1, <4>2
        <3>2. ASSUME NEW s \in 1 .. Len(deliveries'), NEW t \in 1 .. Len(deliveries'),
                     deliveries'[s] = deliveries'[t]
              PROVE  s = t
            <4>1. CASE s \in 1 .. Len(deliveries) /\ t \in 1 .. Len(deliveries)
                BY <1>1, <2>4, <3>2, <4>1 DEF SentInv
            <4>2. CASE s \in 1 .. Len(deliveries) /\ t \notin 1 .. Len(deliveries)
                BY <2>4, <2>8, <2>9, <3>2, <4>2
            <4>3. CASE s \notin 1 .. Len(deliveries) /\ t \in 1 .. Len(deliveries)
                <5>1. deliveries'[s].message = msg
                    BY <2>9, <4>3
                <5>2. deliveries'[t].message # msg
                    BY <2>4, <2>8, <4>3
                <5> QED
                    BY <3>2, <5>1, <5>2
            <4>4. CASE s \notin 1 .. Len(deliveries) /\ t \notin 1 .. Len(deliveries)
                <5>1. PICK i \in 1 .. Len(new) :
                        s = Len(deliveries) + i /\ deliveries'[s] = new[i]
                    BY <2>9, <4>4
                <5>2. PICK j \in 1 .. Len(new) :
                        t = Len(deliveries) + j /\ deliveries'[t] = new[j]
                    BY <2>9, <4>4
                <5>3. i = j
                    BY <2>2, <2>3, <3>2, <5>1, <5>2
                <5> QED
                    BY <5>1, <5>2, <5>3
            <4> QED
                BY <4>1, <4>2, <4>3, <4>4
        <3>3. ASSUME NEW m \in Messages, ~IsNew(m)', NEW b \in messages'[m].to
              PROVE  \E s \in 1 .. Len(deliveries') :
                        deliveries'[s] = [message |-> m, recipient |-> b]
            <4>1. CASE m = msg
                <5>1. PICK i \in 1 .. Len(new) : new[i] = [message |-> msg, recipient |-> b]
                    BY <2>2, <2>3, <2>7, <3>3, <4>1
                <5>2. Len(deliveries) + i \in 1 .. Len(deliveries')
                    BY <1>1, <2>3, <2>4
                <5> QED
                    BY <2>4, <4>1, <5>1, <5>2
            <4>2. CASE m # msg
                <5>1. PICK s \in 1 .. Len(deliveries) :
                        deliveries[s] = [message |-> m, recipient |-> b]
                    BY <1>1, <2>7, <3>3, <4>2 DEF SentInv, IsNew
                <5>2. s \in 1 .. Len(deliveries')
                    BY <1>1, <2>3, <2>4
                <5> QED
                    BY <2>4, <5>1, <5>2
            <4> QED
                BY <4>1, <4>2
        <3> QED
            BY <2>4, <3>1, <3>2, <3>3 DEF SentInv, IsNew
    <2>12. (\A m \in Messages : ~IsNew(m) => ~IsNew(m)') /\ ~IsNew(msg)'
        BY <2>7 DEF IsNew
    <2>13. Len(deliveries) <= Len(deliveries')
        BY <1>1, <2>3, <2>4
    <2> QED
        BY <1>1, <2>4, <2>10, <2>11, <2>12, <2>13
<1> QED
    BY <1>2, <1>3

\* Sending, or sending again, passes no cursor over anything.
LEMMA SendKeeps ==
    ASSUME MailIInv, NEW msg \in Messages, NEW to \in SUBSET Mailboxes,
           NEW body \in Bodies, InsertMessage(msg, to, body)
    PROVE  MailIInv'
<1>1. /\ MailTypeOK' /\ SentInv'
      /\ Len(deliveries) <= Len(deliveries') /\ Len(deliveries) \in Nat
      /\ \A s \in 1 .. Len(deliveries) : deliveries'[s] = deliveries[s]
      /\ UNCHANGED <<mailCursor, readTo, given>>
    BY InsertKeeps DEF MailIInv
<1>2. /\ \A b \in Mailboxes : mailCursor[b] \in 0 .. Len(deliveries)
      /\ \A r \in Readers : readTo[r] \in 0 .. Len(deliveries)
      /\ DOMAIN deliveries = 1 .. Len(deliveries)
      /\ DOMAIN deliveries' = 1 .. Len(deliveries') /\ Len(deliveries') \in Nat
    BY <1>1 DEF MailIInv, MailTypeOK
<1>3. ASSUME NEW b, NEW n \in 0 .. Len(deliveries), Passed(b, n)
      PROVE  Passed(b, n)'
    <2> SUFFICES ASSUME NEW s \in 1 .. Len(deliveries'), deliveries'[s].recipient = b, s <= n
                 PROVE  s \in given
        BY <1>1, <1>2 DEF Passed
    <2>1. s \in 1 .. Len(deliveries)
        BY <1>2
    <2> QED
        BY <1>1, <1>2, <1>3, <2>1 DEF Passed
<1>4. ReadInv'
    <2>1. \A b \in Mailboxes : Passed(b, mailCursor[b])'
        BY <1>1, <1>2, <1>3 DEF MailIInv, ReadInv
    <2>2. \A r \in Readers : Passed(MailboxOf[r], readTo[r])'
        BY <1>1, <1>2, <1>3 DEF MailIInv, ReadInv
    <2> QED
        BY <2>1, <2>2 DEF ReadInv
<1> QED
    BY <1>1, <1>4 DEF MailIInv

\* A page is given whole, and the session's cursor stops at its end: what lies
\* between the position it was read from and its end is on the page.
LEMMA ReadKeeps ==
    ASSUME MailIInv, NEW r \in Readers, NEW after \in 0 .. Len(deliveries), ReadMail(r, after)
    PROVE  MailIInv'
<1> DEFINE b == MailboxOf[r]
           all == {i \in after + 1 .. Len(deliveries) : deliveries[i].recipient = b}
           page == FirstOf(all, MailPage)
           stop == IF page = {} THEN after ELSE Max(page)
<1>1. /\ after = mailCursor[b] \/ after = readTo[r]
      /\ given' = given \cup page
      /\ readTo' = [readTo EXCEPT ![r] = stop]
      /\ UNCHANGED <<messages, deliveries, mailCursor>>
    BY DEF ReadMail, Unread
<1>2. /\ Len(deliveries) \in Nat /\ DOMAIN deliveries = 1 .. Len(deliveries)
      /\ b \in Mailboxes /\ MailPage \in Nat
      /\ readTo \in [Readers -> 0 .. Len(deliveries)]
      /\ given \subseteq 1 .. Len(deliveries)
    BY MailAssumption DEF MailIInv, MailTypeOK
<1>3. /\ page \subseteq all
      /\ all \subseteq 1 .. Len(deliveries) /\ all \subseteq 0 .. Len(deliveries)
    BY <1>2 DEF FirstOf
<1>4. Passed(b, after)
    BY <1>1, <1>2 DEF MailIInv, ReadInv
<1> HIDE DEF page, b
<1>5. /\ stop \in 0 .. Len(deliveries)
      /\ \A s \in all : s <= stop => s \in page
    <2>1. CASE page = {}
        BY <1>2, <2>1
    <2>2. CASE page # {}
        <3>1. Max(page) \in page
            BY <1>2, <1>3, <2>2, Greatest
        <3>2. ASSUME NEW s \in all, s <= Max(page)
              PROVE  s \in page
            <4> HIDE DEF all
            <4> QED
                BY <1>2, <1>3, <3>1, <3>2, FirstPage DEF page
        <3> QED
            BY <1>3, <2>2, <3>1, <3>2
    <2> QED
        BY <2>1, <2>2
<1>6. PICK end \in 0 .. Len(deliveries) : end = stop
    BY <1>5
<1>7. readTo' = [readTo EXCEPT ![r] = end] /\ \A s \in all : s <= end => s \in page
    BY <1>1, <1>5, <1>6
<1> HIDE DEF stop
<1>8. MailTypeOK'
    BY <1>1, <1>2, <1>3, <1>7 DEF MailIInv, MailTypeOK
<1>9. SentInv'
    BY <1>1 DEF MailIInv, SentInv, IsNew
<1>10. ReadInv'
    <2>1. \A c, n : Passed(c, n) => Passed(c, n)'
        BY <1>1 DEF Passed
    <2>2. \A c \in Mailboxes : Passed(c, mailCursor[c])'
        BY <1>1, <2>1 DEF MailIInv, ReadInv
    <2>3. Passed(b, end)'
        <3> SUFFICES ASSUME NEW s \in 1 .. Len(deliveries), deliveries[s].recipient = b,
                            s <= end
                     PROVE  s \in given'
            BY <1>1, <1>2 DEF Passed
        <3>1. CASE s <= after
            BY <1>1, <1>2, <1>4, <3>1 DEF Passed
        <3>2. CASE ~(s <= after)
            <4>1. s \in all
                BY <1>2, <3>2
            <4> QED
                BY <1>1, <1>7, <4>1
        <3> QED
            BY <3>1, <3>2
    <2>4. ASSUME NEW q \in Readers
          PROVE  Passed(MailboxOf[q], readTo[q])'
        <3>1. CASE q = r
            BY <1>2, <1>7, <2>3, <3>1 DEF b
        <3>2. CASE q # r
            BY <1>2, <1>7, <2>1, <3>2 DEF MailIInv, ReadInv
        <3> QED
            BY <3>1, <3>2
    <2> QED
        BY <2>2, <2>4 DEF ReadInv
<1> QED
    BY <1>8, <1>9, <1>10 DEF MailIInv

\* A mark moves the mailbox's cursor to where the session stood, never back.
LEMMA MarkKeeps ==
    ASSUME MailIInv, NEW r \in Readers, MarkMailRead(r)
    PROVE  MailIInv'
<1> DEFINE b == MailboxOf[r]
<1>1. /\ mailCursor' = [mailCursor EXCEPT ![b] = Marked(b, readTo[r])]
      /\ UNCHANGED <<messages, deliveries, readTo, given>>
    BY DEF MarkMailRead
<1>2. /\ b \in Mailboxes /\ Len(deliveries) \in Nat
      /\ mailCursor \in [Mailboxes -> 0 .. Len(deliveries)]
      /\ readTo[r] \in 0 .. Len(deliveries)
    BY MailAssumption DEF MailIInv, MailTypeOK
<1>3. Marked(b, readTo[r]) \in {mailCursor[b], readTo[r]}
    <2>1. Max({mailCursor[b], readTo[r]}) \in {mailCursor[b], readTo[r]}
        <3>1. {mailCursor[b], readTo[r]} \subseteq 0 .. Len(deliveries)
            BY <1>2
        <3> QED
            BY <1>2, <3>1, Greatest
    <2> QED
        BY <2>1 DEF Marked
<1>4. MailTypeOK'
    BY <1>1, <1>2, <1>3 DEF MailIInv, MailTypeOK
<1>5. SentInv'
    BY <1>1 DEF MailIInv, SentInv, IsNew
<1>6. ReadInv'
    <2>1. \A c, n : Passed(c, n) => Passed(c, n)'
        BY <1>1 DEF Passed
    <2>2. Passed(b, mailCursor[b]) /\ Passed(b, readTo[r])
        BY <1>2 DEF MailIInv, ReadInv
    <2>3. \A c \in Mailboxes : Passed(c, mailCursor'[c])
        BY <1>1, <1>2, <1>3, <2>2 DEF MailIInv, ReadInv
    <2>4. \A c \in Mailboxes : Passed(c, mailCursor[c])'
        BY <1>1, <2>3 DEF Passed
    <2>5. \A q \in Readers : Passed(MailboxOf[q], readTo[q])'
        BY <1>1, <2>1 DEF MailIInv, ReadInv
    <2> QED
        BY <2>4, <2>5 DEF ReadInv
<1> QED
    BY <1>4, <1>5, <1>6 DEF MailIInv

LEMMA NewSessionKeeps ==
    ASSUME MailIInv, NEW r \in Readers, NewSession(r)
    PROVE  MailIInv'
<1>1. /\ readTo' = [readTo EXCEPT ![r] = 0]
      /\ UNCHANGED <<messages, deliveries, mailCursor, given>>
    BY DEF NewSession
<1>2. /\ Len(deliveries) \in Nat /\ DOMAIN deliveries = 1 .. Len(deliveries)
      /\ readTo \in [Readers -> 0 .. Len(deliveries)]
    BY DEF MailIInv, MailTypeOK
<1>3. MailTypeOK'
    BY <1>1, <1>2 DEF MailIInv, MailTypeOK
<1>4. SentInv'
    BY <1>1 DEF MailIInv, SentInv, IsNew
<1>5. ReadInv'
    <2>1. \A c \in Mailboxes : Passed(c, mailCursor[c])'
        BY <1>1 DEF MailIInv, ReadInv, Passed
    <2>2. ASSUME NEW q \in Readers
          PROVE  Passed(MailboxOf[q], readTo[q])'
        BY <1>1, <1>2 DEF MailIInv, ReadInv, Passed
    <2> QED
        BY <2>1, <2>2 DEF ReadInv
<1> QED
    BY <1>3, <1>4, <1>5 DEF MailIInv

\* Mail's invariant is kept by everything senders and sessions do.
LEMMA MailNextKeeps ==
    ASSUME MailIInv, [MailNext]_mailVars
    PROVE  MailIInv'
<1>1. CASE MailNext
    BY <1>1, SendKeeps, ReadKeeps, MarkKeeps, NewSessionKeeps DEF MailNext, MailReads, Send
<1>2. CASE UNCHANGED mailVars
    BY <1>2 DEF mailVars, MailIInv, MailTypeOK, SentInv, ReadInv, IsNew, Passed
<1> QED
    BY <1>1, <1>2

\* What the invariant says of each message: its deliveries are its recipients,
\* each once.
LEMMA MailIInvImplies ==
    ASSUME MailIInv
    PROVE  NoMailLost
<1>1. ASSUME NEW msg \in Messages, messages[msg] # NoMessage, NEW b \in Mailboxes
      PROVE  Cardinality({s \in DOMAIN deliveries :
                            deliveries[s] = [message |-> msg, recipient |-> b]})
             = IF b \in messages[msg].to THEN 1 ELSE 0
    <2> DEFINE row == [message |-> msg, recipient |-> b]
               at == {s \in DOMAIN deliveries : deliveries[s] = row}
    <2>1. row.message = msg /\ row.recipient = b
        OBVIOUS
    <2> HIDE DEF row
    <2>2. CASE b \in messages[msg].to
        <3>1. PICK s \in DOMAIN deliveries : deliveries[s] = row
            BY <1>1, <2>2 DEF MailIInv, SentInv, IsNew, row
        <3>2. at = {s}
            BY <3>1 DEF MailIInv, SentInv
        <3> QED
            BY <2>2, <3>2, FS_Singleton DEF row
    <2>3. CASE b \notin messages[msg].to
        <3>1. at = {}
            BY <2>1, <2>3 DEF MailIInv, MailTypeOK
        <3> QED
            BY <2>3, <3>1, FS_EmptySet DEF row
    <2> QED
        BY <2>2, <2>3
<1>2. MailedOnce
    BY <1>1 DEF MailedOnce
<1>3. ReadBeforeMarked
    <2> SUFFICES ASSUME NEW s \in DOMAIN deliveries, s <= mailCursor[deliveries[s].recipient]
                 PROVE  s \in given
        BY DEF ReadBeforeMarked
    <2>1. deliveries[s].recipient \in Mailboxes
        <3>1. deliveries \in Seq(Rows)
            BY DEF MailIInv, MailTypeOK, Rows
        <3>2. deliveries[s] \in Rows
            BY <3>1
        <3> QED
            BY <3>2 DEF Rows
    <2> QED
        BY <2>1 DEF MailIInv, ReadInv, Passed
<1> QED
    BY <1>2, <1>3 DEF NoMailLost, MailIInv

\* No mail is lost and none arrives twice, for any number of messages, senders'
\* retries, mailboxes, sessions sharing one and any page size: the cursor of a
\* mailbox passes only what some session was given (insert_message, read_mail,
\* mark_mail_read).
THEOREM NoMailLostHolds == MailSpec => []NoMailLost
<1>1. MailInit => MailIInv
    <2> SUFFICES ASSUME MailInit PROVE MailIInv
        OBVIOUS
    <2>1. MailTypeOK
        BY DEF MailInit, MailTypeOK
    <2>2. SentInv /\ ReadInv
        BY DEF MailInit, SentInv, ReadInv, Passed, IsNew
    <2> QED
        BY <2>1, <2>2 DEF MailIInv
<1>2. MailIInv /\ [MailNext]_mailVars => MailIInv'
    BY MailNextKeeps
<1>3. MailIInv => NoMailLost
    BY MailIInvImplies
<1> QED
    BY <1>1, <1>2, <1>3, PTL DEF MailSpec

-----------------------------------------------------------------------------
(* The inbox: its invariant *)

RequestRows ==
    [state : {"absent", "open", "answered", "closed"}, revision : Nat,
     chair : Chairs \cup {None}, answer : Answers \cup {None}]
OutboxRows ==
    [request : Requests \cup {None}, chair : Chairs \cup {None},
     state : {"absent", "queued", "offered", "acknowledged"},
     attempts : 0 .. MaxAttempts, tooLarge : BOOLEAN]
HookRows ==
    [at : {"idle", "mark", "offer", "print"}, chair : Chairs \cup {None},
     page : SUBSET [answer : Answers, attempts : 0 .. MaxAttempts], marks : SUBSET Answers]

\* A request's revision counts what happened to it: opened, answered, closed.
RequestOK(row) ==
    /\ row.state = "absent" => row.revision = 0 /\ row.answer = None
    /\ row.state # "absent" => row.chair \in Chairs
    /\ row.state = "open" => row.revision = 1 /\ row.answer = None
    /\ row.state = "answered" => row.revision = 2
    /\ row.state = "closed" => row.revision \in 2 .. 3

RequestInv == \A r \in Requests : RequestOK(requests[r])

\* A row of the outbox has its target from the start, and is queued unoffered.
OutboxInv ==
    \A a \in Answers :
        /\ outbox[a].state = "absent" => outbox[a].chair = None
        /\ outbox[a].state # "absent" =>
              outbox[a].request \in Requests /\ outbox[a].chair \in Chairs
        /\ outbox[a].state = "queued" => outbox[a].attempts = 0

\* A hook that is about to print holds answers of its own chair only.
HookInv ==
    \A h \in Hooks :
        /\ hook[h].at # "idle" => hook[h].chair \in Chairs
        /\ hook[h].at = "print" =>
              \A cand \in hook[h].page : outbox[cand.answer].chair = hook[h].chair

CountInv == IsFiniteSet(receipts) /\ OncePerOperation

IInv ==
    /\ TypeOK
    /\ SentInv
    /\ RequestInv
    /\ OutboxInv
    /\ OneAnswer
    /\ HookInv
    /\ OnlyToTarget
    /\ CountInv
-----------------------------------------------------------------------------
(* What the operations share *)

\* The parts of the invariant about requests, by what is known of each row: it
\* stays, or is a new revision.
LEMMA SavedKeeps ==
    ASSUME TypeOK, RequestInv, NEW new \in [Requests -> RequestRows],
           requests' = new, Saved(new),
           \A r \in Requests : \/ new[r] = requests[r]
                               \/ /\ new[r].state # "absent" /\ RequestOK(new[r])
                                  /\ new[r].revision = requests[r].revision + 1
    PROVE  /\ requests' \in [Requests -> RequestRows]
           /\ history' \in [Requests -> Seq({"open", "answered", "closed"})]
           /\ \A r \in Requests : requests'[r].revision = Len(history'[r])
           /\ RequestInv'
<1> DEFINE H == {"open", "answered", "closed"}
<1>1. /\ history \in [Requests -> Seq(H)]
      /\ \A r \in Requests : requests[r].revision = Len(history[r])
    BY DEF TypeOK
<1>2. history' = [r \in Requests |-> IF new[r] = requests[r] THEN history[r]
                                     ELSE Append(history[r], new[r].state)]
    BY DEF Saved
<1>3. ASSUME NEW r \in Requests
      PROVE  history'[r] \in Seq(H) /\ requests'[r].revision = Len(history'[r])
    <2>1. CASE new[r] = requests[r]
        BY <1>1, <1>2, <2>1
    <2>2. CASE new[r] # requests[r]
        <3>1. history'[r] = Append(history[r], new[r].state)
            BY <1>2, <2>2
        <3>2. new[r].state \in H /\ new[r].revision = requests[r].revision + 1
            BY <2>2 DEF RequestRows
        <3>3. history[r] \in Seq(H)
            BY <1>1
        <3>4. Len(history'[r]) = Len(history[r]) + 1 /\ history'[r] \in Seq(H)
            BY <3>1, <3>2, <3>3
        <3> QED
            BY <1>1, <3>2, <3>4
    <2> QED
        BY <2>1, <2>2
<1>4. history' \in [Requests -> Seq(H)]
    BY <1>2, <1>3
<1>5. RequestInv'
    BY DEF RequestInv
<1> QED
    BY <1>3, <1>4, <1>5

\* A new revision of an existing row keeps its chair and its answer.
LEMMA RevisedIs ==
    ASSUME NEW r \in Requests, requests[r] \in RequestRows,
           NEW state \in {"open", "answered", "closed"}
    PROVE  /\ Revised(r, state) \in RequestRows
           /\ Revised(r, state).state = state
           /\ Revised(r, state).revision = requests[r].revision + 1
           /\ Revised(r, state).chair = requests[r].chair
           /\ Revised(r, state).answer = requests[r].answer
<1> DEFINE row == requests[r]
<1>1. Revised(r, state) = [row EXCEPT !.state = state, !.revision = row.revision + 1]
    BY DEF Revised, RequestRows
<1>2. row \in RequestRows
    OBVIOUS
<1> HIDE DEF row
<1>3. [row EXCEPT !.state = state, !.revision = row.revision + 1] \in RequestRows
    <2>1. PICK n \in Nat : n = row.revision + 1
        BY <1>2 DEF RequestRows
    <2>2. state \in {"absent", "open", "answered", "closed"}
        OBVIOUS
    <2>3. [row EXCEPT !.state = state, !.revision = n] \in RequestRows
        BY <1>2, <2>2 DEF RequestRows
    <2> QED
        BY <2>1, <2>3
<1>4. LET next == [row EXCEPT !.state = state, !.revision = row.revision + 1] IN
      /\ next.state = state /\ next.revision = row.revision + 1
      /\ next.chair = row.chair /\ next.answer = row.answer
    BY <1>2 DEF RequestRows
<1> QED
    BY <1>1, <1>3, <1>4 DEF row

\* An operation that was not replayed counts once more, with its receipt.
LEMMA OperationCounts ==
    ASSUME IInv, NEW o \in Called, Operation(o)
    PROVE  receipts' \subseteq Ops /\ applied' \in Nat /\ CountInv'
<1>1. /\ o \notin receipts /\ receipts' = receipts \cup {o} /\ applied' = applied + 1
      /\ IsFiniteSet(receipts) /\ applied = Cardinality(receipts)
      /\ receipts \subseteq Ops /\ applied \in Nat
    BY DEF Operation, Replayed, IInv, CountInv, OncePerOperation, TypeOK
<1>2. o \in Ops
    BY <1>1 DEF Called, FirstOf
<1>3. IsFiniteSet(receipts') /\ Cardinality(receipts') = Cardinality(receipts) + 1
    BY <1>1, FS_AddElement
<1> QED
    BY <1>1, <1>2, <1>3 DEF CountInv, OncePerOperation

\* A step about the requests alone, which keeps the answers they have.
LEMMA RequestStep ==
    ASSUME IInv, UNCHANGED <<mailVars, outbox, elapsed, hook, received>>,
           requests' \in [Requests -> RequestRows],
           history' \in [Requests -> Seq({"open", "answered", "closed"})],
           \A r \in Requests : requests'[r].revision = Len(history'[r]),
           RequestInv', receipts' \subseteq Ops, applied' \in Nat, CountInv',
           \A r \in Requests : requests[r].answer # None =>
              requests'[r].answer = requests[r].answer /\ requests'[r].chair = requests[r].chair
    PROVE  IInv'
<1>1. UNCHANGED <<messages, deliveries, mailCursor, readTo, given>>
    BY DEF mailVars
<1>2. MailTypeOK' /\ SentInv'
    BY <1>1 DEF IInv, TypeOK, MailTypeOK, SentInv, IsNew
<1>3. TypeOK'
    BY <1>1, <1>2 DEF IInv, TypeOK, RequestRows, IsNew
<1>4. OneAnswer'
    <2> SUFFICES ASSUME NEW a \in Answers, outbox[a].state # "absent"
                 PROVE  /\ requests'[outbox[a].request].answer = a
                        /\ requests'[outbox[a].request].chair = outbox[a].chair
        BY DEF OneAnswer
    <2>1. /\ outbox[a].request \in Requests
          /\ requests[outbox[a].request].answer = a
          /\ requests[outbox[a].request].chair = outbox[a].chair
        BY DEF IInv, OutboxInv, OneAnswer
    <2>2. a # None
        BY InboxAssumption
    <2> QED
        BY <2>1, <2>2
<1>5. OutboxInv' /\ HookInv' /\ OnlyToTarget'
    BY DEF IInv, OutboxInv, HookInv, OnlyToTarget
<1> QED
    BY <1>2, <1>3, <1>4, <1>5 DEF IInv

\* A row of the outbox moves on, for the same request and target.
MovesOn(a) ==
    /\ outbox'[a].state = "absent" <=> outbox[a].state = "absent"
    /\ outbox'[a].request = outbox[a].request
    /\ outbox'[a].chair = outbox[a].chair
    /\ outbox'[a].state = "queued" =>
          outbox[a].state = "queued" /\ outbox'[a].attempts = outbox[a].attempts

\* A step about the outbox and the hooks: every row moves on and every hook and
\* session has answers of its own chair.
LEMMA OutboxStep ==
    ASSUME IInv, UNCHANGED <<mailVars, requests, history>>,
           receipts' \subseteq Ops, applied' \in Nat, CountInv', elapsed' \subseteq Timed,
           outbox' \in [Answers -> OutboxRows], \A a \in Answers : MovesOn(a),
           hook' \in [Hooks -> HookRows], received' \in [Chairs -> SUBSET Answers],
           \A h \in Hooks :
              /\ hook'[h].at # "idle" => hook'[h].chair \in Chairs
              /\ hook'[h].at = "print" =>
                    \A cand \in hook'[h].page : outbox[cand.answer].chair = hook'[h].chair,
           \A c \in Chairs : \A a \in received'[c] : outbox[a].chair = c
    PROVE  IInv'
<1>1. UNCHANGED <<messages, deliveries, mailCursor, readTo, given>>
    BY DEF mailVars
<1>2. MailTypeOK' /\ SentInv'
    BY <1>1 DEF IInv, TypeOK, MailTypeOK, SentInv, IsNew
<1>3. RequestInv'
    BY DEF IInv, RequestInv, RequestOK
<1>4. TypeOK'
    <2>1. \A a \in Answers : outbox'[a].state # "absent" => ~IsNew(a)'
        BY <1>1 DEF IInv, TypeOK, IsNew, MovesOn
    <2>2. /\ requests' \in [Requests -> RequestRows]
          /\ history' \in [Requests -> Seq({"open", "answered", "closed"})]
          /\ \A r \in Requests : requests'[r].revision = Len(history'[r])
        BY DEF IInv, TypeOK, RequestRows
    <2> QED
        BY <1>2, <2>1, <2>2 DEF TypeOK, RequestRows, OutboxRows, HookRows
<1>5. OutboxInv'
    BY DEF IInv, OutboxInv, MovesOn
<1>6. OneAnswer'
    BY DEF IInv, OneAnswer, MovesOn
<1>7. HookInv'
    <2> SUFFICES ASSUME NEW h \in Hooks, hook'[h].at = "print", NEW cand \in hook'[h].page
                 PROVE  outbox'[cand.answer].chair = hook'[h].chair
        BY DEF HookInv
    <2>1. cand.answer \in Answers
        <3>1. hook'[h] \in HookRows
            OBVIOUS
        <3>2. cand \in [answer : Answers, attempts : 0 .. MaxAttempts]
            BY <3>1 DEF HookRows
        <3> QED
            BY <3>2
    <2> QED
        BY <2>1 DEF MovesOn
<1>8. OnlyToTarget'
    BY DEF OnlyToTarget, MovesOn
<1> QED
    BY <1>2, <1>3, <1>4, <1>5, <1>6, <1>7, <1>8 DEF IInv

-----------------------------------------------------------------------------
(* One lemma per operation and step *)

LEMMA AskKeeps ==
    ASSUME IInv, NEW o \in Called, NEW r \in Requests, NEW c \in Chairs,
           NEW prior \in Requests \cup {None}, Ask(o, r, c, prior)
    PROVE  IInv'
<1> DEFINE opened == [NoRequest EXCEPT !.state = "open", !.revision = 1, !.chair = c]
           new == [q \in Requests |-> CASE q = r -> opened
                                        [] q = prior -> Revised(q, "closed")
                                        [] OTHER -> requests[q]]
<1>1. /\ Operation(o) /\ ~Exists(r)
      /\ prior # None => MayClose(prior) /\ requests[prior].chair = c
      /\ requests' = new /\ Saved(new)
      /\ UNCHANGED <<mailVars, outbox, elapsed, hook, received>>
    BY DEF Ask
<1>2. receipts' \subseteq Ops /\ applied' \in Nat /\ CountInv'
    BY <1>1, OperationCounts
<1>3. requests \in [Requests -> RequestRows] /\ TypeOK /\ RequestInv
    BY DEF IInv, TypeOK, RequestRows
<1>4. /\ opened \in RequestRows /\ RequestOK(opened)
      /\ opened.state = "open" /\ opened.revision = 1
    BY DEF NoRequest, RequestRows, RequestOK
<1>5. requests[r].state = "absent" /\ requests[r].revision = 0 /\ requests[r].answer = None
    BY <1>1, <1>3 DEF Exists, RequestInv, RequestOK
<1>6. ASSUME prior \in Requests
      PROVE  /\ prior # r /\ Revised(prior, "closed") \in RequestRows
             /\ RequestOK(Revised(prior, "closed"))
             /\ Revised(prior, "closed").state = "closed"
             /\ Revised(prior, "closed").revision = requests[prior].revision + 1
             /\ Revised(prior, "closed").chair = requests[prior].chair
             /\ Revised(prior, "closed").answer = requests[prior].answer
    <2>1. prior # None
        BY <1>6, InboxAssumption
    <2>2. requests[prior].state \in {"open", "answered"} /\ requests[prior].chair = c
        BY <1>1, <1>3, <1>6, <2>1 DEF MayClose, Exists, RequestRows
    <2>3. requests[prior].revision \in 1 .. 2
        BY <1>3, <1>6, <2>2 DEF RequestInv, RequestOK
    <2>4. /\ Revised(prior, "closed") \in RequestRows
          /\ Revised(prior, "closed").state = "closed"
          /\ Revised(prior, "closed").revision = requests[prior].revision + 1
          /\ Revised(prior, "closed").chair = requests[prior].chair
          /\ Revised(prior, "closed").answer = requests[prior].answer
        BY <1>3, <1>6, RevisedIs
    <2>5. RequestOK(Revised(prior, "closed"))
        BY <2>2, <2>3, <2>4 DEF RequestOK
    <2> QED
        BY <1>5, <2>2, <2>4, <2>5
<1> HIDE DEF opened
<1>7. \A q \in Requests : \/ q = r /\ new[q] = opened
                          \/ q # r /\ q = prior /\ new[q] = Revised(q, "closed")
                          \/ q # r /\ q # prior /\ new[q] = requests[q]
    <2> SUFFICES ASSUME NEW q \in Requests
                 PROVE  \/ q = r /\ new[q] = opened
                        \/ q # r /\ q = prior /\ new[q] = Revised(q, "closed")
                        \/ q # r /\ q # prior /\ new[q] = requests[q]
        OBVIOUS
    <2>1. CASE q = r
        BY <1>6, <2>1
    <2>2. CASE q # r /\ q = prior
        BY <2>2
    <2>3. CASE q # r /\ q # prior
        BY <2>3
    <2> QED
        BY <2>1, <2>2, <2>3
<1>8. DOMAIN new = Requests /\ new = [q \in Requests |-> new[q]]
    OBVIOUS
<1> HIDE DEF new
<1>9. new \in [Requests -> RequestRows]
    <2>1. \A q \in Requests : new[q] \in RequestRows
        BY <1>3, <1>4, <1>6, <1>7
    <2> QED
        BY <1>8, <2>1
<1>10. \A q \in Requests : \/ new[q] = requests[q]
                           \/ /\ new[q].state # "absent" /\ RequestOK(new[q])
                              /\ new[q].revision = requests[q].revision + 1
    BY <1>4, <1>5, <1>6, <1>7
<1>11. /\ requests' \in [Requests -> RequestRows]
       /\ history' \in [Requests -> Seq({"open", "answered", "closed"})]
       /\ \A q \in Requests : requests'[q].revision = Len(history'[q])
       /\ RequestInv'
    BY <1>1, <1>3, <1>9, <1>10, SavedKeeps
<1>12. \A q \in Requests : requests[q].answer # None =>
         requests'[q].answer = requests[q].answer /\ requests'[q].chair = requests[q].chair
    BY <1>1, <1>5, <1>6, <1>7
<1> QED
    BY <1>1, <1>2, <1>11, <1>12, RequestStep

LEMMA CloseKeeps ==
    ASSUME IInv, NEW o \in Called, NEW r \in Requests, NEW revision, NEW actor,
           Close(o, r, revision, actor)
    PROVE  IInv'
<1> DEFINE resolved == Revised(r, "closed")
           new == [requests EXCEPT ![r] = resolved]
<1>1. /\ Operation(o) /\ MayClose(r) /\ requests' = new /\ Saved(new)
      /\ UNCHANGED <<mailVars, outbox, elapsed, hook, received>>
    BY DEF Close
<1>2. receipts' \subseteq Ops /\ applied' \in Nat /\ CountInv'
    BY <1>1, OperationCounts
<1>3. requests \in [Requests -> RequestRows] /\ TypeOK /\ RequestInv
    BY DEF IInv, TypeOK, RequestRows
<1>4. /\ resolved \in RequestRows /\ resolved.state = "closed"
      /\ resolved.revision = requests[r].revision + 1
      /\ resolved.chair = requests[r].chair /\ resolved.answer = requests[r].answer
    BY <1>3, RevisedIs
<1>5. requests[r].state \in {"open", "answered"}
    BY <1>1, <1>3 DEF MayClose, Exists, RequestRows
<1>6. requests[r].revision \in 1 .. 2 /\ requests[r].chair \in Chairs
    BY <1>3, <1>5 DEF RequestInv, RequestOK
<1> HIDE DEF resolved
<1>7. RequestOK(resolved)
    BY <1>4, <1>6 DEF RequestOK
<1>8. /\ new \in [Requests -> RequestRows] /\ new[r] = resolved
      /\ \A q \in Requests : q # r => new[q] = requests[q]
    BY <1>3, <1>4
<1> HIDE DEF new
<1>9. \A q \in Requests : \/ new[q] = requests[q]
                          \/ /\ new[q].state # "absent" /\ RequestOK(new[q])
                             /\ new[q].revision = requests[q].revision + 1
    BY <1>4, <1>7, <1>8
<1>10. /\ requests' \in [Requests -> RequestRows]
       /\ history' \in [Requests -> Seq({"open", "answered", "closed"})]
       /\ \A q \in Requests : requests'[q].revision = Len(history'[q])
       /\ RequestInv'
    BY <1>1, <1>3, <1>8, <1>9, SavedKeeps
<1>11. \A q \in Requests : requests[q].answer # None =>
         requests'[q].answer = requests[q].answer /\ requests'[q].chair = requests[q].chair
    BY <1>1, <1>4, <1>8
<1> QED
    BY <1>1, <1>2, <1>10, <1>11, RequestStep

LEMMA AnswerKeeps ==
    ASSUME IInv, NEW o \in Called, NEW r \in Requests, NEW revision, NEW a \in Answers,
           Answer(o, r, revision, a)
    PROVE  IInv'
<1> DEFINE answered == [Revised(r, "answered") EXCEPT !.answer = a]
           new == [requests EXCEPT ![r] = answered]
           row == [NoAnswer EXCEPT !.request = r, !.chair = requests[r].chair,
                                   !.state = "queued"]
<1>1. /\ Operation(o) /\ outbox[a].state = "absent" /\ IsOpen(r)
      /\ requests' = new /\ Saved(new)
      /\ outbox' = [outbox EXCEPT ![a] = row]
      /\ UNCHANGED <<elapsed, hook, received>>
    BY DEF Answer
<1>2. PICK body \in Bodies : InsertMessage(a, {MailboxOf[requests[r].chair]}, body)
    BY DEF Answer
<1>3. receipts' \subseteq Ops /\ applied' \in Nat /\ CountInv'
    BY <1>1, OperationCounts
<1>4. /\ requests \in [Requests -> RequestRows] /\ outbox \in [Answers -> OutboxRows]
      /\ TypeOK /\ MailTypeOK /\ SentInv /\ RequestInv /\ OutboxInv /\ OneAnswer
      /\ elapsed \subseteq Timed /\ hook \in [Hooks -> HookRows]
      /\ received \in [Chairs -> SUBSET Answers]
    BY DEF IInv, TypeOK, RequestRows, OutboxRows, HookRows
<1>5. /\ requests[r].state = "open" /\ requests[r].revision = 1
      /\ requests[r].answer = None /\ requests[r].chair \in Chairs
    BY <1>1, <1>4 DEF IsOpen, RequestInv, RequestOK
<1>6. a \in Messages /\ MailboxOf[requests[r].chair] \in Mailboxes /\ None \notin Chairs
      /\ None \notin Answers
    BY <1>5, InboxAssumption
<1>7. /\ MailTypeOK' /\ SentInv' /\ ~IsNew(a)'
      /\ \A b \in Answers : ~IsNew(b) => ~IsNew(b)'
    <2>1. Answers \subseteq Messages
        BY InboxAssumption
    <2> QED
        BY <1>2, <1>4, <1>6, <2>1, InsertKeeps
<1>8. /\ answered \in RequestRows /\ answered.state = "answered" /\ answered.revision = 2
      /\ answered.chair = requests[r].chair /\ answered.answer = a
    <2> DEFINE base == Revised(r, "answered")
    <2>1. /\ base \in RequestRows /\ base.state = "answered" /\ base.chair = requests[r].chair
          /\ base.revision = 2
        <3>1. /\ base \in RequestRows /\ base.state = "answered"
              /\ base.chair = requests[r].chair
              /\ base.revision = requests[r].revision + 1
            BY <1>4, RevisedIs
        <3> HIDE DEF base
        <3> QED
            BY <1>5, <3>1
    <2> HIDE DEF base
    <2>2. /\ [base EXCEPT !.answer = a] \in RequestRows
          /\ [base EXCEPT !.answer = a].state = "answered"
          /\ [base EXCEPT !.answer = a].revision = 2
          /\ [base EXCEPT !.answer = a].chair = requests[r].chair
          /\ [base EXCEPT !.answer = a].answer = a
        BY <2>1 DEF RequestRows
    <2> QED
        BY <2>2 DEF base
<1>9. /\ row \in OutboxRows /\ row.state = "queued" /\ row.attempts = 0
      /\ row.request = r /\ row.chair = requests[r].chair
    <2>1. /\ NoAnswer \in OutboxRows /\ NoAnswer.attempts = 0
        <3>1. 0 \in 0 .. MaxAttempts
            BY InboxAssumption
        <3> QED
            BY <3>1 DEF NoAnswer, OutboxRows
    <2>2. PICK c \in Chairs : c = requests[r].chair
        BY <1>5
    <2>3. row = [NoAnswer EXCEPT !.request = r, !.chair = c, !.state = "queued"]
        BY <2>2
    <2> HIDE DEF row
    <2>4. /\ row \in OutboxRows /\ row.state = "queued" /\ row.attempts = 0
          /\ row.request = r /\ row.chair = c
        BY <2>1, <2>3 DEF OutboxRows
    <2> QED
        BY <2>2, <2>4
<1> HIDE DEF answered, row
<1>10. /\ new \in [Requests -> RequestRows] /\ new[r] = answered
       /\ \A q \in Requests : q # r => new[q] = requests[q]
    BY <1>4, <1>8
<1> HIDE DEF new
<1>11. \A q \in Requests : \/ new[q] = requests[q]
                           \/ /\ new[q].state # "absent" /\ RequestOK(new[q])
                              /\ new[q].revision = requests[q].revision + 1
    <2>1. RequestOK(answered)
        BY <1>5, <1>8 DEF RequestOK
    <2> QED
        BY <1>5, <1>8, <1>10, <2>1
<1>12. /\ requests' \in [Requests -> RequestRows]
       /\ history' \in [Requests -> Seq({"open", "answered", "closed"})]
       /\ \A q \in Requests : requests'[q].revision = Len(history'[q])
       /\ RequestInv'
    BY <1>1, <1>4, <1>10, <1>11, SavedKeeps
<1>13. /\ outbox' \in [Answers -> OutboxRows] /\ outbox'[a] = row
       /\ \A b \in Answers : b # a => outbox'[b] = outbox[b]
    BY <1>1, <1>4, <1>9
<1>14. TypeOK'
    <2>1. \A b \in Answers : outbox'[b].state # "absent" => ~IsNew(b)'
        BY <1>4, <1>7, <1>13 DEF TypeOK
    <2>2. /\ elapsed' \subseteq Timed /\ hook' \in [Hooks -> HookRows]
          /\ received' \in [Chairs -> SUBSET Answers]
        BY <1>1, <1>4
    <2> QED
        BY <1>3, <1>7, <1>12, <1>13, <2>1, <2>2 DEF TypeOK, RequestRows, OutboxRows, HookRows
<1>15. OutboxInv'
    BY <1>4, <1>5, <1>9, <1>13 DEF OutboxInv
<1>16. OneAnswer'
    <2> SUFFICES ASSUME NEW b \in Answers, outbox'[b].state # "absent"
                 PROVE  /\ requests'[outbox'[b].request].answer = b
                        /\ requests'[outbox'[b].request].chair = outbox'[b].chair
        BY DEF OneAnswer
    <2>1. CASE b = a
        BY <1>1, <1>8, <1>9, <1>10, <1>13, <2>1
    <2>2. CASE b # a
        <3>1. /\ outbox[b].request \in Requests /\ requests[outbox[b].request].answer = b
              /\ requests[outbox[b].request].chair = outbox[b].chair
            BY <1>4, <1>13, <2>2 DEF OutboxInv, OneAnswer
        <3>2. outbox[b].request # r
            BY <1>5, <1>6, <3>1
        <3> QED
            BY <1>1, <1>10, <1>13, <2>2, <3>1, <3>2
    <2> QED
        BY <2>1, <2>2
<1>17. outbox[a].chair = None
    BY <1>1, <1>4 DEF OutboxInv
<1>18. HookInv'
    <2>1. HookInv
        BY DEF IInv
    <2> SUFFICES ASSUME NEW h \in Hooks, hook[h].at = "print", NEW cand \in hook[h].page
                 PROVE  outbox'[cand.answer].chair = hook[h].chair
        BY <1>1, <2>1 DEF HookInv
    <2>2. outbox[cand.answer].chair = hook[h].chair /\ hook[h].chair \in Chairs
        BY <2>1 DEF HookInv
    <2>3. cand.answer \in Answers
        <3>1. hook[h] \in HookRows
            BY <1>4
        <3>2. cand \in [answer : Answers, attempts : 0 .. MaxAttempts]
            BY <3>1 DEF HookRows
        <3> QED
            BY <3>2
    <2> QED
        BY <1>6, <1>13, <1>17, <2>2, <2>3
<1>19. OnlyToTarget'
    <2>1. OnlyToTarget
        BY DEF IInv
    <2> QED
        BY <1>1, <1>4, <1>6, <1>13, <1>17, <2>1 DEF OnlyToTarget
<1> QED
    BY <1>3, <1>7, <1>12, <1>14, <1>15, <1>16, <1>18, <1>19 DEF IInv

\* What a step that changes neither requests, mail nor receipts may cite.
LEMMA Unconcerned ==
    ASSUME IInv
    PROVE  /\ UNCHANGED <<receipts, applied>> =>
                receipts' \subseteq Ops /\ applied' \in Nat /\ CountInv'
           /\ elapsed \subseteq Timed
           /\ outbox \in [Answers -> OutboxRows] /\ OutboxInv
           /\ hook \in [Hooks -> HookRows] /\ HookInv
           /\ received \in [Chairs -> SUBSET Answers] /\ OnlyToTarget
           /\ outbox' = outbox => \A a \in Answers : MovesOn(a)
<1>1. TypeOK /\ CountInv /\ OutboxInv /\ HookInv /\ OnlyToTarget
    BY DEF IInv
<1>2. UNCHANGED <<receipts, applied>> =>
        receipts' \subseteq Ops /\ applied' \in Nat /\ CountInv'
    BY <1>1 DEF TypeOK, CountInv, OncePerOperation
<1>3. outbox' = outbox => \A a \in Answers : MovesOn(a)
    BY DEF MovesOn
<1> QED
    BY <1>1, <1>2, <1>3 DEF TypeOK, OutboxRows, HookRows

LEMMA ElapseKeeps ==
    ASSUME IInv, NEW r \in Requests, Elapse(r)
    PROVE  IInv'
<1>1. /\ elapsed' = elapsed \cup {r} /\ r \in Timed
      /\ UNCHANGED <<mailVars, requests, history, outbox, receipts, applied, hook, received>>
    BY DEF Elapse
<1> QED
    BY <1>1, Unconcerned, OutboxStep DEF HookInv, OnlyToTarget

LEMMA AcknowledgeKeeps ==
    ASSUME IInv, NEW o \in Called, NEW r \in Requests, NEW a \in Answers, NEW c \in Chairs,
           Acknowledge(o, r, a, c)
    PROVE  IInv'
<1>1. /\ Operation(o) /\ outbox[a].chair = c
      /\ outbox' = [outbox EXCEPT ![a].state = "acknowledged"]
      /\ UNCHANGED <<mailVars, requests, history, elapsed, hook, received>>
    BY DEF Acknowledge
<1>2. receipts' \subseteq Ops /\ applied' \in Nat /\ CountInv'
    BY <1>1, OperationCounts
<1>3. outbox \in [Answers -> OutboxRows] /\ OutboxInv
    BY Unconcerned
<1>4. outbox[a].state # "absent"
    BY <1>1, <1>3, InboxAssumption DEF OutboxInv
<1>5. outbox' \in [Answers -> OutboxRows] /\ \A b \in Answers : MovesOn(b)
    <2>1. outbox' \in [Answers -> OutboxRows]
        BY <1>1, <1>3 DEF OutboxRows
    <2>2. ASSUME NEW b \in Answers
          PROVE  MovesOn(b)
        <3>1. CASE b = a
            BY <1>1, <1>3, <1>4, <3>1 DEF MovesOn, OutboxRows
        <3>2. CASE b # a
            BY <1>1, <1>3, <3>2 DEF MovesOn
        <3> QED
            BY <3>1, <3>2
    <2> QED
        BY <2>1, <2>2
<1> QED
    BY <1>1, <1>2, <1>5, Unconcerned, OutboxStep DEF HookInv, OnlyToTarget

LEMMA OfferUntilAckKeeps ==
    ASSUME IInv, NEW c \in Chairs, OfferUntilAck(c)
    PROVE  IInv'
<1> DEFINE batch == FirstOf(Pending(c), PageItems)
<1>1. /\ \A a \in batch : outbox[a].attempts < MaxAttempts
      /\ outbox' = [a \in Answers |->
                      IF a \in batch
                      THEN [outbox[a] EXCEPT !.state = "offered", !.attempts = @ + 1]
                      ELSE outbox[a]]
      /\ received' = [received EXCEPT ![c] = @ \cup batch] \/ received' = received
      /\ UNCHANGED <<mailVars, requests, history, receipts, applied, elapsed, hook>>
    BY DEF OfferUntilAck
<1>2. /\ batch \subseteq Answers
      /\ \A a \in batch : outbox[a].state # "absent" /\ outbox[a].chair = c
    BY DEF FirstOf, Pending, ForTarget
<1>3. /\ outbox \in [Answers -> OutboxRows] /\ MaxAttempts \in Nat
      /\ received \in [Chairs -> SUBSET Answers] /\ OnlyToTarget
    BY Unconcerned, InboxAssumption
<1> HIDE DEF batch
<1>4. ASSUME NEW a \in Answers
      PROVE  outbox'[a] \in OutboxRows /\ MovesOn(a)
    <2>1. CASE a \in batch
        <3> DEFINE row == outbox[a]
        <3>1. outbox'[a] = [row EXCEPT !.state = "offered", !.attempts = row.attempts + 1]
            BY <1>1, <2>1
        <3>2. /\ row \in OutboxRows /\ row.attempts \in 0 .. MaxAttempts
              /\ row.attempts < MaxAttempts /\ row.state # "absent"
            BY <1>1, <1>2, <1>3, <2>1 DEF OutboxRows
        <3>3. row.attempts + 1 \in 0 .. MaxAttempts
            BY <1>3, <3>2
        <3> HIDE DEF row
        <3>4. PICK k \in 0 .. MaxAttempts : k = row.attempts + 1
            BY <3>3
        <3>5. outbox'[a] = [row EXCEPT !.state = "offered", !.attempts = k]
            BY <3>1, <3>4
        <3>6. /\ outbox'[a] \in OutboxRows /\ outbox'[a].state = "offered"
              /\ outbox'[a].request = row.request /\ outbox'[a].chair = row.chair
            BY <3>2, <3>5 DEF OutboxRows
        <3> QED
            BY <3>2, <3>6 DEF MovesOn, row
    <2>2. CASE a \notin batch
        BY <1>1, <1>3, <2>2 DEF MovesOn
    <2> QED
        BY <2>1, <2>2
<1>5. outbox' \in [Answers -> OutboxRows]
    BY <1>1, <1>4
<1>6. /\ received' \in [Chairs -> SUBSET Answers]
      /\ \A d \in Chairs : \A a \in received'[d] : outbox[a].chair = d
    <2>1. CASE received' = received
        BY <1>3, <2>1 DEF OnlyToTarget
    <2>2. CASE received' = [received EXCEPT ![c] = @ \cup batch]
        <3>1. \A a \in received[c] \cup batch : a \in Answers /\ outbox[a].chair = c
            BY <1>2, <1>3 DEF OnlyToTarget
        <3>2. received' \in [Chairs -> SUBSET Answers]
            BY <1>3, <2>2, <3>1
        <3>3. /\ received'[c] = received[c] \cup batch
              /\ \A d \in Chairs : d # c => received'[d] = received[d]
            BY <1>3, <2>2
        <3> QED
            BY <1>3, <3>1, <3>2, <3>3 DEF OnlyToTarget
    <2> QED
        BY <1>1, <2>1, <2>2
<1> QED
    BY <1>1, <1>4, <1>5, <1>6, Unconcerned, OutboxStep DEF HookInv

\* Pages and what a hook scans stay among the answers.
LEMMA ScannedIs ==
    ASSUME NEW S
    PROVE  Scanned(S) \subseteq S /\ Selected(S) \subseteq S
BY DEF Scanned, Selected, FirstOf, Fits

LEMMA IdleIs ==
    Idle \in HookRows /\ Idle.at = "idle"
BY DEF Idle, HookRows

\* A step that changes one hook only.
LEMMA HookMoves ==
    ASSUME IInv, NEW h \in Hooks, NEW next \in HookRows, hook' = [hook EXCEPT ![h] = next],
           next.at # "idle" => next.chair \in Chairs,
           next.at = "print" => \A cand \in next.page : outbox[cand.answer].chair = next.chair
    PROVE  /\ hook' \in [Hooks -> HookRows]
           /\ \A k \in Hooks :
                /\ hook'[k].at # "idle" => hook'[k].chair \in Chairs
                /\ hook'[k].at = "print" =>
                      \A cand \in hook'[k].page : outbox[cand.answer].chair = hook'[k].chair
<1>1. hook \in [Hooks -> HookRows] /\ HookInv
    BY Unconcerned
<1>2. hook'[h] = next /\ \A k \in Hooks : k # h => hook'[k] = hook[k]
    BY <1>1
<1>3. hook' \in [Hooks -> HookRows]
    BY <1>1
<1>4. ASSUME NEW k \in Hooks
      PROVE  /\ hook'[k].at # "idle" => hook'[k].chair \in Chairs
             /\ hook'[k].at = "print" =>
                   \A cand \in hook'[k].page : outbox[cand.answer].chair = hook'[k].chair
    <2>1. CASE k = h
        BY <1>2, <2>1
    <2>2. CASE k # h
        BY <1>1, <1>2, <2>2 DEF HookInv
    <2> QED
        BY <2>1, <2>2
<1> QED
    BY <1>3, <1>4

LEMMA HookSelectKeeps ==
    ASSUME IInv, NEW h \in Hooks, NEW c \in Chairs, HookSelect(h, c)
    PROVE  IInv'
<1> DEFINE queued == HookCandidates(c, "queued")
           offered == HookCandidates(c, "offered")
           retry == Selected(queued) = {}
           chosen == IF retry THEN Selected(offered) ELSE Selected(queued)
           scanned == Scanned(queued) \cup IF retry THEN Scanned(offered) ELSE {}
           page == {[answer |-> a, attempts |-> outbox[a].attempts] : a \in chosen}
           marks == {a \in scanned : Fit[a] = "oversized"}
           next == [at |-> "mark", chair |-> c, page |-> page, marks |-> marks]
<1>1. /\ hook' = [hook EXCEPT ![h] = next]
      /\ UNCHANGED <<mailVars, requests, history, outbox, receipts, applied, elapsed, received>>
    BY DEF HookSelect
<1>2. queued \subseteq Answers /\ offered \subseteq Answers
    BY DEF HookCandidates
<1> HIDE DEF queued, offered
<1>3. chosen \subseteq Answers /\ scanned \subseteq Answers
    BY <1>2, ScannedIs
<1> HIDE DEF chosen, scanned
<1>4. page \subseteq [answer : Answers, attempts : 0 .. MaxAttempts] /\ marks \subseteq Answers
    <2>1. \A a \in chosen : outbox[a].attempts \in 0 .. MaxAttempts /\ a \in Answers
        BY <1>3, Unconcerned DEF OutboxRows
    <2> QED
        BY <1>3, <2>1
<1> HIDE DEF page, marks
<1>5. next \in HookRows /\ next.at = "mark" /\ next.chair = c
    BY <1>4 DEF HookRows
<1> HIDE DEF next
<1>6. /\ hook' \in [Hooks -> HookRows]
      /\ \A k \in Hooks :
           /\ hook'[k].at # "idle" => hook'[k].chair \in Chairs
           /\ hook'[k].at = "print" =>
                 \A cand \in hook'[k].page : outbox[cand.answer].chair = hook'[k].chair
    BY <1>1, <1>5, HookMoves
<1> QED
    BY <1>1, <1>6, Unconcerned, OutboxStep DEF OnlyToTarget

LEMMA HookMarkKeeps ==
    ASSUME IInv, NEW h \in Hooks, HookMark(h)
    PROVE  IInv'
<1> DEFINE c == hook[h].chair
           old == hook[h]
           next == IF old.page = {} THEN Idle ELSE [old EXCEPT !.at = "offer", !.marks = {}]
<1>1. /\ hook[h].at = "mark"
      /\ outbox' = [a \in Answers |->
                      IF a \in hook[h].marks /\ a \in Pending(c)
                      THEN [outbox[a] EXCEPT !.tooLarge = TRUE] ELSE outbox[a]]
      /\ UNCHANGED <<mailVars, requests, history, receipts, applied, elapsed, received>>
    BY DEF HookMark
<1>2. /\ outbox \in [Answers -> OutboxRows] /\ hook \in [Hooks -> HookRows] /\ HookInv
    BY Unconcerned
<1>3. hook' = [hook EXCEPT ![h] = next]
    BY <1>2 DEF HookMark
<1>4. old \in HookRows /\ old.chair \in Chairs /\ old.at = "mark"
    BY <1>1, <1>2 DEF HookInv
<1> HIDE DEF old
<1>5. /\ next \in HookRows /\ next.at \in {"idle", "offer"}
      /\ next.at # "idle" => next.chair \in Chairs
    <2>1. CASE old.page = {}
        BY <2>1, IdleIs
    <2>2. CASE old.page # {}
        <3>1. next = [old EXCEPT !.at = "offer", !.marks = {}]
            BY <2>2
        <3> QED
            BY <1>4, <3>1 DEF HookRows
    <2> QED
        BY <2>1, <2>2
<1> HIDE DEF next
<1>6. /\ hook' \in [Hooks -> HookRows]
      /\ \A k \in Hooks :
           /\ hook'[k].at # "idle" => hook'[k].chair \in Chairs
           /\ hook'[k].at = "print" =>
                 \A cand \in hook'[k].page : outbox[cand.answer].chair = hook'[k].chair
    BY <1>3, <1>5, HookMoves
<1>7. ASSUME NEW a \in Answers
      PROVE  outbox'[a] \in OutboxRows /\ MovesOn(a)
    <2> DEFINE row == outbox[a]
    <2>1. outbox'[a] = [row EXCEPT !.tooLarge = TRUE] \/ outbox'[a] = row
        BY <1>1
    <2>2. row \in OutboxRows
        BY <1>2
    <2> HIDE DEF row
    <2>3. /\ outbox'[a] \in OutboxRows /\ outbox'[a].state = row.state
          /\ outbox'[a].request = row.request /\ outbox'[a].chair = row.chair
          /\ outbox'[a].attempts = row.attempts
        BY <2>1, <2>2 DEF OutboxRows
    <2> QED
        BY <2>3 DEF MovesOn, row
<1>8. outbox' \in [Answers -> OutboxRows]
    BY <1>1, <1>7
<1> QED
    BY <1>1, <1>6, <1>7, <1>8, Unconcerned, OutboxStep DEF OnlyToTarget

LEMMA HookOfferKeeps ==
    ASSUME IInv, NEW h \in Hooks, HookOffer(h)
    PROVE  IInv'
<1> DEFINE c == hook[h].chair
           old == hook[h]
           page == {cand \in old.page :
                      ForTarget(cand.answer, c) /\ Offered(outbox[cand.answer], cand)}
           ids == {cand.answer : cand \in page}
           next == IF page = {} THEN Idle ELSE [old EXCEPT !.at = "print", !.page = page]
<1>1. /\ hook[h].at = "offer"
      /\ outbox' = [a \in Answers |->
                      IF a \in ids
                      THEN [outbox[a] EXCEPT !.state = "offered",
                              !.attempts = IF outbox[a].state = "queued" THEN @ + 1 ELSE @]
                      ELSE outbox[a]]
      /\ UNCHANGED <<mailVars, requests, history, receipts, applied, elapsed, received>>
    BY DEF HookOffer
<1>2. /\ outbox \in [Answers -> OutboxRows] /\ hook \in [Hooks -> HookRows] /\ HookInv
      /\ OutboxInv /\ MaxAttempts \in Nat \ {0}
    BY Unconcerned, InboxAssumption
<1>3. hook' = [hook EXCEPT ![h] = next]
    BY <1>2 DEF HookOffer
<1>4. old \in HookRows /\ old.chair \in Chairs /\ c = old.chair
    BY <1>1, <1>2 DEF HookInv
<1>5. /\ page \subseteq old.page
      /\ \A cand \in page :
            outbox[cand.answer].chair = c /\ outbox[cand.answer].state # "absent"
    BY DEF ForTarget
<1>6. \A a \in ids : outbox[a].state # "absent"
    BY <1>5
<1> HIDE DEF old, page, ids
<1>7. /\ next \in HookRows /\ next.at \in {"idle", "print"}
      /\ next.at # "idle" => next.chair = c /\ next.page = page
    <2>1. CASE page = {}
        BY <2>1, IdleIs
    <2>2. CASE page # {}
        <3>1. next = [old EXCEPT !.at = "print", !.page = page]
            BY <2>2
        <3>2. page \subseteq [answer : Answers, attempts : 0 .. MaxAttempts]
            BY <1>4, <1>5 DEF HookRows
        <3> QED
            BY <1>4, <3>1, <3>2 DEF HookRows
    <2> QED
        BY <2>1, <2>2
<1> HIDE DEF next
<1>8. /\ hook' \in [Hooks -> HookRows]
      /\ \A k \in Hooks :
           /\ hook'[k].at # "idle" => hook'[k].chair \in Chairs
           /\ hook'[k].at = "print" =>
                 \A cand \in hook'[k].page : outbox[cand.answer].chair = hook'[k].chair
    BY <1>3, <1>4, <1>5, <1>7, HookMoves
<1>9. ASSUME NEW a \in Answers
      PROVE  outbox'[a] \in OutboxRows /\ MovesOn(a)
    <2>1. CASE a \in ids
        <3> DEFINE row == outbox[a]
                   n == IF row.state = "queued" THEN row.attempts + 1 ELSE row.attempts
        <3>1. outbox'[a] = [row EXCEPT !.state = "offered", !.attempts = n]
            BY <1>1, <2>1
        <3>2. /\ row \in OutboxRows /\ row.state # "absent"
              /\ row.state = "queued" => row.attempts = 0
              /\ row.attempts \in 0 .. MaxAttempts
            BY <1>2, <1>6, <2>1 DEF OutboxInv, OutboxRows
        <3>3. n \in 0 .. MaxAttempts
            BY <1>2, <3>2
        <3> HIDE DEF row, n
        <3>4. PICK k \in 0 .. MaxAttempts : k = n
            BY <3>3
        <3>5. outbox'[a] = [row EXCEPT !.state = "offered", !.attempts = k]
            BY <3>1, <3>4
        <3>6. /\ outbox'[a] \in OutboxRows /\ outbox'[a].state = "offered"
              /\ outbox'[a].request = row.request /\ outbox'[a].chair = row.chair
            BY <3>2, <3>5 DEF OutboxRows
        <3> QED
            BY <3>2, <3>6 DEF MovesOn, row
    <2>2. CASE a \notin ids
        BY <1>1, <1>2, <2>2 DEF MovesOn
    <2> QED
        BY <2>1, <2>2
<1>10. outbox' \in [Answers -> OutboxRows]
    BY <1>1, <1>9
<1> QED
    BY <1>1, <1>8, <1>9, <1>10, Unconcerned, OutboxStep DEF OnlyToTarget

LEMMA HookPrintKeeps ==
    ASSUME IInv, NEW h \in Hooks, HookPrint(h)
    PROVE  IInv'
<1> DEFINE c == hook[h].chair
           ids == {cand.answer : cand \in hook[h].page}
<1>1. /\ hook[h].at = "print"
      /\ received' = [received EXCEPT ![c] = @ \cup ids]
      /\ hook' = [hook EXCEPT ![h] = Idle]
      /\ UNCHANGED <<mailVars, requests, history, outbox, receipts, applied, elapsed>>
    BY DEF HookPrint
<1>2. /\ hook \in [Hooks -> HookRows] /\ HookInv /\ OnlyToTarget
      /\ received \in [Chairs -> SUBSET Answers]
    BY Unconcerned
<1>3. c \in Chairs /\ \A cand \in hook[h].page : outbox[cand.answer].chair = c
    BY <1>1, <1>2 DEF HookInv
<1>4. ids \subseteq Answers /\ \A a \in ids : outbox[a].chair = c
    <2>1. hook[h] \in HookRows
        BY <1>2
    <2>2. \A cand \in hook[h].page : cand.answer \in Answers
        BY <2>1 DEF HookRows
    <2> QED
        BY <1>3, <2>2
<1> HIDE DEF ids
<1>5. /\ received' \in [Chairs -> SUBSET Answers]
      /\ \A d \in Chairs : \A a \in received'[d] : outbox[a].chair = d
    BY <1>1, <1>2, <1>3, <1>4 DEF OnlyToTarget
<1>6. /\ hook' \in [Hooks -> HookRows]
      /\ \A k \in Hooks :
           /\ hook'[k].at # "idle" => hook'[k].chair \in Chairs
           /\ hook'[k].at = "print" =>
                 \A cand \in hook'[k].page : outbox[cand.answer].chair = hook'[k].chair
    BY <1>1, IdleIs, HookMoves
<1> QED
    BY <1>1, <1>5, <1>6, Unconcerned, OutboxStep

LEMMA HookEndsKeeps ==
    ASSUME IInv, NEW h \in Hooks, HookEnds(h)
    PROVE  IInv'
<1>1. /\ hook' = [hook EXCEPT ![h] = Idle]
      /\ UNCHANGED <<mailVars, requests, history, outbox, receipts, applied, elapsed, received>>
    BY DEF HookEnds
<1>2. /\ hook' \in [Hooks -> HookRows]
      /\ \A k \in Hooks :
           /\ hook'[k].at # "idle" => hook'[k].chair \in Chairs
           /\ hook'[k].at = "print" =>
                 \A cand \in hook'[k].page : outbox[cand.answer].chair = hook'[k].chair
    BY <1>1, IdleIs, HookMoves
<1> QED
    BY <1>1, <1>2, Unconcerned, OutboxStep DEF OnlyToTarget
-----------------------------------------------------------------------------
(* The theorems *)

LEMMA NextKeeps ==
    ASSUME IInv, [Next]_vars
    PROVE  IInv'
<1>1. ASSUME Mutations
      PROVE  IInv'
    BY <1>1, AskKeeps, AnswerKeeps, CloseKeeps, AcknowledgeKeeps DEF Mutations
<1>2. ASSUME NEW h \in Hooks, HookStep(h)
      PROVE  IInv'
    BY <1>2, HookSelectKeeps, HookMarkKeeps, HookOfferKeeps, HookPrintKeeps, HookEndsKeeps
       DEF HookStep
<1>3. CASE Next
    BY <1>1, <1>2, <1>3, ElapseKeeps, OfferUntilAckKeeps DEF Next
<1>4. CASE UNCHANGED vars
    <2>1. UNCHANGED <<mailVars, requests, history, outbox, receipts, applied, elapsed, hook,
                      received>>
        BY <1>4 DEF vars, inboxVars
    <2> QED
        BY <2>1, Unconcerned, OutboxStep DEF HookInv, OnlyToTarget
<1> QED
    BY <1>3, <1>4

LEMMA InitIInv ==
    ASSUME Init
    PROVE  IInv
<1>1. MailTypeOK /\ SentInv
    BY DEF Init, MailInit, MailTypeOK, SentInv, IsNew
<1>2. NoRequest \in RequestRows /\ RequestOK(NoRequest) /\ NoRequest.revision = 0
    BY DEF NoRequest, RequestRows, RequestOK
<1>3. NoAnswer \in OutboxRows /\ NoAnswer.state = "absent" /\ NoAnswer.chair = None
    <2>1. 0 \in 0 .. MaxAttempts
        BY InboxAssumption
    <2> QED
        BY <2>1 DEF NoAnswer, OutboxRows
<1>4. CountInv
    BY FS_EmptySet DEF Init, CountInv, OncePerOperation
<1>5. TypeOK
    <2>1. /\ requests \in [Requests -> RequestRows] /\ outbox \in [Answers -> OutboxRows]
          /\ hook \in [Hooks -> HookRows] /\ received \in [Chairs -> SUBSET Answers]
        BY <1>2, <1>3, IdleIs DEF Init
    <2>2. /\ history \in [Requests -> Seq({"open", "answered", "closed"})]
          /\ \A r \in Requests : requests[r].revision = Len(history[r])
        BY <1>2 DEF Init
    <2>3. /\ receipts \subseteq Ops /\ applied \in Nat /\ elapsed \subseteq Timed
          /\ \A a \in Answers : outbox[a].state = "absent"
        BY <1>3 DEF Init
    <2> QED
        BY <1>1, <2>1, <2>2, <2>3 DEF TypeOK, RequestRows, OutboxRows, HookRows
<1>6. RequestInv /\ OutboxInv /\ OneAnswer
    BY <1>2, <1>3 DEF Init, RequestInv, OutboxInv, OneAnswer
<1>7. HookInv /\ OnlyToTarget
    BY IdleIs DEF Init, HookInv, OnlyToTarget
<1> QED
    BY <1>1, <1>4, <1>5, <1>6, <1>7 DEF IInv

\* The invariant holds of every behaviour: whatever operations are retried,
\* deadlines pass, and hooks cross or end half-way.
THEOREM Invariance == Spec => []IInv
<1>1. Init => IInv
    BY InitIInv
<1>2. IInv /\ [Next]_vars => IInv'
    BY NextKeeps
<1> QED
    BY <1>1, <1>2, PTL DEF Spec

\* A request resolves once, for any requests, chairs and callers: it keeps its
\* one answer, has at most three revisions, and a retried operation has its
\* effects once (answer_human_request, close_human_request,
\* coordination_operation).
THEOREM ResolvesOnceHolds == Spec => []ResolvesOnce
<1>1. IInv => ResolvesOnce
    <2> SUFFICES ASSUME IInv PROVE ResolvesOnce
        OBVIOUS
    <2>1. HistoryIsShort
        <3> SUFFICES ASSUME NEW r \in Requests PROVE Len(history[r]) <= 3
            BY DEF HistoryIsShort
        <3>1. requests[r] \in RequestRows /\ requests[r].revision = Len(history[r])
            BY DEF IInv, TypeOK, RequestRows
        <3>2. RequestOK(requests[r])
            BY DEF IInv, RequestInv
        <3> DEFINE row == requests[r]
        <3>3. row.state \in {"absent", "open", "answered", "closed"}
            BY <3>1 DEF RequestRows
        <3>4. row.revision \in 0 .. 3
            <4> HIDE DEF row
            <4>1. \/ row.state = "absent" /\ row.revision = 0
                  \/ row.state = "open" /\ row.revision = 1
                  \/ row.state = "answered" /\ row.revision = 2
                  \/ row.state = "closed" /\ row.revision \in 2 .. 3
                BY <3>2, <3>3 DEF RequestOK, row
            <4> QED
                BY <4>1
        <3>5. PICK n \in 0 .. 3 : n = Len(history[r])
            BY <3>1, <3>4 DEF row
        <3>6. n <= 3
            OBVIOUS
        <3> QED
            BY <3>5, <3>6
    <2> QED
        BY <2>1 DEF IInv, CountInv, ResolvesOnce
<1> QED
    BY <1>1, Invariance, PTL

\* Offers reach the exact chair session that asked, by every path: the direct
\* offer and hooks that crossed on old snapshots (AnswerTarget).
THEOREM OnlyToTargetHolds == Spec => []OnlyToTarget
<1>1. IInv => OnlyToTarget
    BY DEF IInv
<1> QED
    BY <1>1, Invariance, PTL

\* No step brings an acknowledged answer back: each path that writes the outbox
\* re-reads the row and passes over an acknowledged one
\* (offer_human_answers_once, mark_hook_undeliverable_once).
THEOREM AckStandsHolds == Spec => AckStands
<1> DEFINE Stands == \A a \in Answers :
                outbox[a].state = "acknowledged" => outbox'[a].state = "acknowledged"
<1>1. ASSUME IInv, [Next]_vars
      PROVE  Stands
    <2> SUFFICES ASSUME NEW a \in Answers, outbox[a].state = "acknowledged"
                 PROVE  outbox'[a].state = "acknowledged"
        OBVIOUS
    <2>1. outbox \in [Answers -> OutboxRows]
        BY <1>1, Unconcerned
    <2>2. outbox[a] \in OutboxRows
        BY <2>1
    <2>3. CASE outbox' = outbox
        BY <2>3
    <2>4. ASSUME NEW o, NEW r, NEW revision, NEW b \in Answers, Answer(o, r, revision, b)
          PROVE  outbox'[a].state = "acknowledged"
        <3>1. outbox[b].state = "absent" /\ \E row : outbox' = [outbox EXCEPT ![b] = row]
            BY <2>4 DEF Answer
        <3>2. a # b
            BY <3>1
        <3> QED
            BY <2>1, <3>1, <3>2
    <2>5. ASSUME NEW o, NEW r, NEW b \in Answers, NEW c, Acknowledge(o, r, b, c)
          PROVE  outbox'[a].state = "acknowledged"
        <3>1. outbox' = [outbox EXCEPT ![b].state = "acknowledged"]
            BY <2>5 DEF Acknowledge
        <3> QED
            BY <2>1, <2>2, <3>1 DEF OutboxRows
    <2>6. ASSUME NEW c, OfferUntilAck(c)
          PROVE  outbox'[a].state = "acknowledged"
        <3>1. a \notin FirstOf(Pending(c), PageItems)
            BY DEF FirstOf, Pending
        <3> QED
            BY <2>6, <3>1 DEF OfferUntilAck
    <2>7. ASSUME NEW h, HookMark(h)
          PROVE  outbox'[a].state = "acknowledged"
        <3>1. a \notin Pending(hook[h].chair)
            BY DEF Pending
        <3> QED
            BY <2>7, <3>1 DEF HookMark
    <2>8. ASSUME NEW h, HookOffer(h)
          PROVE  outbox'[a].state = "acknowledged"
        <3> DEFINE page == {cand \in hook[h].page :
                      /\ ForTarget(cand.answer, hook[h].chair)
                      /\ Offered(outbox[cand.answer], cand)}
                   ids == {cand.answer : cand \in page}
        <3>1. outbox' = [b \in Answers |->
                          IF b \in ids
                          THEN [outbox[b] EXCEPT !.state = "offered",
                                  !.attempts = IF outbox[b].state = "queued" THEN @ + 1 ELSE @]
                          ELSE outbox[b]]
            BY <2>8 DEF HookOffer
        <3>2. a \notin ids
            BY DEF Offered
        <3> HIDE DEF ids
        <3> QED
            BY <3>1, <3>2
    <2>9. CASE Mutations
        <3>1. ASSUME NEW o, NEW r, NEW c, NEW prior, Ask(o, r, c, prior)
              PROVE  outbox' = outbox
            BY <3>1 DEF Ask
        <3>2. ASSUME NEW o, NEW r, NEW revision, NEW actor, Close(o, r, revision, actor)
              PROVE  outbox' = outbox
            BY <3>2 DEF Close
        <3> QED
            BY <2>3, <2>4, <2>5, <2>9, <3>1, <3>2 DEF Mutations
    <2>10. ASSUME NEW h \in Hooks, HookStep(h)
           PROVE  outbox'[a].state = "acknowledged"
        <3>1. ASSUME NEW c, HookSelect(h, c)
              PROVE  outbox' = outbox
            BY <3>1 DEF HookSelect
        <3>2. HookPrint(h) \/ HookEnds(h) => outbox' = outbox
            BY DEF HookPrint, HookEnds
        <3> QED
            BY <2>3, <2>7, <2>8, <2>10, <3>1, <3>2 DEF HookStep
    <2>11. CASE \E r \in Requests : Elapse(r)
        BY <2>3, <2>11 DEF Elapse
    <2>12. CASE UNCHANGED vars
        BY <2>3, <2>12 DEF vars, inboxVars
    <2> QED
        BY <1>1, <2>6, <2>9, <2>10, <2>11, <2>12 DEF Next
<1>2. IInv /\ [Next]_vars => [Stands]_vars
    BY <1>1
<1> QED
    BY <1>2, Invariance, PTL DEF Spec, AckStands
-----------------------------------------------------------------------------
(* Run events: the invariant *)

LogRows == [attempt : Attempts, kept : BOOLEAN]

\* A host's cursor is past every event of it in the stream.
FedInv == \A i \in DOMAIN feed : feed[i].sequence \in 1 .. cursor[feed[i].host]

\* A page at hand begins at a position the cursor has passed, has no gap, and
\* has all that was there when the pull began unless it is marked as truncated.
PageOK(p, at) ==
    LET h == Min(p.todo) IN
    /\ at \in {"fetch", "ingest"} => p.after <= cursor[h]
    /\ at = "ingest" =>
        /\ p.page \subseteq 1 .. Len(log[h])
        /\ \A s \in KeptAfter(h, p.after) :
            (\E t \in p.page : s <= t) \/ (~p.truncated /\ s <= p.due[h]) => s \in p.page

\* Of the hosts it is done with, a pull has fed all that was there when it began.
Honest(p) ==
    /\ \A h \in Hosts : p.due[h] <= Len(log[h])
    /\ ~p.more =>
        \A h \in Hosts \ (p.todo \cup p.unknown) : \A s \in 1 .. p.due[h] :
            log[h][s].kept => IsFed(h, s)

PullInv == \A c \in Callers : PageOK(pull[c], pc[c]) /\ Honest(pull[c])

EventsIInv ==
    /\ EventsTypeOK
    /\ FedInv
    /\ FedOnce
    /\ FeedComplete
    /\ HostOrder
    /\ PullInv
-----------------------------------------------------------------------------
(* What the steps share *)

\* A set of numbers has a smallest member.
LEMMA Smallest ==
    ASSUME NEW S, S \subseteq Nat, S # {}
    PROVE  Min(S) \in S /\ \A y \in S : Min(S) <= y
<1>1. PICK k \in S : \A j \in S : ~(j < k)
    <2>1. \E x \in S : \A y \in S : ~(<<y, x>> \in OpToRel(<, Nat))
        BY NatLessThanWellFounded, WFMin
    <2> QED
        BY <2>1 DEF OpToRel
<1>2. \A y \in S : k <= y
    <2>1. \A y \in S : y \in Nat
        OBVIOUS
    <2> QED
        BY <1>1, <2>1
<1>3. \E x \in S : \A y \in S : x <= y
    BY <1>2
<1> QED
    BY <1>3 DEF Min

LEMMA EventsFacts ==
    ASSUME EventsIInv
    PROVE  /\ log \in [Hosts -> Seq(LogRows)]
           /\ \A h \in Hosts : \A s \in DOMAIN log[h] : HostOf[log[h][s].attempt] = h
           /\ \A h \in Hosts : Len(log[h]) \in Nat /\ DOMAIN log[h] = 1 .. Len(log[h])
           /\ feed \in Seq(RunEntry)
           /\ Len(feed) \in Nat /\ DOMAIN feed = 1 .. Len(feed)
           /\ \A i \in DOMAIN feed : feed[i] \in RunEntry
           /\ cursor \in [Hosts -> Nat] /\ \A h \in Hosts : cursor[h] <= Len(log[h])
           /\ pc \in [Callers -> {"idle", "hosts", "fetch", "ingest"}]
           /\ pull \in [Callers -> Pulls]
           /\ \A c \in Callers : /\ pull[c].page # {} => pc[c] = "ingest"
                                 /\ pc[c] \in {"fetch", "ingest"} => pull[c].todo # {}
           /\ position \in [Callers -> 0 .. Len(feed)]
           /\ closed \subseteq Attempts
<1>1. EventsTypeOK
    BY DEF EventsIInv
<1>2. log \in [Hosts -> Seq(LogRows)] /\ feed \in Seq(RunEntry)
    BY <1>1 DEF EventsTypeOK, LogRows
<1>3. \A h \in Hosts : Len(log[h]) \in Nat /\ DOMAIN log[h] = 1 .. Len(log[h])
    BY <1>2
<1>4. /\ Len(feed) \in Nat /\ DOMAIN feed = 1 .. Len(feed)
      /\ \A i \in DOMAIN feed : feed[i] \in RunEntry
    BY <1>2
<1> QED
    BY <1>1, <1>2, <1>3, <1>4 DEF EventsTypeOK

\* The host a pull visits next is one of its hosts.
LEMMA NextHostIs ==
    ASSUME NEW p \in Pulls, p.todo # {}
    PROVE  Min(p.todo) \in p.todo /\ Min(p.todo) \in Hosts
<1>1. p.todo \subseteq Hosts
    BY DEF Pulls
<1>2. p.todo \subseteq Nat
    BY <1>1, HostAssumption
<1> QED
    BY <1>1, <1>2, Smallest

\* A log only grows, and loses events to retention: what the stream, the cursors
\* and the readers rely on stays true of it.
LEMMA LogStep ==
    ASSUME EventsIInv, UNCHANGED <<feed, cursor, pc, pull, position>>,
           closed' \subseteq Attempts,
           log' \in [Hosts -> Seq(LogRows)],
           \A h \in Hosts : \A s \in DOMAIN log'[h] : HostOf[log'[h][s].attempt] = h,
           \A h \in Hosts :
              /\ Len(log[h]) <= Len(log'[h])
              /\ \A s \in 1 .. Len(log[h]) : log'[h][s].kept => log[h][s].kept
    PROVE  EventsIInv'
<1>1. /\ \A h \in Hosts : Len(log[h]) \in Nat /\ Len(log'[h]) \in Nat
      /\ \A h \in Hosts : cursor[h] \in Nat /\ cursor[h] <= Len(log[h])
      /\ \A i \in DOMAIN feed : feed[i].host \in Hosts /\ feed[i].sequence \in Nat
      /\ \A c \in Callers : pull[c] \in Pulls
    BY EventsFacts DEF RunEntry
<1>2. EventsTypeOK'
    <2>1. \A h \in Hosts : cursor'[h] <= Len(log'[h])
        BY <1>1
    <2> QED
        BY <2>1 DEF EventsIInv, EventsTypeOK, LogRows
<1>3. FedInv' /\ FedOnce'
    BY DEF EventsIInv, FedInv, FedOnce
<1>4. FeedComplete'
    <2> SUFFICES ASSUME NEW h \in Hosts, NEW s \in 1 .. cursor[h], log'[h][s].kept
                 PROVE  IsFed(h, s)'
        BY DEF FeedComplete
    <2>1. s \in 1 .. Len(log[h])
        BY <1>1
    <2>2. log[h][s].kept
        BY <2>1
    <2> QED
        BY <2>2 DEF EventsIInv, FeedComplete, IsFed
<1>5. HostOrder'
    <2> SUFFICES ASSUME NEW i \in DOMAIN feed, NEW j \in DOMAIN feed, i < j,
                        feed[i].host = feed[j].host, feed[i].sequence > feed[j].sequence
                 PROVE  ~log'[feed[j].host][feed[j].sequence].kept
        BY DEF HostOrder
    <2>1. feed[j].sequence \in 1 .. Len(log[feed[j].host])
        BY <1>1 DEF EventsIInv, FedInv
    <2>2. ~log[feed[j].host][feed[j].sequence].kept
        BY DEF EventsIInv, HostOrder
    <2> QED
        BY <1>1, <2>1, <2>2
<1>6. ASSUME NEW c \in Callers
      PROVE  PageOK(pull[c], pc[c])'
    <2> DEFINE p == pull[c]
               h == Min(p.todo)
    <2>1. PageOK(p, pc[c])
        BY DEF EventsIInv, PullInv
    <2> SUFFICES ASSUME pc[c] = "ingest"
                 PROVE  /\ p.page \subseteq 1 .. Len(log'[h])
                        /\ \A s \in KeptAfter(h, p.after)' :
                            (\E t \in p.page : s <= t) \/ (~p.truncated /\ s <= p.due[h])
                                => s \in p.page
        BY <2>1 DEF PageOK
    <2>2. h \in Hosts /\ p.after \in Nat /\ p.due[h] \in Nat /\ p.due[h] <= Len(log[h])
        <3>1. p \in Pulls /\ p.todo # {} /\ Honest(p)
            BY EventsFacts DEF EventsIInv, PullInv
        <3>2. h \in Hosts
            BY <3>1, NextHostIs
        <3> HIDE DEF h
        <3> QED
            BY <3>1, <3>2 DEF Pulls, Honest
    <2>3. /\ p.page \subseteq 1 .. Len(log[h])
          /\ \A s \in KeptAfter(h, p.after) :
              (\E t \in p.page : s <= t) \/ (~p.truncated /\ s <= p.due[h]) => s \in p.page
        BY <2>1 DEF PageOK
    <2> HIDE DEF p, h
    <2>4. ASSUME NEW s \in KeptAfter(h, p.after)', s <= Len(log[h])
          PROVE  s \in KeptAfter(h, p.after)
        <3>1. s \in p.after + 1 .. Len(log'[h]) /\ log'[h][s].kept
            BY DEF KeptAfter, p, h
        <3>2. s \in 1 .. Len(log[h]) /\ s \in p.after + 1 .. Len(log[h])
            BY <1>1, <2>2, <2>4, <3>1
        <3> QED
            BY <2>2, <3>1, <3>2 DEF KeptAfter
    <2>5. ASSUME NEW s \in KeptAfter(h, p.after)',
                 (\E t \in p.page : s <= t) \/ (~p.truncated /\ s <= p.due[h])
          PROVE  s \in p.page
        <3>1. s \in Nat
            <4>1. s \in p.after + 1 .. Len(log'[h])
                BY DEF KeptAfter, p, h
            <4> QED
                BY <1>1, <2>2, <4>1
        <3>2. s <= Len(log[h])
            BY <1>1, <2>2, <2>3, <2>5, <3>1
        <3> QED
            BY <2>3, <2>4, <2>5, <3>2
    <2>6. p.page \subseteq 1 .. Len(log'[h])
        BY <1>1, <2>2, <2>3
    <2> QED
        BY <2>5, <2>6
<1>7. ASSUME NEW c \in Callers
      PROVE  Honest(pull[c])'
    <2> DEFINE p == pull[c]
    <2>1. Honest(p) /\ p \in Pulls
        BY EventsFacts DEF EventsIInv, PullInv
    <2>2. \A h \in Hosts : p.due[h] \in Nat /\ p.due[h] <= Len(log[h])
        BY <2>1 DEF Pulls, Honest
    <2> HIDE DEF p
    <2>3. \A h \in Hosts : p.due[h] <= Len(log'[h])
        BY <1>1, <2>2
    <2>4. ASSUME ~p.more, NEW h \in Hosts \ (p.todo \cup p.unknown), NEW s \in 1 .. p.due[h],
                 log'[h][s].kept
          PROVE  IsFed(h, s)'
        <3>1. s \in 1 .. Len(log[h])
            BY <1>1, <2>2
        <3>2. log[h][s].kept
            BY <2>4, <3>1
        <3>3. IsFed(h, s)
            BY <2>1, <2>4, <3>2 DEF Honest
        <3> QED
            BY <3>3 DEF IsFed
    <2> QED
        BY <2>3, <2>4 DEF Honest, p
<1>8. PullInv'
    BY <1>6, <1>7 DEF PullInv
<1> QED
    BY <1>2, <1>3, <1>4, <1>5, <1>8 DEF EventsIInv
-----------------------------------------------------------------------------
(* One lemma per operation and step *)

LEMMA ChangeKeeps ==
    ASSUME EventsIInv, NEW a \in Attempts, NEW terminal, Change(a, terminal)
    PROVE  EventsIInv'
<1> DEFINE h == HostOf[a]
           row == [attempt |-> a, kept |-> TRUE]
<1>1. /\ log' = [log EXCEPT ![h] = Append(log[h], row)]
      /\ closed' = IF terminal THEN closed \cup {a} ELSE closed
      /\ UNCHANGED <<feed, cursor, pc, pull, position>>
    BY DEF Change
<1>2. h \in Hosts
    BY HostAssumption
<1>3. row \in LogRows /\ row.attempt = a
    BY DEF LogRows
<1>4. /\ log \in [Hosts -> Seq(LogRows)] /\ closed \subseteq Attempts
      /\ \A k \in Hosts : \A s \in DOMAIN log[k] : HostOf[log[k][s].attempt] = k
    BY EventsFacts
<1> HIDE DEF row
<1> DEFINE old == log[h]
           new == Append(old, row)
<1>5. old \in Seq(LogRows)
    BY <1>2, <1>4
<1>6. /\ new \in Seq(LogRows) /\ Len(new) = Len(old) + 1 /\ Len(old) \in Nat
      /\ \A s \in 1 .. Len(old) : new[s] = old[s]
      /\ new[Len(old) + 1] = row
      /\ DOMAIN new = 1 .. Len(old) + 1 /\ DOMAIN old = 1 .. Len(old)
    <2> HIDE DEF old
    <2> QED
        BY <1>3, <1>5
<1> HIDE DEF new
<1>7. log' = [log EXCEPT ![h] = new]
    BY <1>1 DEF new
<1>8. log' \in [Hosts -> Seq(LogRows)]
    BY <1>4, <1>6, <1>7
<1>9. log'[h] = new /\ \A k \in Hosts : k # h => log'[k] = log[k]
    BY <1>2, <1>4, <1>7
<1>10. ASSUME NEW k \in Hosts, NEW s \in DOMAIN log'[k]
       PROVE  HostOf[log'[k][s].attempt] = k
    <2>1. CASE k # h
        BY <1>4, <1>9, <2>1
    <2>2. CASE k = h
        <3>1. s \in 1 .. Len(old) \/ s = Len(old) + 1
            BY <1>6, <1>9, <2>2
        <3>2. CASE s \in 1 .. Len(old)
            BY <1>2, <1>4, <1>6, <1>9, <2>2, <3>2
        <3>3. CASE s = Len(old) + 1
            BY <1>3, <1>6, <1>9, <2>2, <3>3
        <3> QED
            BY <3>1, <3>2, <3>3
    <2> QED
        BY <2>1, <2>2
<1>11. ASSUME NEW k \in Hosts
       PROVE  /\ Len(log[k]) <= Len(log'[k])
              /\ \A s \in 1 .. Len(log[k]) : log'[k][s].kept => log[k][s].kept
    <2>1. CASE k # h
        <3>1. Len(log[k]) \in Nat
            BY EventsFacts
        <3> QED
            BY <1>9, <2>1, <3>1
    <2>2. CASE k = h
        BY <1>6, <1>9, <2>2
    <2> QED
        BY <2>1, <2>2
<1>12. closed' \subseteq Attempts
    BY <1>1, <1>4
<1> QED
    BY <1>1, <1>8, <1>10, <1>11, <1>12, LogStep

LEMMA RetentionKeeps ==
    ASSUME EventsIInv, NEW a \in Attempts, Retention(a)
    PROVE  EventsIInv'
<1> DEFINE h == HostOf[a]
           old == log[h]
           new == [i \in DOMAIN old |-> IF i \in Expired(a) THEN [old[i] EXCEPT !.kept = FALSE]
                                                            ELSE old[i]]
<1>1. /\ log' = [log EXCEPT ![h] = new]
      /\ UNCHANGED <<closed, feed, cursor, pc, pull, position>>
    BY DEF Retention
<1>2. h \in Hosts
    BY HostAssumption
<1>3. /\ log \in [Hosts -> Seq(LogRows)] /\ closed \subseteq Attempts
      /\ \A k \in Hosts : \A s \in DOMAIN log[k] : HostOf[log[k][s].attempt] = k
      /\ old \in Seq(LogRows) /\ Len(old) \in Nat /\ DOMAIN old = 1 .. Len(old)
    BY <1>2, EventsFacts
<1>4. \A i \in 1 .. Len(old) : old[i] \in LogRows /\ HostOf[old[i].attempt] = h
    BY <1>2, <1>3
<1>5. /\ DOMAIN new = 1 .. Len(old)
      /\ \A i \in 1 .. Len(old) : new[i] = old[i] \/ new[i] = [old[i] EXCEPT !.kept = FALSE]
      /\ new = [i \in 1 .. Len(old) |-> new[i]]
    BY <1>3
<1> HIDE DEF old, new
<1>6. ASSUME NEW i \in 1 .. Len(old)
      PROVE  /\ new[i] \in LogRows /\ new[i].attempt = old[i].attempt
             /\ new[i].kept => old[i].kept
    <2>1. CASE new[i] = old[i]
        BY <1>4, <2>1
    <2>2. CASE new[i] = [old[i] EXCEPT !.kept = FALSE]
        BY <1>4, <2>2 DEF LogRows
    <2> QED
        BY <1>5, <2>1, <2>2
<1>7. new \in Seq(LogRows) /\ Len(new) = Len(old)
    <2>1. new \in [1 .. Len(old) -> LogRows]
        BY <1>5, <1>6
    <2> QED
        BY <1>3, <2>1
<1>8. log' \in [Hosts -> Seq(LogRows)]
    BY <1>1, <1>3, <1>7
<1>9. log'[h] = new /\ \A k \in Hosts : k # h => log'[k] = log[k]
    BY <1>1, <1>2, <1>3
<1>10. ASSUME NEW k \in Hosts, NEW s \in DOMAIN log'[k]
       PROVE  HostOf[log'[k][s].attempt] = k
    <2>1. CASE k # h
        BY <1>3, <1>9, <2>1
    <2>2. CASE k = h
        <3>1. s \in 1 .. Len(old) /\ log'[k][s] = new[s]
            BY <1>5, <1>9, <2>2
        <3> QED
            BY <1>4, <1>6, <2>2, <3>1
    <2> QED
        BY <2>1, <2>2
<1>11. ASSUME NEW k \in Hosts
       PROVE  /\ Len(log[k]) <= Len(log'[k])
              /\ \A s \in 1 .. Len(log[k]) : log'[k][s].kept => log[k][s].kept
    <2>1. CASE k # h
        <3>1. Len(log[k]) \in Nat
            BY EventsFacts
        <3> QED
            BY <1>9, <2>1, <3>1
    <2>2. CASE k = h
        BY <1>3, <1>6, <1>7, <1>9, <2>2 DEF old
    <2> QED
        BY <2>1, <2>2
<1> QED
    BY <1>1, <1>3, <1>8, <1>10, <1>11, LogStep

\* A step of one reader that changes neither logs, stream nor cursors.
LEMMA ReaderStep ==
    ASSUME EventsIInv, UNCHANGED <<log, closed, feed, cursor>>,
           NEW c \in Callers, NEW p \in Pulls, NEW at \in {"idle", "hosts", "fetch", "ingest"},
           pull' = [pull EXCEPT ![c] = p], pc' = [pc EXCEPT ![c] = at],
           position' \in [Callers -> 0 .. Len(feed)],
           p.page # {} => at = "ingest", at \in {"fetch", "ingest"} => p.todo # {},
           PageOK(p, at), Honest(p)
    PROVE  EventsIInv'
<1>1. pc \in [Callers -> {"idle", "hosts", "fetch", "ingest"}] /\ pull \in [Callers -> Pulls]
    BY EventsFacts
<1>2. /\ pull' \in [Callers -> Pulls] /\ pull'[c] = p
      /\ \A d \in Callers : d # c => pull'[d] = pull[d]
    BY <1>1
<1>3. /\ pc' \in [Callers -> {"idle", "hosts", "fetch", "ingest"}] /\ pc'[c] = at
      /\ \A d \in Callers : d # c => pc'[d] = pc[d]
    BY <1>1
<1>4. EventsTypeOK'
    <2>1. \A d \in Callers : /\ pull'[d].page # {} => pc'[d] = "ingest"
                             /\ pc'[d] \in {"fetch", "ingest"} => pull'[d].todo # {}
        BY <1>2, <1>3, EventsFacts
    <2> QED
        BY <1>2, <1>3, <2>1 DEF EventsIInv, EventsTypeOK
<1>5. FedInv' /\ FedOnce' /\ FeedComplete' /\ HostOrder'
    BY DEF EventsIInv, FedInv, FedOnce, FeedComplete, HostOrder, IsFed
<1>6. PullInv'
    <2>1. \A q, l : /\ PageOK(q, l) => PageOK(q, l)'
                    /\ Honest(q) => Honest(q)'
        BY DEF PageOK, Honest, KeptAfter, IsFed
    <2>2. ASSUME NEW d \in Callers
          PROVE  PageOK(pull'[d], pc'[d]) /\ Honest(pull'[d])
        <3>1. CASE d = c
            BY <1>2, <1>3, <3>1
        <3>2. CASE d # c
            BY <1>2, <1>3, <3>2 DEF EventsIInv, PullInv
        <3> QED
            BY <3>1, <3>2
    <2>3. ASSUME NEW d \in Callers
          PROVE  PageOK(pull[d], pc[d])' /\ Honest(pull[d])'
        <3>1. PICK q : q = pull'[d]
            OBVIOUS
        <3>2. PICK l : l = pc'[d]
            OBVIOUS
        <3>3. PageOK(q, l) /\ Honest(q)
            BY <2>2, <3>1, <3>2
        <3>4. PageOK(q, l)' /\ Honest(q)'
            BY <2>1, <3>3
        <3> QED
            BY <3>1, <3>2, <3>4 DEF PageOK, Honest
    <2> QED
        BY <2>3 DEF PullInv
<1> QED
    BY <1>4, <1>5, <1>6 DEF EventsIInv

LEMMA NoPullIs ==
    /\ NoPull \in Pulls /\ NoPull.page = {} /\ NoPull.todo = {} /\ NoPull.unknown = {}
    /\ \A h \in Hosts : NoPull.due[h] = 0
<1> DEFINE none == [h \in Hosts |-> 0]
<1>1. none \in [Hosts -> Nat] /\ \A h \in Hosts : none[h] = 0
    OBVIOUS
<1> HIDE DEF none
<1>2. NoPull = [todo |-> {}, peers |-> FALSE, after |-> 0, page |-> {}, truncated |-> FALSE,
                unknown |-> {}, more |-> FALSE, due |-> none]
    BY DEF NoPull, none
<1> QED
    BY <1>1, <1>2 DEF Pulls

\* A reader that is not in a pull is honest about nothing.
LEMMA IdlePull ==
    ASSUME EventsIInv
    PROVE  PageOK(NoPull, "idle") /\ Honest(NoPull)
<1>1. \A h \in Hosts : Len(log[h]) \in Nat
    BY EventsFacts
<1>2. \A h \in Hosts : NoPull.due[h] = 0
    BY NoPullIs
<1>3. \A h \in Hosts : NoPull.due[h] <= Len(log[h]) /\ 1 .. NoPull.due[h] = {}
    BY <1>1, <1>2
<1>4. Honest(NoPull)
    BY <1>3 DEF Honest
<1> QED
    BY <1>4 DEF PageOK

LEMMA StartPullKeeps ==
    ASSUME EventsIInv, NEW c \in Callers, NEW scope, StartPull(c, scope)
    PROVE  EventsIInv'
<1> DEFINE todo == IF scope = "lane" THEN {} ELSE Hosts
           unknown == IF scope = "lane" THEN Hosts ELSE {}
           due == [h \in Hosts |-> IF scope = "all" THEN Len(log[h]) ELSE 0]
           p == [NoPull EXCEPT !.todo = todo, !.unknown = unknown,
                               !.peers = scope = "all", !.due = due]
<1>1. /\ pull' = [pull EXCEPT ![c] = p] /\ pc' = [pc EXCEPT ![c] = "hosts"]
      /\ UNCHANGED <<log, closed, feed, cursor, position>>
    BY DEF StartPull
<1>2. \A h \in Hosts : Len(log[h]) \in Nat
    BY EventsFacts
<1>3. /\ due \in [Hosts -> Nat] /\ \A h \in Hosts : due[h] <= Len(log[h])
      /\ todo \subseteq Hosts /\ unknown \subseteq Hosts /\ Hosts \ (todo \cup unknown) = {}
    BY <1>2
<1>4. PICK peers \in BOOLEAN : peers = (scope = "all")
    OBVIOUS
<1> HIDE DEF todo, unknown, due
<1>5. p = [NoPull EXCEPT !.todo = todo, !.unknown = unknown, !.peers = peers, !.due = due]
    BY <1>4
<1> HIDE DEF p
<1>6. /\ p \in Pulls /\ p.page = {} /\ p.todo = todo /\ p.unknown = unknown /\ p.due = due
    BY <1>3, <1>5, NoPullIs DEF Pulls
<1>7. PageOK(p, "hosts")
    BY DEF PageOK
<1>8. Honest(p)
    BY <1>3, <1>6 DEF Honest
<1>9. position' \in [Callers -> 0 .. Len(feed)]
    BY <1>1, EventsFacts
<1> QED
    BY <1>1, <1>6, <1>7, <1>8, <1>9, ReaderStep

\* A host left out is named unknown, and the pull goes on with the others.
LEMMA UnknownKeeps ==
    ASSUME EventsIInv, NEW c \in Callers, NEW h \in Hosts, pc[c] # "ingest", Unknown(c, h)
    PROVE  EventsIInv'
<1> DEFINE old == pull[c]
           p == [old EXCEPT !.todo = old.todo \ {h}, !.after = 0,
                            !.unknown = old.unknown \cup {h}]
<1>1. pull \in [Callers -> Pulls] /\ old \in Pulls /\ old.page = {} /\ Honest(old)
    BY EventsFacts DEF EventsIInv, PullInv
<1>2. /\ pull' = [pull EXCEPT ![c] = p] /\ pc' = [pc EXCEPT ![c] = "hosts"]
      /\ UNCHANGED <<log, closed, feed, cursor, position>>
    BY <1>1 DEF Unknown
<1> HIDE DEF old
<1>3. PICK todo \in SUBSET Hosts : todo = old.todo \ {h}
    BY <1>1 DEF Pulls
<1>4. PICK unknown \in SUBSET Hosts : unknown = old.unknown \cup {h}
    BY <1>1 DEF Pulls
<1>5. p = [old EXCEPT !.todo = todo, !.after = 0, !.unknown = unknown]
    BY <1>3, <1>4
<1> HIDE DEF p
<1>6. /\ p \in Pulls /\ p.page = {} /\ p.todo = todo /\ p.unknown = unknown
      /\ p.due = old.due /\ p.more = old.more
    BY <1>1, <1>5 DEF Pulls
<1>7. PageOK(p, "hosts")
    BY DEF PageOK
<1>8. Honest(p)
    BY <1>1, <1>3, <1>4, <1>6 DEF Honest
<1>9. position' \in [Callers -> 0 .. Len(feed)]
    BY <1>2, EventsFacts
<1> QED
    BY <1>2, <1>6, <1>7, <1>8, <1>9, ReaderStep

LEMMA LeaveOutKeeps ==
    ASSUME EventsIInv, NEW c \in Callers, SkipPeer(c) \/ PeerFails(c)
    PROVE  EventsIInv'
<1>1. pc[c] # "ingest" /\ pull[c].todo # {} /\ Unknown(c, NextHost(c))
    BY EventsFacts DEF SkipPeer, PeerFails
<1>2. NextHost(c) \in Hosts
    BY <1>1, EventsFacts, NextHostIs DEF NextHost
<1> QED
    BY <1>1, <1>2, UnknownKeeps

LEMMA ReadCursorKeeps ==
    ASSUME EventsIInv, NEW c \in Callers, ReadCursor(c)
    PROVE  EventsIInv'
<1> DEFINE old == pull[c]
           h == Min(old.todo)
           p == [old EXCEPT !.after = cursor[h]]
<1>1. pull \in [Callers -> Pulls] /\ old \in Pulls /\ Honest(old) /\ cursor \in [Hosts -> Nat]
    BY EventsFacts DEF EventsIInv, PullInv
<1>2. /\ pull' = [pull EXCEPT ![c] = p] /\ pc' = [pc EXCEPT ![c] = "fetch"]
      /\ old.todo # {} /\ pc[c] = "hosts"
      /\ UNCHANGED <<log, closed, feed, cursor, position>>
    BY <1>1 DEF ReadCursor, NextHost
<1>3. h \in Hosts /\ old.page = {}
    BY <1>1, <1>2, NextHostIs, EventsFacts
<1> HIDE DEF old
<1>4. PICK n \in Nat : n = cursor[h]
    BY <1>1, <1>3
<1>5. p = [old EXCEPT !.after = n]
    BY <1>4
<1> HIDE DEF p
<1>6. /\ p \in Pulls /\ p.page = {} /\ p.todo = old.todo /\ p.unknown = old.unknown
      /\ p.due = old.due /\ p.more = old.more /\ p.after = n
    BY <1>1, <1>3, <1>5 DEF Pulls
<1>7. PageOK(p, "fetch")
    BY <1>4, <1>6 DEF PageOK
<1>8. Honest(p)
    BY <1>1, <1>6 DEF Honest
<1>9. position' \in [Callers -> 0 .. Len(feed)]
    BY <1>2, EventsFacts
<1> QED
    BY <1>2, <1>6, <1>7, <1>8, <1>9, ReaderStep

\* What a fetch returns has no gap, and when it is not truncated nothing is left
\* behind it.
LEMMA FetchKeeps ==
    ASSUME EventsIInv, NEW c \in Callers, Fetch(c)
    PROVE  EventsIInv'
<1> DEFINE old == pull[c]
           h == Min(old.todo)
           all == KeptAfter(h, old.after)
           page == FirstOf(all, PageSize)
           cut == IsTruncated(h, page)
           p == [old EXCEPT !.page = page, !.truncated = cut]
<1>1. pull \in [Callers -> Pulls] /\ old \in Pulls /\ Honest(old) /\ PageOK(old, pc[c])
    BY EventsFacts DEF EventsIInv, PullInv
<1>2. /\ pull' = [pull EXCEPT ![c] = p] /\ pc' = [pc EXCEPT ![c] = "ingest"]
      /\ pc[c] = "fetch"
      /\ UNCHANGED <<log, closed, feed, cursor, position>>
    BY <1>1 DEF Fetch, NextHost, PageOf
<1>3. old.todo # {}
    BY <1>2, EventsFacts
<1>4. h \in Hosts /\ old.after <= cursor[h]
    BY <1>1, <1>2, <1>3, NextHostIs DEF PageOK
<1>5. Len(log[h]) \in Nat /\ old.after \in Nat /\ PageSize \in Nat \ {0}
    BY <1>1, <1>4, EventsFacts, HostAssumption DEF Pulls
<1>6. /\ all \subseteq 1 .. Len(log[h]) /\ all \subseteq 0 .. Len(log[h])
      /\ \A s \in all : s \in old.after + 1 .. Len(log[h]) /\ log[h][s].kept
    BY <1>5 DEF KeptAfter
<1>7. page \subseteq all
    BY DEF FirstOf
<1> HIDE DEF all, page, old
<1>8. ASSUME NEW s \in all, NEW t \in page, s <= t
      PROVE  s \in page
    BY <1>5, <1>6, <1>8, FirstPage DEF page
<1>9. ASSUME ~cut, NEW s \in all
      PROVE  s \in page
    <2>1. CASE Cardinality(page) # PageSize
        <3>1. SUFFICES ASSUME s \notin page
                       PROVE  FALSE
            OBVIOUS
        <3>2. Cardinality(page) = PageSize
            BY <1>5, <1>6, <3>1, FullPage DEF page
        <3> QED
            BY <2>1, <3>2
    <2>2. CASE Cardinality(page) = PageSize
        <3>1. page # {}
            BY <1>5, <2>2, FS_EmptySet
        <3>2. Max(page) \in page
            <4>1. page \subseteq 0 .. Len(log[h])
                BY <1>6, <1>7
            <4> QED
                BY <1>5, <3>1, <4>1, Greatest
        <3>3. KeptAfter(h, Max(page)) = {}
            BY <1>9, <2>2 DEF IsTruncated
        <3>4. s <= Max(page)
            <4>1. s \in 1 .. Len(log[h]) /\ Max(page) \in 1 .. Len(log[h]) /\ log[h][s].kept
                BY <1>6, <1>7, <3>2
            <4>2. s \notin Max(page) + 1 .. Len(log[h])
                BY <3>3, <4>1 DEF KeptAfter
            <4> QED
                BY <1>5, <4>1, <4>2
        <3> QED
            BY <1>8, <3>2, <3>4
    <2> QED
        BY <2>1, <2>2
<1>10. PICK truncated \in BOOLEAN : truncated = cut
    BY DEF IsTruncated
<1>11. page \in SUBSET Nat
    BY <1>5, <1>6, <1>7
<1>12. p = [old EXCEPT !.page = page, !.truncated = truncated]
    BY <1>10
<1> HIDE DEF p, cut
<1>13. /\ p \in Pulls /\ p.page = page /\ p.todo = old.todo /\ p.unknown = old.unknown
       /\ p.due = old.due /\ p.more = old.more /\ p.after = old.after
       /\ p.truncated = truncated
    BY <1>1, <1>11, <1>12 DEF Pulls
<1>14. PageOK(p, "ingest")
    <2>1. p.page \subseteq 1 .. Len(log[h])
        BY <1>6, <1>7, <1>13
    <2>2. \A s \in all :
            (\E t \in p.page : s <= t) \/ (~p.truncated /\ s <= p.due[h]) => s \in p.page
        BY <1>8, <1>9, <1>10, <1>13
    <2> QED
        BY <1>4, <1>13, <2>1, <2>2 DEF PageOK, all
<1>15. Honest(p)
    BY <1>1, <1>13 DEF Honest
<1>16. position' \in [Callers -> 0 .. Len(feed)]
    BY <1>2, EventsFacts
<1> QED
    BY <1>2, <1>3, <1>13, <1>14, <1>15, <1>16, ReaderStep

LEMMA EndPullKeeps ==
    ASSUME EventsIInv, NEW c \in Callers, PullFails(c) \/ ReadFeed(c)
    PROVE  EventsIInv'
<1>1. /\ pull' = [pull EXCEPT ![c] = NoPull] /\ pc' = [pc EXCEPT ![c] = "idle"]
      /\ UNCHANGED <<log, closed, feed, cursor>>
    BY DEF PullFails, ReadFeed
<1>2. position \in [Callers -> 0 .. Len(feed)] /\ Len(feed) \in Nat
    BY EventsFacts
<1>3. position' \in [Callers -> 0 .. Len(feed)]
    <2>1. CASE PullFails(c)
        BY <1>2, <2>1 DEF PullFails
    <2>2. CASE ReadFeed(c)
        <3> DEFINE n == Min({position[c] + ReadLimit, Len(feed)})
        <3>1. position[c] + ReadLimit \in Nat
            BY <1>2, HostAssumption
        <3>2. {position[c] + ReadLimit, Len(feed)} \subseteq Nat
            BY <1>2, <3>1
        <3>3. n \in {position[c] + ReadLimit, Len(feed)} /\ n <= Len(feed)
            <4>1. {position[c] + ReadLimit, Len(feed)} # {}
                OBVIOUS
            <4> QED
                BY <3>2, <4>1, Smallest
        <3>4. position' = [position EXCEPT ![c] = n]
            BY <2>2 DEF ReadFeed
        <3> HIDE DEF n
        <3>5. n \in 0 .. Len(feed)
            BY <1>2, <3>1, <3>3
        <3> QED
            BY <1>2, <3>4, <3>5
    <2> QED
        BY <2>1, <2>2
<1>4. NoPull.page = {} /\ NoPull \in Pulls /\ PageOK(NoPull, "idle") /\ Honest(NoPull)
    BY NoPullIs, IdlePull
<1> QED
    BY <1>1, <1>3, <1>4, ReaderStep

\* A page adds to the stream what is not in it, in the host's order, and moves
\* the host's cursor to its end or not at all.
LEMMA IngestKeeps ==
    ASSUME EventsIInv, NEW c \in Callers, Ingest(c)
    PROVE  EventsIInv'
<1> DEFINE old == pull[c]
<1>1. /\ pull \in [Callers -> Pulls] /\ old \in Pulls /\ Honest(old) /\ PageOK(old, pc[c])
      /\ pc \in [Callers -> {"idle", "hosts", "fetch", "ingest"}]
    BY EventsFacts DEF EventsIInv, PullInv
<1>2. PICK h \in old.todo : h \in Hosts /\ h = Min(old.todo)
    <2>1. old.todo # {}
        BY EventsFacts DEF Ingest
    <2> QED
        BY <1>1, <2>1, NextHostIs
<1> DEFINE page == old.page
           W == {s \in page : ~IsFed(h, s)}
           q == Ascending(W)
           N == Cardinality(W)
           added == [i \in DOMAIN q |-> [host |-> h, sequence |-> q[i]]]
           cur == Max({cursor[h]} \cup page)
           p == [old EXCEPT !.todo = old.todo \ {h}, !.more = old.more \/ old.truncated,
                            !.after = 0, !.page = {}, !.truncated = FALSE]
           m == Len(feed)
<1>3. /\ pc[c] = "ingest" /\ pc' = [pc EXCEPT ![c] = "hosts"]
      /\ feed' = feed \o added
      /\ cursor' = [cursor EXCEPT ![h] = cur]
      /\ UNCHANGED <<log, closed, position>>
    BY <1>2 DEF Ingest, NextHost, NewRows, Advanced
<1>4. pull' = [pull EXCEPT ![c] = p]
    BY <1>1, <1>2 DEF Ingest, NextHost, AfterPull
<1>5. /\ Len(log[h]) \in Nat /\ cursor \in [Hosts -> Nat]
      /\ \A k \in Hosts : cursor[k] <= Len(log[k]) /\ Len(log[k]) \in Nat
      /\ feed \in Seq(RunEntry) /\ m \in Nat /\ DOMAIN feed = 1 .. m
      /\ \A i \in 1 .. m : feed[i] \in RunEntry /\ feed[i].host \in Hosts
      /\ \A i \in 1 .. m : feed[i].sequence \in 1 .. cursor[feed[i].host]
      /\ position \in [Callers -> 0 .. m]
    BY <1>2, EventsFacts DEF EventsIInv, FedInv, RunEntry
<1>6. /\ old.after <= cursor[h] /\ page \subseteq 1 .. Len(log[h]) /\ old.after \in Nat
      /\ \A s \in KeptAfter(h, old.after) :
          (\E t \in page : s <= t) \/ (~old.truncated /\ s <= old.due[h]) => s \in page
    BY <1>1, <1>2, <1>3 DEF PageOK, Pulls
<1> HIDE DEF old, page, p
<1>7. /\ N \in Nat /\ q \in [1 .. N -> W]
      /\ \A i, j \in 1 .. N : i < j => q[i] < q[j]
      /\ \A x \in W : \E i \in 1 .. N : q[i] = x
    <2>1. W \subseteq 0 .. Len(log[h])
        <3>1. \A s \in page : s \in 0 .. Len(log[h])
            BY <1>5, <1>6
        <3> QED
            BY <3>1
    <2> HIDE DEF W
    <2> QED
        BY <1>5, <2>1, AscendingIs
<1>8. W \subseteq page /\ \A s \in W : ~IsFed(h, s) /\ s \in 1 .. Len(log[h])
    BY <1>6
<1>9. \A s \in page : s \in W \/ IsFed(h, s)
    OBVIOUS
<1>10. added = [i \in 1 .. N |-> [host |-> h, sequence |-> q[i]]]
    BY <1>7
<1> HIDE DEF W, q, N
<1>11. ASSUME NEW i \in 1 .. N
       PROVE  /\ added[i] = [host |-> h, sequence |-> q[i]] /\ added[i] \in RunEntry
              /\ added[i].host = h /\ added[i].sequence = q[i] /\ q[i] \in W /\ q[i] \in Nat
    <2>1. q[i] \in W
        BY <1>7
    <2>2. q[i] \in Nat
        BY <1>5, <1>8, <2>1
    <2> QED
        BY <1>2, <1>10, <2>1, <2>2 DEF RunEntry
<1>12. added \in Seq(RunEntry) /\ Len(added) = N
    <2>1. added \in [1 .. N -> RunEntry]
        BY <1>10, <1>11
    <2> HIDE DEF added
    <2> QED
        BY <1>7, <2>1
<1> HIDE DEF added
<1>13. /\ feed' \in Seq(RunEntry) /\ Len(feed') = m + N /\ DOMAIN feed' = 1 .. m + N
       /\ \A i \in 1 .. m : feed'[i] = feed[i]
       /\ \A i \in 1 .. N : feed'[m + i] = added[i]
    <2>1. /\ feed' \in Seq(RunEntry) /\ Len(feed') = Len(feed) + Len(added)
          /\ DOMAIN feed' = 1 .. Len(feed')
          /\ \A i \in 1 .. Len(feed) : feed'[i] = feed[i]
          /\ \A i \in 1 .. Len(added) : feed'[Len(feed) + i] = added[i]
        BY <1>3, <1>5, <1>7, <1>12
    <2> QED
        BY <1>12, <2>1
<1>14. ASSUME NEW i \in 1 .. m + N
       PROVE  i \in 1 .. m \/ \E k \in 1 .. N : i = m + k
    <2>1. CASE i <= m
        BY <1>5, <1>7, <2>1
    <2>2. CASE ~(i <= m)
        <3>1. i - m \in 1 .. N /\ i = m + (i - m)
            BY <1>5, <1>7, <2>2
        <3> QED
            BY <3>1
    <2> QED
        BY <2>1, <2>2
<1> HIDE DEF m
<1>15. \A k, s : IsFed(k, s) => IsFed(k, s)'
    <2> SUFFICES ASSUME NEW k, NEW s, IsFed(k, s)
                 PROVE  IsFed(k, s)'
        OBVIOUS
    <2>1. PICK i \in 1 .. m : feed[i] = [host |-> k, sequence |-> s]
        BY <1>5 DEF IsFed, Range
    <2>2. i \in 1 .. m + N
        BY <1>5, <1>7
    <2> QED
        BY <1>13, <2>1, <2>2 DEF IsFed, Range
<1>16. \A s \in page : IsFed(h, s)'
    <2> SUFFICES ASSUME NEW s \in W
                 PROVE  IsFed(h, s)'
        BY <1>9, <1>15
    <2>1. PICK i \in 1 .. N : q[i] = s
        BY <1>7
    <2>2. m + i \in 1 .. m + N
        BY <1>5, <1>7
    <2>3. feed'[m + i] = [host |-> h, sequence |-> s]
        BY <1>11, <1>13, <2>1
    <2> QED
        BY <1>13, <2>2, <2>3 DEF IsFed, Range
<1>17. /\ cur \in 0 .. Len(log[h]) /\ cursor[h] <= cur /\ \A s \in page : s <= cur
       /\ cur = cursor[h] \/ cur \in page
    <2>1. {cursor[h]} \cup page \subseteq 0 .. Len(log[h])
        <3>1. \A s \in page : s \in 0 .. Len(log[h])
            BY <1>5, <1>6
        <3>2. cursor[h] \in 0 .. Len(log[h])
            BY <1>2, <1>5
        <3> QED
            BY <3>1, <3>2
    <2>2. {cursor[h]} \cup page # {}
        OBVIOUS
    <2>3. cur \in {cursor[h]} \cup page /\ \A y \in {cursor[h]} \cup page : y <= cur
        BY <1>5, <2>1, <2>2, Greatest
    <2> HIDE DEF cur
    <2> QED
        BY <2>1, <2>3
<1> HIDE DEF cur
<1>18. /\ cursor' \in [Hosts -> Nat] /\ cursor'[h] = cur
       /\ \A k \in Hosts : k # h => cursor'[k] = cursor[k]
    BY <1>3, <1>2, <1>5, <1>17
<1>19. ASSUME NEW k \in Hosts
       PROVE  /\ cursor[k] \in Nat /\ cursor'[k] \in Nat
              /\ cursor[k] <= cursor'[k] /\ cursor'[k] <= Len(log[k])
    <2>1. CASE k = h
        BY <1>5, <1>17, <1>18, <2>1
    <2>2. CASE k # h
        BY <1>5, <1>18, <2>2
    <2> QED
        BY <2>1, <2>2
<1>20. FedInv'
    <2> SUFFICES ASSUME NEW i \in 1 .. m + N
                 PROVE  feed'[i].sequence \in 1 .. cursor'[feed'[i].host]
        BY <1>13 DEF FedInv
    <2>1. CASE i \in 1 .. m
        BY <1>5, <1>13, <1>19, <2>1
    <2>2. ASSUME NEW k \in 1 .. N, i = m + k
          PROVE  feed'[i].sequence \in 1 .. cursor'[feed'[i].host]
        <3>1. feed'[i].sequence = q[k] /\ feed'[i].host = h /\ q[k] \in W
            BY <1>11, <1>13, <2>2
        <3>2. q[k] \in 1 .. cur
            BY <1>5, <1>8, <1>17, <3>1
        <3> QED
            BY <1>18, <3>1, <3>2
    <2> QED
        BY <1>14, <2>1, <2>2
<1>21. ASSUME NEW i \in 1 .. m, NEW k \in 1 .. N
       PROVE  feed[i] # added[k]
    <2>1. ~IsFed(h, q[k])
        BY <1>8, <1>11
    <2> QED
        BY <1>5, <1>11, <2>1 DEF IsFed, Range
<1>22. \A i, j \in 1 .. N : q[i] = q[j] => i = j
    <2> SUFFICES ASSUME NEW i \in 1 .. N, NEW j \in 1 .. N, i # j
                 PROVE  q[i] # q[j]
        OBVIOUS
    <2>1. q[i] \in Nat /\ q[j] \in Nat
        BY <1>11
    <2>2. i < j \/ j < i
        BY <1>7
    <2> QED
        BY <1>7, <2>1, <2>2
<1>23. FedOnce'
    <2>1. ASSUME NEW i \in 1 .. m + N, NEW j \in 1 .. m + N, feed'[i] = feed'[j]
          PROVE  i = j
        <3>1. CASE i \in 1 .. m /\ j \in 1 .. m
            BY <1>5, <1>13, <2>1, <3>1 DEF EventsIInv, FedOnce
        <3>2. ASSUME NEW k \in 1 .. N, i = m + k, j \in 1 .. m
              PROVE  FALSE
            BY <1>13, <1>21, <2>1, <3>2
        <3>3. ASSUME NEW k \in 1 .. N, j = m + k, i \in 1 .. m
              PROVE  FALSE
            BY <1>13, <1>21, <2>1, <3>3
        <3>4. ASSUME NEW k \in 1 .. N, NEW l \in 1 .. N, i = m + k, j = m + l
              PROVE  i = j
            <4>1. added[k] = added[l]
                BY <1>13, <2>1, <3>4
            <4>2. q[k] = q[l]
                BY <1>11, <4>1
            <4> QED
                BY <1>22, <3>4, <4>2
        <3> QED
            BY <1>14, <3>1, <3>2, <3>3, <3>4
    <2> QED
        BY <1>13, <2>1 DEF FedOnce
<1>24. FeedComplete'
    <2> SUFFICES ASSUME NEW k \in Hosts, NEW s \in 1 .. cursor'[k], log[k][s].kept
                 PROVE  IsFed(k, s)'
        BY <1>3 DEF FeedComplete
    <2>1. CASE s <= cursor[k]
        <3>1. s \in 1 .. cursor[k]
            BY <1>19, <2>1
        <3>2. IsFed(k, s)
            BY <3>1 DEF EventsIInv, FeedComplete
        <3> QED
            BY <1>15, <3>2
    <2>2. CASE ~(s <= cursor[k])
        <3>1. k = h /\ s \in Nat /\ cur # cursor[h]
            BY <1>18, <1>19, <2>2
        <3>2. cur \in page /\ s <= cur
            BY <1>17, <1>18, <3>1
        <3>3. s \in KeptAfter(h, old.after)
            <4>1. s \in old.after + 1 .. Len(log[h])
                BY <1>5, <1>6, <1>17, <1>19, <2>2, <3>1, <3>2
            <4> QED
                BY <3>1, <4>1 DEF KeptAfter
        <3>4. s \in page
            BY <1>6, <3>2, <3>3
        <3> QED
            BY <1>16, <3>1, <3>4
    <2> QED
        BY <2>1, <2>2
<1>25. HostOrder'
    <2> SUFFICES ASSUME NEW i \in 1 .. m + N, NEW j \in 1 .. m + N, i < j,
                        feed'[i].host = feed'[j].host, feed'[i].sequence > feed'[j].sequence
                 PROVE  ~log[feed'[j].host][feed'[j].sequence].kept
        BY <1>3, <1>13 DEF HostOrder
    <2>1. CASE i \in 1 .. m /\ j \in 1 .. m
        BY <1>5, <1>13, <2>1 DEF EventsIInv, HostOrder
    <2>2. ASSUME NEW k \in 1 .. N, i \in 1 .. m, j = m + k
          PROVE  ~log[feed'[j].host][feed'[j].sequence].kept
        <3>1. feed'[j].host = h /\ feed'[j].sequence = q[k] /\ q[k] \in W /\ feed'[i] = feed[i]
            BY <1>11, <1>13, <2>2
        <3>2. ~IsFed(h, q[k]) /\ q[k] \in 1 .. Len(log[h])
            BY <1>8, <3>1
        <3>3. feed[i].sequence \in 1 .. cursor[h] /\ feed[i].sequence > q[k]
            BY <1>5, <2>2, <3>1
        <3>4. q[k] \in 1 .. cursor[h]
            BY <1>2, <1>19, <3>2, <3>3
        <3> QED
            BY <1>2, <3>1, <3>2, <3>4 DEF EventsIInv, FeedComplete
    <2>3. ASSUME NEW k \in 1 .. N, i = m + k
          PROVE  FALSE
        <3>1. PICK l \in 1 .. N : j = m + l
            BY <1>5, <1>14, <2>3
        <3>2. k < l
            BY <1>5, <1>7, <2>3, <3>1
        <3>3. q[k] < q[l] /\ q[k] \in Nat /\ q[l] \in Nat
            BY <1>7, <1>11, <3>2
        <3>4. feed'[i].sequence = q[k] /\ feed'[j].sequence = q[l]
            BY <1>11, <1>13, <2>3, <3>1
        <3>5. q[k] > q[l]
            BY <3>4
        <3> QED
            BY <3>3, <3>5
    <2> QED
        BY <1>14, <2>1, <2>2, <2>3
<1>26. PICK todo \in SUBSET Hosts : todo = old.todo \ {h}
    BY <1>1 DEF Pulls
<1>27. PICK more \in BOOLEAN : more <=> old.more \/ old.truncated
    OBVIOUS
<1>28. p = [old EXCEPT !.todo = todo, !.more = more, !.after = 0, !.page = {},
                       !.truncated = FALSE]
    <2>1. more = (old.more \/ old.truncated)
        BY <1>27
    <2> QED
        BY <1>26, <2>1 DEF p
<1>29. /\ p \in Pulls /\ p.page = {} /\ p.todo = todo /\ p.unknown = old.unknown
       /\ p.due = old.due /\ p.more = more
    BY <1>1, <1>28 DEF Pulls
<1>30. /\ pull' \in [Callers -> Pulls] /\ pull'[c] = p
       /\ \A d \in Callers : d # c => pull'[d] = pull[d]
       /\ pc' \in [Callers -> {"idle", "hosts", "fetch", "ingest"}] /\ pc'[c] = "hosts"
       /\ \A d \in Callers : d # c => pc'[d] = pc[d]
    BY <1>1, <1>3, <1>4, <1>29
<1>31. EventsTypeOK'
    <2>1. \A d \in Callers : /\ pull'[d].page # {} => pc'[d] = "ingest"
                             /\ pc'[d] \in {"fetch", "ingest"} => pull'[d].todo # {}
        BY <1>29, <1>30, EventsFacts
    <2>2. position' \in [Callers -> 0 .. Len(feed')]
        BY <1>3, <1>5, <1>7, <1>13
    <2>3. \A k \in Hosts : cursor'[k] <= Len(log'[k])
        BY <1>3, <1>19
    <2> QED
        BY <1>3, <1>13, <1>18, <1>30, <2>1, <2>2, <2>3 DEF EventsIInv, EventsTypeOK
<1>32. ASSUME NEW d \in Callers, d # c
       PROVE  PageOK(pull[d], pc[d])' /\ Honest(pull[d])'
    <2> DEFINE r == pull[d]
               g == Min(r.todo)
    <2>1. r \in Pulls /\ PageOK(r, pc[d]) /\ Honest(r)
        BY EventsFacts DEF EventsIInv, PullInv
    <2>2. pull'[d] = r /\ pc'[d] = pc[d]
        BY <1>30, <1>32
    <2>3. ASSUME pc[d] \in {"fetch", "ingest"}
          PROVE  r.after <= cursor'[g]
        <3>1. g \in Hosts
            <4>1. r.todo # {}
                BY <2>3, EventsFacts
            <4> QED
                BY <2>1, <4>1, NextHostIs
        <3>2. r.after <= cursor[g] /\ r.after \in Nat
            BY <2>1, <2>3 DEF PageOK, Pulls
        <3> HIDE DEF r, g
        <3> QED
            BY <1>19, <3>1, <3>2
    <2>4. PageOK(pull[d], pc[d])'
        BY <1>3, <2>1, <2>2, <2>3 DEF PageOK, KeptAfter
    <2>5. Honest(pull[d])'
        BY <1>3, <1>15, <2>1, <2>2 DEF Honest
    <2> QED
        BY <2>4, <2>5
<1>33. PageOK(pull[c], pc[c])'
    BY <1>30 DEF PageOK
<1>34. Honest(pull[c])'
    <2>1. \A k \in Hosts : p.due[k] <= Len(log'[k])
        BY <1>1, <1>3, <1>29 DEF Honest
    <2>2. ASSUME ~p.more, NEW k \in Hosts \ (p.todo \cup p.unknown), NEW s \in 1 .. p.due[k],
                 log[k][s].kept
          PROVE  IsFed(k, s)'
        <3>1. ~old.more /\ ~old.truncated
            BY <1>27, <1>29, <2>2
        <3>2. CASE k # h
            <4>1. k \in Hosts \ (old.todo \cup old.unknown)
                BY <1>26, <1>29, <3>2
            <4>2. IsFed(k, s)
                BY <1>1, <1>29, <2>2, <3>1, <4>1 DEF Honest
            <4> QED
                BY <1>15, <4>2
        <3>3. CASE k = h
            <4>1. s \in 1 .. old.due[h] /\ old.due[h] \in Nat /\ old.due[h] <= Len(log[h])
                BY <1>1, <1>2, <1>29, <3>3 DEF Honest, Pulls
            <4>2. CASE s <= cursor[h]
                <5>1. s \in 1 .. cursor[h]
                    BY <1>2, <1>19, <4>1, <4>2
                <5>2. IsFed(h, s)
                    BY <1>2, <2>2, <3>3, <5>1 DEF EventsIInv, FeedComplete
                <5> QED
                    BY <1>15, <3>3, <5>2
            <4>3. CASE ~(s <= cursor[h])
                <5>1. s \in old.after + 1 .. Len(log[h])
                    BY <1>2, <1>5, <1>6, <1>19, <4>1, <4>3
                <5>2. s \in KeptAfter(h, old.after)
                    BY <2>2, <3>3, <5>1 DEF KeptAfter
                <5>3. s \in page
                    BY <1>6, <3>1, <4>1, <5>2
                <5> QED
                    BY <1>16, <3>3, <5>3
            <4> QED
                BY <4>2, <4>3
        <3> QED
            BY <3>2, <3>3
    <2> QED
        BY <1>3, <1>30, <2>1, <2>2 DEF Honest
<1>35. PullInv'
    BY <1>32, <1>33, <1>34 DEF PullInv
<1> QED
    BY <1>20, <1>23, <1>24, <1>25, <1>31, <1>35 DEF EventsIInv

LEMMA EventsNextKeeps ==
    ASSUME EventsIInv, [EventsNext]_eventVars
    PROVE  EventsIInv'
<1>1. ASSUME NEW c \in Callers, Reader(c)
      PROVE  EventsIInv'
    BY <1>1, StartPullKeeps, LeaveOutKeeps, ReadCursorKeeps, FetchKeeps, IngestKeeps,
       EndPullKeeps DEF Reader
<1>2. CASE EventsNext
    BY <1>1, <1>2, ChangeKeeps, RetentionKeeps DEF EventsNext
<1>3. CASE UNCHANGED eventVars
    <2>1. UNCHANGED <<log, closed, feed, cursor, pc, pull, position>>
        BY <1>3 DEF eventVars
    <2>2. \A h \in Hosts : Len(log[h]) <= Len(log'[h])
        BY <2>1, EventsFacts
    <2> QED
        BY <2>1, <2>2, EventsFacts, LogStep
<1> QED
    BY <1>2, <1>3

LEMMA EventsInitIInv ==
    ASSUME EventsInit
    PROVE  EventsIInv
<1>1. /\ log \in [Hosts -> Seq(LogRows)] /\ \A h \in Hosts : log[h] = <<>> /\ Len(log[h]) = 0
      /\ feed = <<>> /\ feed \in Seq(RunEntry) /\ DOMAIN feed = {} /\ Len(feed) = 0
      /\ cursor \in [Hosts -> Nat] /\ \A h \in Hosts : cursor[h] = 0
    BY DEF EventsInit
<1>2. /\ pull \in [Callers -> Pulls] /\ \A c \in Callers : pull[c] = NoPull
      /\ pc \in [Callers -> {"idle", "hosts", "fetch", "ingest"}]
      /\ \A c \in Callers : pc[c] = "idle"
      /\ position \in [Callers -> 0 .. Len(feed)] /\ closed \subseteq Attempts
    BY <1>1, NoPullIs DEF EventsInit
<1>3. EventsTypeOK
    <2>1. \A h \in Hosts : \A s \in DOMAIN log[h] : HostOf[log[h][s].attempt] = h
        BY <1>1
    <2>2. \A h \in Hosts : cursor[h] <= Len(log[h])
        BY <1>1
    <2> QED
        BY <1>1, <1>2, <2>1, <2>2, NoPullIs DEF EventsTypeOK, LogRows
<1>4. FedInv /\ FedOnce /\ FeedComplete /\ HostOrder
    BY <1>1 DEF FedInv, FedOnce, FeedComplete, HostOrder
<1>5. PageOK(NoPull, "idle") /\ Honest(NoPull)
    <2>1. \A h \in Hosts : NoPull.due[h] <= Len(log[h]) /\ 1 .. NoPull.due[h] = {}
        BY <1>1, NoPullIs
    <2> QED
        BY <2>1 DEF PageOK, Honest
<1>6. PullInv
    BY <1>2, <1>5 DEF PullInv
<1> QED
    BY <1>3, <1>4, <1>6 DEF EventsIInv

\* The invariant of the stream, its cursors and its readers holds of every
\* behaviour, whichever readers cross, fail or end half-way.
THEOREM EventsInvariance == EventsSpec => []EventsIInv
<1>1. EventsInit => EventsIInv
    BY EventsInitIInv
<1>2. EventsIInv /\ [EventsNext]_eventVars => EventsIInv'
    BY EventsNextKeeps
<1> QED
    BY <1>1, <1>2, PTL DEF EventsSpec

\* The stream is faithful to every host's log, for any hosts, readers, page size
\* and retention: nothing twice, nothing kept left behind a cursor, nothing out
\* of order (ingest_run_events).
THEOREM FeedFaithfulHolds == EventsSpec => []FeedFaithful
<1>1. EventsIInv => FeedFaithful
    BY DEF EventsIInv, FeedFaithful
<1> QED
    BY <1>1, EventsInvariance, PTL

\* A finished pull that names no unknown host and no pending page left out no
\* event that existed when it began and is still kept (pull_events_from).
THEOREM CoverageIsHonestHolds == EventsSpec => []CoverageIsHonest
<1>1. EventsIInv => CoverageIsHonest
    BY DEF EventsIInv, PullInv, Honest, CoverageIsHonest
<1> QED
    BY <1>1, EventsInvariance, PTL
=============================================================================
