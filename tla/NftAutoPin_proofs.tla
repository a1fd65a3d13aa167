------------------------- MODULE NftAutoPin_proofs -------------------------
(***************************************************************************)
(* What NftAutoPin does for every finite set of tokens, every set of pins  *)
(* they need, and whatever goes wrong however often.                       *)
(***************************************************************************)
EXTENDS NftAutoPin, SequenceTheorems, FiniteSetTheorems, TLAPS

-----------------------------------------------------------------------------
(* Lemmas about the sequences of the model *)

\* The indices of a sequence that have a property are finitely many.
LEMMA IndicesFinite ==
  ASSUME NEW n \in Nat, NEW K \in SUBSET (1 .. n)
  PROVE  /\ IsFiniteSet(K)
         /\ Cardinality(K) \in 0 .. n
<1>1. IsFiniteSet(1 .. n) /\ Cardinality(1 .. n) = n
  BY FS_Interval, 0 \in Int, 1 \in Int, n \in Int
<1>2. IsFiniteSet(K) /\ Cardinality(K) <= n
  BY <1>1, FS_Subset
<1> QED
  BY <1>2, FS_CardinalityType

\* An end of a sequence holds its elements, in the same order.
LEMMA EndOfSeq ==
  ASSUME NEW S, NEW q \in Seq(S), NEW n \in 0 .. Len(q)
  PROVE  /\ SubSeq(q, n + 1, Len(q)) \in Seq(S)
         /\ Len(SubSeq(q, n + 1, Len(q))) = Len(q) - n
         /\ \A k \in 1 .. Len(q) - n : SubSeq(q, n + 1, Len(q))[k] = q[n + k]
<1>1. Len(q) \in Nat /\ \A k \in n + 1 .. Len(q) : q[k] \in S
  BY LenProperties, ElementOfSeq
<1> QED
  BY <1>1, SubSeqProperties

\* Running the intents that have nothing to do drops a beginning of the queue.
LEMMA AfterMootEffect ==
  ASSUME NEW q \in Seq(Intents), NEW st
  PROVE  \E n \in 0 .. Len(q) : AfterMoot(q, st) = SubSeq(q, n + 1, Len(q))
<1> DEFINE moot == {k \in DOMAIN q : \A m \in 1 .. k : IsMoot(q[m], st)}
<1>1. Len(q) \in Nat /\ moot \in SUBSET (1 .. Len(q))
  BY LenProperties
<1>2. Cardinality(moot) \in 0 .. Len(q)
  BY <1>1, IndicesFinite
<1>3. AfterMoot(q, st) = SubSeq(q, Cardinality(moot) + 1, Len(q))
  BY DEF AfterMoot
<1> HIDE DEF moot
<1> QED
  BY <1>2, <1>3

\* The number of elements of a set of indices up to one of them numbers them.
LEMMA Numbering ==
  ASSUME NEW n \in Nat, NEW K \in SUBSET (1 .. n), NEW i \in 1 .. Cardinality(K)
  PROVE  \E k \in K : Cardinality({m \in K : m <= k}) = i
<1> DEFINE upTo(k) == {m \in K : m <= k}
           f == [k \in K |-> Cardinality(upTo(k))]
           c == Cardinality(K)
<1>1. IsFiniteSet(K) /\ c \in Nat
  BY IndicesFinite
<1>2. ASSUME NEW k \in K
      PROVE  IsFiniteSet(upTo(k)) /\ Cardinality(upTo(k)) \in 1 .. c
  <2>1. upTo(k) \in SUBSET K /\ k \in upTo(k)
    BY SMT
  <2>2. IsFiniteSet(upTo(k)) /\ Cardinality(upTo(k)) <= c
    BY <1>1, <2>1, FS_Subset
  <2>3. Cardinality(upTo(k)) \in Nat
    BY <2>2, FS_CardinalityType
  <2>4. Cardinality(upTo(k)) # 0
    BY <2>1, <2>2, FS_EmptySet
  <2> HIDE DEF upTo
  <2> QED
    BY <1>1, <2>2, <2>3, <2>4
<1>3. ASSUME NEW j \in K, NEW k \in K, j < k
      PROVE  Cardinality(upTo(j)) # Cardinality(upTo(k))
  <2>1. upTo(j) \in SUBSET upTo(k) /\ k \in upTo(k) /\ k \notin upTo(j)
    <3>1. K \subseteq Int
      OBVIOUS
    <3>2. ASSUME NEW m \in K, m <= j
          PROVE  m <= k
      BY <1>3, <3>1, <3>2
    <3>3. k <= k /\ ~(k <= j)
      BY <1>3, <3>1
    <3> QED
      BY <3>2, <3>3
  <2>2. IsFiniteSet(upTo(k))
    BY <1>2
  <2> HIDE DEF upTo
  <2> QED
    BY <2>1, <2>2, FS_Subset
<1>4. f \in Injection(K, 1 .. c)
  <2>1. f \in [K -> 1 .. c]
    BY <1>2
  <2>2. ASSUME NEW j \in K, NEW k \in K, f[j] = f[k]
        PROVE  j = k
    <3>1. f[j] = Cardinality(upTo(j)) /\ f[k] = Cardinality(upTo(k))
      OBVIOUS
    <3> HIDE DEF upTo, f
    <3>2. j \in Int /\ k \in Int
      OBVIOUS
    <3>3. ~(j < k) /\ ~(k < j)
      BY <1>3, <2>2, <3>1
    <3> QED
      BY <3>2, <3>3
  <2> HIDE DEF f
  <2> QED
    BY <2>1, <2>2 DEF Injection, IsInjective
<1>5. IsFiniteSet(1 .. c) /\ Cardinality(1 .. c) = c
  BY <1>1, FS_Interval
<1>6. f \in Surjection(K, 1 .. c)
  BY <1>4, <1>5, FS_Injection
<1>7. PICK k \in K : f[k] = i
  BY <1>6 DEF Surjection
<1> QED
  BY <1>7

\* What Without leaves is the intents about other tokens, none of them twice
\* unless it was there twice.
LEMMA WithoutEffect ==
  ASSUME NEW t, NEW q \in Seq(Intents)
  PROVE  /\ Without(t, q) \in Seq(Intents)
         /\ \E f \in [DOMAIN Without(t, q) -> DOMAIN q] :
              /\ \A n \in DOMAIN Without(t, q) :
                   Without(t, q)[n] = q[f[n]] /\ q[f[n]].token # t
              /\ \A m, n \in DOMAIN Without(t, q) : f[m] = f[n] => m = n
<1> DEFINE kept == {k \in DOMAIN q : q[k].token # t}
           c == Cardinality(kept)
           rank(k) == Cardinality({m \in kept : m <= k})
           f == [n \in 1 .. c |-> CHOOSE k \in kept : rank(k) = n]
<1>1. Len(q) \in Nat /\ kept \in SUBSET (1 .. Len(q))
  BY LenProperties
<1>2. c \in Nat
  BY <1>1, IndicesFinite
<1>3. ASSUME NEW n \in 1 .. c
      PROVE  f[n] \in kept /\ rank(f[n]) = n
  <2>1. \E k \in kept : rank(k) = n
    <3> HIDE DEF kept
    <3> QED
      BY <1>1, Numbering
  <2> HIDE DEF kept, rank
  <2> QED
    BY <2>1
<1>4. Without(t, q) = [n \in 1 .. c |-> q[f[n]]]
  BY DEF Without
<1>5. \A n \in 1 .. c : q[f[n]] \in Intents /\ q[f[n]].token # t
  <2>1. \A k \in kept : q[k] \in Intents /\ q[k].token # t
    BY <1>1, ElementOfSeq
  <2> HIDE DEF kept, f
  <2> QED
    BY <1>3, <2>1
<1>6. f \in [1 .. c -> DOMAIN q]
  <2>1. \A n \in 1 .. c : f[n] \in DOMAIN q
    BY <1>3
  <2> QED
    BY <2>1
<1>7. \A m, n \in 1 .. c : f[m] = f[n] => m = n
  <2> HIDE DEF kept, f, rank
  <2> QED
    BY <1>3
<1> HIDE DEF f, c
<1>8. Without(t, q) \in Seq(Intents) /\ DOMAIN Without(t, q) = 1 .. c
  BY <1>2, <1>4, <1>5
<1>9. \A n \in DOMAIN Without(t, q) :
        Without(t, q)[n] = q[f[n]] /\ q[f[n]].token # t
  BY <1>4, <1>5, <1>8
<1>10. /\ f \in [DOMAIN Without(t, q) -> DOMAIN q]
       /\ \A m, n \in DOMAIN Without(t, q) : f[m] = f[n] => m = n
  BY <1>6, <1>7, <1>8
<1> QED
  BY <1>8, <1>9, <1>10

-----------------------------------------------------------------------------
(* Type correctness of the operators *)

\* What the queue of intents answers with.
IsDispatch(d) ==
  /\ d.current \in Intents \cup {NoIntent}
  /\ d.queue \in Seq(Intents)
  /\ d.status \in [Tokens -> Statuses]
  /\ d.fetch \subseteq Fetches
  /\ d.work \in Seq(Work)

\* An intent that was taken from the queue and started.
StartedFrom(i, q, st) ==
  [current |-> i,
   queue   |-> q,
   status  |-> IF i.op = "delete" THEN [st EXCEPT ![i.token] = "unpinning"]
               ELSE st,
   fetch   |-> IF i.op = "add" THEN {[token |-> i.token, live |-> TRUE]}
               ELSE {},
   work    |-> IF i.op = "add" THEN <<>>
               ELSE <<[kind  |-> IF i.op = "delete" THEN "remove"
                                 ELSE "verify",
                       token |-> i.token, live |-> TRUE]>>]

\* An intent that goes on, or none.
NotStarted(c, q, st) ==
  [current |-> c, queue |-> q, status |-> st, fetch |-> {}, work |-> <<>>]

\* CheckQueue starts the intent at some place of the queue and keeps the later
\* ones, or it keeps what runs, or there is nothing left to run.
LEMMA CheckQueueEffect ==
  ASSUME NEW c, NEW q \in Seq(Intents), NEW st
  PROVE  \/ /\ c # NoIntent
            /\ CheckQueue(c, q, st) = NotStarted(c, q, st)
         \/ /\ c = NoIntent
            /\ CheckQueue(c, q, st) = NotStarted(c, <<>>, st)
         \/ /\ c = NoIntent
            /\ \E n \in 1 .. Len(q) :
                 CheckQueue(c, q, st) =
                   StartedFrom(q[n], SubSeq(q, n + 1, Len(q)), st)
<1> DEFINE rest == AfterMoot(q, st)
<1>1. CASE c # NoIntent
  BY <1>1 DEF CheckQueue, NotStarted
<1>2. CASE c = NoIntent /\ rest = <<>>
  BY <1>2 DEF CheckQueue, NotStarted
<1>3. CASE c = NoIntent /\ rest # <<>>
  <2>1. PICK n \in 0 .. Len(q) : rest = SubSeq(q, n + 1, Len(q))
    BY AfterMootEffect
  <2>2. Len(q) \in Nat
    BY LenProperties
  <2>3. n < Len(q)
    <3>1. ~(Len(q) < n + 1)
      BY <1>3, <2>1, <2>2, SubSeqEmpty
    <3> QED
      BY <2>2, <3>1
  <2>4. n + 1 \in 1 .. Len(q) /\ Len(q) \in n + 1 .. Len(q)
    BY <2>2, <2>3
  <2>5. Head(rest) = q[n + 1] /\ Tail(rest) = SubSeq(q, n + 1 + 1, Len(q))
    BY <2>1, <2>4, HeadTailOfSubSeq
  <2>6. CheckQueue(c, q, st) = StartedFrom(Head(rest), Tail(rest), st)
    <3> HIDE DEF rest
    <3>1. AfterMoot(q, st) = rest
      BY DEF rest
    <3> QED
      BY <1>3, <3>1 DEF CheckQueue, StartedFrom
  <2> HIDE DEF rest
  <2> QED
    BY <1>3, <2>4, <2>5, <2>6
<1> QED
  BY <1>1, <1>2, <1>3

\* Starting an intent answers with what can be run.
LEMMA StartedFromType ==
  ASSUME NEW i \in Intents, NEW q \in Seq(Intents),
         NEW st \in [Tokens -> Statuses]
  PROVE  IsDispatch(StartedFrom(i, q, st))
<1> DEFINE d == StartedFrom(i, q, st)
<1>1. i.token \in Tokens /\ i.op \in {"add", "delete", "validate"}
  BY DEF Intents
<1>2. d.status \in [Tokens -> Statuses]
  BY <1>1 DEF StartedFrom, Statuses
<1>3. d.fetch \subseteq Fetches
  <2>1. d.fetch \subseteq {[token |-> i.token, live |-> TRUE]}
    BY DEF StartedFrom
  <2>2. [token |-> i.token, live |-> TRUE] \in Fetches
    BY <1>1 DEF Fetches
  <2> HIDE DEF d
  <2> QED
    BY <2>1, <2>2
<1>4. d.work \in Seq(Work)
  <2>1. CASE i.op = "add"
    BY <2>1, EmptySeq DEF StartedFrom
  <2>2. CASE i.op # "add"
    <3>1. [kind |-> IF i.op = "delete" THEN "remove" ELSE "verify",
           token |-> i.token, live |-> TRUE] \in Work
      BY <1>1 DEF Work
    <3> QED
      BY <2>2, <3>1 DEF StartedFrom
  <2> QED
    BY <2>1, <2>2
<1> QED
  BY <1>2, <1>3, <1>4 DEF IsDispatch, StartedFrom

\* CheckQueue answers with what can be run.
LEMMA CheckQueueType ==
  ASSUME NEW c \in Intents \cup {NoIntent}, NEW q \in Seq(Intents),
         NEW st \in [Tokens -> Statuses]
  PROVE  IsDispatch(CheckQueue(c, q, st))
<1>1. <<>> \in Seq(Intents) /\ <<>> \in Seq(Work)
  BY EmptySeq
<1>2. IsDispatch(NotStarted(c, q, st)) /\ IsDispatch(NotStarted(c, <<>>, st))
  BY <1>1 DEF IsDispatch, NotStarted
<1>3. ASSUME NEW n \in 1 .. Len(q)
      PROVE  IsDispatch(StartedFrom(q[n], SubSeq(q, n + 1, Len(q)), st))
  <2>1. q[n] \in Intents /\ n \in 0 .. Len(q)
    BY ElementOfSeq, LenProperties
  <2>2. SubSeq(q, n + 1, Len(q)) \in Seq(Intents)
    BY <2>1, EndOfSeq
  <2> QED
    BY <2>1, <2>2, StartedFromType
<1> QED
  BY <1>2, <1>3, CheckQueueEffect

\* AddOrExecute answers with what can be run.
LEMMA AddOrExecuteType ==
  ASSUME NEW i \in Intents, NEW c \in Intents \cup {NoIntent},
         NEW q \in Seq(Intents), NEW st \in [Tokens -> Statuses], NEW toks
  PROVE  IsDispatch(AddOrExecute(i, c, q, st, toks))
<1>1. Append(q, i) \in Seq(Intents)
  BY AppendProperties
<1>2. Marked(i, st) \in [Tokens -> Statuses]
  BY DEF Marked, Intents, Statuses
<1> QED
  BY <1>1, <1>2, CheckQueueType DEF AddOrExecute

\* A finite set is listed by sequences of its elements.
LEMMA OrdersType ==
  ASSUME NEW S, IsFiniteSet(S), NEW s \in Orders(S)
  PROVE  s \in Seq(S)
<1>1. Cardinality(S) \in Nat
  BY FS_CardinalityType
<1> QED
  BY <1>1 DEF Orders

\* What Restore asks for is finite, and made of intents.
LEMMA WishesType ==
  ASSUME NEW st, NEW due \in SUBSET Tokens, wallet \subseteq Tokens
  PROVE  /\ Wishes(due, st) \subseteq Intents
         /\ Unwanted(st) \subseteq Intents
         /\ IsFiniteSet(Wishes(due, st))
         /\ IsFiniteSet(Unwanted(st))
<1>1. Wishes(due, st) \subseteq Intents /\ Unwanted(st) \subseteq Intents
  BY DEF Wishes, Unwanted, Intents
<1>2. IsFiniteSet(Intents)
  <2> DEFINE ops == {"add", "delete", "validate"}
             f == [x \in ops \X Tokens |-> [op |-> x[1], token |-> x[2]]]
  <2>1. IsFiniteSet(ops)
    <3>1. IsFiniteSet({"add"}) /\ IsFiniteSet({"delete"})
                               /\ IsFiniteSet({"validate"})
      BY FS_Singleton
    <3>2. IsFiniteSet({"add"} \cup {"delete"})
      BY <3>1, FS_Union
    <3>3. IsFiniteSet(({"add"} \cup {"delete"}) \cup {"validate"})
      BY <3>1, <3>2, FS_Union
    <3>4. ops = ({"add"} \cup {"delete"}) \cup {"validate"}
      OBVIOUS
    <3> QED
      BY <3>3, <3>4
  <2>2. IsFiniteSet(ops \X Tokens)
    <3> HIDE DEF ops
    <3> QED
      BY <2>1, PinJobsAssumption, FS_Product
  <2>3. f \in Surjection(ops \X Tokens, Intents)
    <3>1. f \in [ops \X Tokens -> Intents]
      BY DEF Intents
    <3>2. ASSUME NEW i \in Intents
          PROVE  \E x \in ops \X Tokens : f[x] = i
      <4>1. i.op \in ops /\ i.token \in Tokens
            /\ i = [op |-> i.op, token |-> i.token]
        BY DEF Intents
      <4>2. f[<<i.op, i.token>>] = i
        BY <4>1
      <4> HIDE DEF f
      <4> QED
        BY <4>1, <4>2
    <3> HIDE DEF f, ops
    <3> QED
      BY <3>1, <3>2 DEF Surjection
  <2> HIDE DEF f, ops
  <2> QED
    BY <2>2, <2>3, FS_Surjection
<1> QED
  BY <1>1, <1>2, FS_Subset

\* Restore answers with what can be run.
LEMMA RestoredType ==
  ASSUME NEW st \in [Tokens -> Statuses], wallet \subseteq Tokens,
         NEW d \in Restored(st)
  PROVE  IsDispatch(d)
<1> DEFINE marked == [t \in Tokens |->
        IF t \in wallet
        THEN IF st[t] \in {"pinned", "refused"} THEN st[t] ELSE "pinning_pending"
        ELSE IF st[t] = "none" THEN "none" ELSE "unpinning_pending"]
<1>1. \E due \in SUBSET {t \in wallet : st[t] = "pinned"} :
        \E ws \in Orders(Wishes(due, st)), us \in Orders(Unwanted(st)) :
          d = CheckQueue(NoIntent, ws \o us, marked)
  BY DEF Restored
<1>2. PICK due \in SUBSET {t \in wallet : st[t] = "pinned"} :
        \E ws \in Orders(Wishes(due, st)), us \in Orders(Unwanted(st)) :
          d = CheckQueue(NoIntent, ws \o us, marked)
  BY <1>1
<1>3. PICK ws \in Orders(Wishes(due, st)), us \in Orders(Unwanted(st)) :
        d = CheckQueue(NoIntent, ws \o us, marked)
  BY <1>2
<1>4. ws \in Seq(Intents) /\ us \in Seq(Intents)
  BY WishesType, OrdersType, SeqMonotonic
<1>5. ws \o us \in Seq(Intents)
  BY <1>4, ConcatProperties
<1>6. marked \in [Tokens -> Statuses]
  BY DEF Statuses
<1> HIDE DEF marked
<1> QED
  BY <1>3, <1>5, <1>6, CheckQueueType

\* The part of the type invariant that a step of the job queue may disturb.
QueueTypeOK ==
  /\ jobs \in Seq(Work \cup {GcJob})
  /\ job \in Running \cup {NoJob}
  /\ timers \in 0 .. MaxPolls
  /\ bound \in BOOLEAN
  /\ pending \in Waiters

\* The part that a step of the queue of intents may disturb.
IntentTypeOK ==
  /\ current \in Intents \cup {NoIntent}
  /\ queue \in Seq(Intents)
  /\ status \in [Tokens -> Statuses]
  /\ fetches \subseteq Fetches

\* The bounds on what goes wrong are kept.
UpsetTypeOK == upsets \in 0 .. MaxUpsets /\ met \subseteq Upsets

LEMMA UpsetType ==
  ASSUME TypeOK, NEW kind, Upset(kind) \/ Calm
  PROVE  UpsetTypeOK'
<1>1. MaxUpsets \in Nat
  BY AutoPinAssumption
<1> QED
  BY <1>1 DEF TypeOK, UpsetTypeOK, Upset, Calm

\* One more is still within the bound.
LEMMA OneMoreType ==
  ASSUME NEW n \in 0 .. MaxPolls
  PROVE  OneMore(n) \in 0 .. MaxPolls
BY PinJobsAssumption DEF OneMore

LEMMA StartedType ==
  ASSUME TypeOK, NEW w \in Work \cup {GcJob}
  PROVE  Started(w) \in Running
<1>1. Asked(w) \in SUBSET Requests
  <2>1. CASE w = GcJob
    BY <2>1 DEF Asked, GcJob, Requests
  <2>2. CASE w \in Work
    <3>1. w.kind \in {"add", "remove", "verify"} /\ w.token \in Tokens
      BY <2>2 DEF Work
    <3>2. PinsOf[w.token] \subseteq Pins
      BY <3>1, PinJobsAssumption
    <3>3. {p[2] : p \in PinsOf[w.token]} \subseteq Requests
      BY <3>2 DEF Pins, Requests
    <3> QED
      BY <3>1, <3>3 DEF Asked, Requests
  <2> QED
    BY <2>1, <2>2
<1>2. up \in BOOLEAN
  BY DEF TypeOK, DaemonTypeOK
<1>3. (IF up THEN Asked(w) ELSE {}) \in SUBSET Requests
  BY <1>1
<1>4. (up \/ w.kind = "remove") \in BOOLEAN
  OBVIOUS
<1> QED
  BY <1>3, <1>4 DEF Started, Running

LEMMA DoNextJobType ==
  ASSUME TypeOK, NEW js \in Seq(Work \cup {GcJob}), NEW isReady,
         DoNextJob(js, isReady)
  PROVE  QueueTypeOK'
<1>1. CASE js # <<>> /\ isReady
  <2>1. Head(js) \in Work \cup {GcJob} /\ Tail(js) \in Seq(Work \cup {GcJob})
    BY <1>1, HeadTailProperties
  <2>2. job' \in Running /\ jobs' \in Seq(Work \cup {GcJob})
    BY <1>1, <2>1, StartedType DEF DoNextJob
  <2> QED
    BY <1>1, <2>2 DEF DoNextJob, QueueTypeOK, TypeOK, PinJobTypeOK, DaemonTypeOK
<1>2. CASE ~(js # <<>> /\ isReady)
  <2>1. job' = NoJob /\ jobs' = js
        /\ (MaybeStartDaemon \/ UNCHANGED <<timers, bound, pending>>)
    BY <1>2 DEF DoNextJob
  <2>2. timers' \in 0 .. MaxPolls
    <3>1. timers' = timers \/ timers' = OneMore(timers)
      BY <2>1 DEF MaybeStartDaemon
    <3> QED
      BY <3>1, OneMoreType DEF TypeOK, PinJobTypeOK
  <2>3. bound' \in BOOLEAN /\ pending' \in Waiters
    BY <2>1 DEF MaybeStartDaemon, LaunchDaemon, TypeOK, DaemonTypeOK, Waiters
  <2> QED
    BY <2>1, <2>2, <2>3 DEF QueueTypeOK
<1> QED
  BY <1>1, <1>2

LEMMA AddJobType ==
  ASSUME TypeOK, NEW w \in Work \cup {GcJob}, AddJob(w)
  PROVE  QueueTypeOK'
<1>1. Append(jobs, w) \in Seq(Work \cup {GcJob})
  BY AppendProperties DEF TypeOK, PinJobTypeOK
<1>2. CASE job = NoJob
  BY <1>1, <1>2, DoNextJobType DEF AddJob
<1>3. CASE job # NoJob
  BY <1>1, <1>3 DEF AddJob, QueueTypeOK, TypeOK, PinJobTypeOK, DaemonTypeOK
<1> QED
  BY <1>2, <1>3

LEMMA EnqueuedType ==
  ASSUME TypeOK, NEW d, IsDispatch(d), Enqueued(d)
  PROVE  QueueTypeOK'
<1>1. CASE d.work = <<>>
  BY <1>1 DEF Enqueued, QueueTypeOK, TypeOK, PinJobTypeOK, DaemonTypeOK
<1>2. CASE d.work # <<>>
  <2>1. Head(d.work) \in Work
    BY <1>2, HeadTailProperties DEF IsDispatch
  <2> QED
    BY <1>2, <2>1, AddJobType DEF Enqueued
<1> QED
  BY <1>1, <1>2

LEMMA DispatchedType ==
  ASSUME NEW d, IsDispatch(d), NEW fs \in SUBSET Fetches, Dispatched(d, fs)
  PROVE  IntentTypeOK'
BY DEF IsDispatch, Dispatched, IntentTypeOK

\* A callback that is dropped leaves what is to be done.
LEMMA OrphanedType ==
  /\ \A w \in Work \cup {GcJob} : Orphaned(w) \in Work \cup {GcJob}
  /\ \A f \in Fetches : Orphaned(f) \in Fetches
<1>1. ASSUME NEW w \in Work
      PROVE  Orphaned(w) \in Work
  BY DEF Orphaned, Work
<1>2. Orphaned(GcJob) = GcJob
  <2>1. GcJob \in [kind : {"gc"}, live : {FALSE}]
    BY DEF GcJob
  <2>2. ASSUME NEW g \in [kind : {"gc"}, live : {FALSE}]
        PROVE  [g EXCEPT !.live = FALSE] = g
    BY <2>2
  <2> QED
    BY <2>1, <2>2, Zenon DEF Orphaned
<1>3. ASSUME NEW f \in Fetches
      PROVE  Orphaned(f) \in Fetches
  BY DEF Orphaned, Fetches
<1> QED
  BY <1>1, <1>2, <1>3

\* The rest of the type invariant.
OtherTypeOK ==
  /\ installed \in BOOLEAN
  /\ up \in BOOLEAN
  /\ present \subseteq Pins
  /\ ready \in BOOLEAN
  /\ asks \in 0 .. MaxPolls
  /\ recorded \in [Pins -> SUBSET Tokens]
  /\ gcPosted \in BOOLEAN
  /\ gcTimers \in 0 .. MaxPolls
  /\ cli \in [step: {"never", "ls", "rm", "done", "failed"}, left: SUBSET Cids]
  /\ enabled \in BOOLEAN
  /\ wallet \subseteq Tokens
  /\ news \in Seq([added: BOOLEAN, token: Tokens])
  /\ resetNews \in BOOLEAN
  /\ tokens \subseteq Tokens
  /\ retries \subseteq Intents
  /\ changes \in 0 .. MaxChanges

LEMMA TypeParts ==
  TypeOK <=> QueueTypeOK /\ IntentTypeOK /\ UpsetTypeOK /\ OtherTypeOK
BY DEF TypeOK, DaemonTypeOK, PinJobTypeOK, QueueTypeOK, IntentTypeOK,
       UpsetTypeOK, OtherTypeOK

LEMMA NextTypeParts ==
  ASSUME QueueTypeOK', IntentTypeOK', UpsetTypeOK', OtherTypeOK'
  PROVE  TypeOK'
BY DEF TypeOK, DaemonTypeOK, PinJobTypeOK, QueueTypeOK, IntentTypeOK,
       UpsetTypeOK, OtherTypeOK

LEMMA TypeInit == Init => TypeOK
<1> SUFFICES ASSUME Init PROVE TypeOK
  OBVIOUS
<1> USE PinJobsAssumption, AutoPinAssumption
<1>1. QueueTypeOK
  <2>1. <<>> \in Seq(Work \cup {GcJob})
    BY EmptySeq
  <2>2. jobs \in Seq(Work \cup {GcJob}) /\ job \in Running \cup {NoJob}
    BY <2>1, Zenon DEF Init, PinJobInit
  <2>3. timers \in 0 .. MaxPolls
    BY DEF Init, PinJobInit
  <2>4. bound \in BOOLEAN /\ pending \in Waiters
    BY Zenon DEF Init, DaemonInit, Waiters
  <2> QED
    BY <2>2, <2>3, <2>4 DEF QueueTypeOK
<1>2. IntentTypeOK
  BY EmptySeq DEF Init, IntentTypeOK, Statuses
<1>3. UpsetTypeOK
  BY DEF Init, UpsetTypeOK
<1>4. OtherTypeOK
  <2>1. <<>> \in Seq([added: BOOLEAN, token: Tokens])
    BY EmptySeq
  <2>2. [p \in Pins |-> {}] \in [Pins -> SUBSET Tokens]
    OBVIOUS
  <2>3. [step |-> "never", left |-> {}] \in
          [step: {"never", "ls", "rm", "done", "failed"}, left: SUBSET Cids]
    OBVIOUS
  <2>4. news \in Seq([added: BOOLEAN, token: Tokens])
    BY <2>1, Zenon DEF Init
  <2>5. /\ recorded \in [Pins -> SUBSET Tokens]
        /\ cli \in [step: {"never", "ls", "rm", "done", "failed"},
                    left: SUBSET Cids]
    BY <2>2, <2>3, Zenon DEF Init, PinJobInit
  <2>6. asks \in 0 .. MaxPolls /\ gcTimers \in 0 .. MaxPolls
        /\ changes \in 0 .. MaxChanges
    BY DEF Init, PinJobInit
  <2> QED
    BY <2>4, <2>5, <2>6 DEF Init, DaemonInit, PinJobInit, OtherTypeOK
<1> QED
  BY <1>1, <1>2, <1>3, <1>4, TypeParts

\* The effect of the requests of a job on the node is on its pins.
LEMMA EffectType ==
  ASSUME TypeOK, NEW R
  PROVE  Effect(R) \subseteq Pins
<1>1. present \subseteq Pins
  BY TypeParts DEF OtherTypeOK
<1>2. CASE job.what.kind = "add"
  <2>1. job \in Running
    BY <1>2, TypeParts DEF QueueTypeOK, NoJob, Nothing
  <2>2. job.what.token \in Tokens
    BY <1>2, <2>1 DEF Running, Work, GcJob
  <2>3. PinsOf[job.what.token] \subseteq Pins
    BY <2>2, PinJobsAssumption
  <2> QED
    BY <1>1, <1>2, <2>3 DEF Effect
<1>3. CASE job.what.kind # "add"
  BY <1>1, <1>3 DEF Effect
<1> QED
  BY <1>2, <1>3

LEMMA JobDestroyedType ==
  ASSUME TypeOK, JobDestroyed
  PROVE  present' \subseteq Pins
BY EffectType DEF JobDestroyed

LEMMA CliGoesOnType ==
  ASSUME TypeOK, NEW left, CliGoesOn(left)
  PROVE  /\ status' \in [Tokens -> Statuses]
         /\ recorded' \in [Pins -> SUBSET Tokens]
         /\ left \subseteq Cids =>
              cli' \in [step: {"never", "ls", "rm", "done", "failed"},
                        left: SUBSET Cids]
<1>1. status \in [Tokens -> Statuses] /\ recorded \in [Pins -> SUBSET Tokens]
  BY TypeParts DEF IntentTypeOK, OtherTypeOK
<1>2. /\ [t \in Tokens |-> "none"] \in [Tokens -> Statuses]
      /\ [p \in Pins |-> {}] \in [Pins -> SUBSET Tokens]
  BY DEF Statuses
<1>3. status' \in [Tokens -> Statuses] /\ recorded' \in [Pins -> SUBSET Tokens]
  BY <1>1, <1>2, Zenon DEF CliGoesOn
<1>4. ASSUME left \subseteq Cids
      PROVE  cli' \in [step: {"never", "ls", "rm", "done", "failed"},
                       left: SUBSET Cids]
  BY <1>4 DEF CliGoesOn
<1> QED
  BY <1>3, <1>4

\* There is nothing to drop where no job runs.
LEMMA OrphanedNoJob ==
  ASSUME job = NoJob
  PROVE  [job EXCEPT !.what = Orphaned(job.what)] = NoJob
<1> DEFINE R == [what: {Nothing}, wait: {{}}, ok: {TRUE}, seen: {{}}, sweep: {{}}]
<1>1. Orphaned(Nothing) = Nothing
  <2>1. Nothing \in [kind : {"none"}, live : {FALSE}]
    BY DEF Nothing
  <2>2. ASSUME NEW g \in [kind : {"none"}, live : {FALSE}]
        PROVE  [g EXCEPT !.live = FALSE] = g
    BY <2>2
  <2> QED
    BY <2>1, <2>2, Zenon DEF Orphaned
<1>2. [NoJob EXCEPT !.what = Nothing] = NoJob
  <2>1. NoJob \in R
    BY DEF NoJob
  <2>2. ASSUME NEW r \in R
        PROVE  [r EXCEPT !.what = Nothing] = r
    BY <2>2
  <2> QED
    BY <2>1, <2>2, Zenon
<1>3. NoJob.what = Nothing
  BY DEF NoJob
<1> QED
  BY <1>1, <1>2, <1>3

\* What is retried is an intent.
LEMMA RetriesType ==
  ASSUME TypeOK, NEW again, again => current # NoIntent, PostRetry(again)
  PROVE  retries' \subseteq Intents
BY DEF TypeOK, PostRetry

-----------------------------------------------------------------------------
(* What is waited for: the argument of CurrentIsAwaited *)

\* The callbacks of the jobs js, behind a job w that runs, are for the intent c,
\* and at most one is left.
AwaitedInLine(c, w, js) ==
  /\ w.live => c = IntentOf(w)
  /\ \A k \in DOMAIN js : js[k].live =>
       /\ c = IntentOf(js[k])
       /\ ~w.live
       /\ \A m \in DOMAIN js : js[m].live => m = k

LiveInLine(w, js) == w.live \/ \E k \in DOMAIN js : js[k].live

LiveFetch(fs) == \E f \in fs : f.live

\* The same with the metadata that is fetched.
AwaitedOnce(c, fs, w, js) ==
  /\ AwaitedInLine(c, w, js)
  /\ \A f \in fs : f.live =>
       c = [op |-> "add", token |-> f.token] /\ ~LiveInLine(w, js)

StillAwaited(c, fs, w, js) == c # NoIntent => LiveInLine(w, js) \/ LiveFetch(fs)

\* The inductive invariant behind CurrentIsAwaited, which type correctness needs
\* as well: what is retried is the intent that was running.
IntentAwaited ==
  /\ AwaitedOnce(current, fetches, job.what, jobs)
  /\ met \cap {"stop", "renew"} = {} =>
       StillAwaited(current, fetches, job.what, jobs)
  /\ queue # <<>> => current # NoIntent
  /\ ~enabled => current = NoIntent /\ retries = {}
  /\ ~ready => job = NoJob

\* What the queue of intents answers with, when c was running, is for no intent
\* or for the one that is running from then on.
IsHandover(c, d) ==
  /\ d.queue # <<>> => d.current # NoIntent
  /\ \/ d.current = c /\ d.fetch = {} /\ d.work = <<>>
     \/ /\ c = NoIntent
        /\ d.current # NoIntent
        /\ \/ /\ d.work = <<>>
              /\ \E t \in Tokens :
                   /\ d.fetch = {[token |-> t, live |-> TRUE]}
                   /\ d.current = [op |-> "add", token |-> t]
           \/ /\ d.fetch = {}
              /\ \E w \in Work :
                   d.work = <<w>> /\ w.live /\ d.current = IntentOf(w)

LEMMA NoIntentIsNone == NoIntent \notin Intents
BY DEF NoIntent, Intents

LEMMA StartedFromHandover ==
  ASSUME NEW i \in Intents, NEW q, NEW st
  PROVE  IsHandover(NoIntent, StartedFrom(i, q, st))
<1> DEFINE d == StartedFrom(i, q, st)
<1>1. i.op \in {"add", "delete", "validate"} /\ i.token \in Tokens
      /\ i = [op |-> i.op, token |-> i.token]
  BY DEF Intents
<1>2. d.current = i /\ i # NoIntent
  BY NoIntentIsNone DEF StartedFrom
<1>3. ASSUME i.op = "add"
      PROVE  IsHandover(NoIntent, d)
  <2>1. d.work = <<>> /\ d.fetch = {[token |-> i.token, live |-> TRUE]}
    BY <1>3 DEF StartedFrom
  <2>2. d.current = [op |-> "add", token |-> i.token]
    BY <1>1, <1>2, <1>3
  <2> HIDE DEF d
  <2> QED
    BY <1>1, <1>2, <2>1, <2>2 DEF IsHandover
<1>4. ASSUME i.op # "add"
      PROVE  IsHandover(NoIntent, d)
  <2> DEFINE w == [kind |-> IF i.op = "delete" THEN "remove" ELSE "verify",
                   token |-> i.token, live |-> TRUE]
  <2>1. d.fetch = {} /\ d.work = <<w>>
    BY <1>4 DEF StartedFrom
  <2>2. w \in Work /\ w.live
    BY <1>1 DEF Work
  <2>3. IntentOf(w) = i
    BY <1>1, <1>4 DEF IntentOf
  <2> HIDE DEF d, w
  <2> QED
    BY <1>2, <2>1, <2>2, <2>3 DEF IsHandover
<1> QED
  BY <1>3, <1>4

LEMMA CheckQueueHandover ==
  ASSUME NEW c, NEW q \in Seq(Intents), NEW st
  PROVE  IsHandover(c, CheckQueue(c, q, st))
<1>1. ASSUME NEW n \in 1 .. Len(q), c = NoIntent
      PROVE  IsHandover(c, StartedFrom(q[n], SubSeq(q, n + 1, Len(q)), st))
  BY <1>1, ElementOfSeq, StartedFromHandover
<1>2. c # NoIntent => IsHandover(c, NotStarted(c, q, st))
  BY DEF IsHandover, NotStarted
<1>3. c = NoIntent => IsHandover(c, NotStarted(c, <<>>, st))
  BY DEF IsHandover, NotStarted
<1> QED
  BY <1>1, <1>2, <1>3, CheckQueueEffect

LEMMA AddOrExecuteHandover ==
  ASSUME NEW i \in Intents, NEW c, NEW q \in Seq(Intents), NEW st, NEW toks
  PROVE  IsHandover(c, AddOrExecute(i, c, q, st, toks))
<1>1. Append(q, i) \in Seq(Intents)
  BY AppendProperties
<1> QED
  BY <1>1, CheckQueueHandover DEF AddOrExecute

LEMMA RestoredHandover ==
  ASSUME NEW st, wallet \subseteq Tokens, NEW d \in Restored(st)
  PROVE  IsHandover(NoIntent, d)
<1> DEFINE marked == [t \in Tokens |->
        IF t \in wallet
        THEN IF st[t] \in {"pinned", "refused"} THEN st[t] ELSE "pinning_pending"
        ELSE IF st[t] = "none" THEN "none" ELSE "unpinning_pending"]
<1>1. PICK due \in SUBSET {t \in wallet : st[t] = "pinned"} :
        \E ws \in Orders(Wishes(due, st)), us \in Orders(Unwanted(st)) :
          d = CheckQueue(NoIntent, ws \o us, marked)
  BY DEF Restored
<1>2. PICK ws \in Orders(Wishes(due, st)), us \in Orders(Unwanted(st)) :
        d = CheckQueue(NoIntent, ws \o us, marked)
  BY <1>1
<1>3. ws \in Seq(Intents) /\ us \in Seq(Intents)
  BY WishesType, OrdersType, SeqMonotonic
<1>4. ws \o us \in Seq(Intents)
  BY <1>3, ConcatProperties
<1> HIDE DEF marked
<1> QED
  BY <1>2, <1>4, CheckQueueHandover

\* A job that is put at the end of the line of jobs.
LEMMA LongerLine ==
  ASSUME NEW S, NEW js \in Seq(S), NEW x \in S
  PROVE  /\ js \o <<x>> = Append(js, x)
         /\ DOMAIN Append(js, x) = DOMAIN js \cup {Len(js) + 1}
         /\ Len(js) + 1 \notin DOMAIN js
         /\ \A k \in DOMAIN js : Append(js, x)[k] = js[k]
         /\ Append(js, x)[Len(js) + 1] = x
<1>1. Len(js) \in Nat /\ DOMAIN js = 1 .. Len(js)
  BY LenProperties
<1>2. js \o <<x>> = Append(js, x)
  BY AppendIsConcat
<1>3. /\ Append(js, x) \in Seq(S) /\ Len(Append(js, x)) = Len(js) + 1
      /\ \A k \in 1 .. Len(js) : Append(js, x)[k] = js[k]
      /\ Append(js, x)[Len(js) + 1] = x
  BY AppendProperties
<1>4. DOMAIN Append(js, x) = 1 .. Len(js) + 1
  BY <1>3, LenProperties
<1> QED
  BY <1>1, <1>2, <1>3, <1>4

\* What is handed over is awaited, once it is in line.
LEMMA HandedOver ==
  ASSUME NEW c, NEW d, IsHandover(c, d), NEW fs, NEW w,
         NEW js \in Seq(Work \cup {GcJob}),
         c = NoIntent => ~LiveInLine(w, js) /\ ~LiveFetch(fs),
         AwaitedOnce(c, fs, w, js)
  PROVE  /\ AwaitedOnce(d.current, fs \cup d.fetch, w, js \o d.work)
         /\ StillAwaited(c, fs, w, js) =>
              StillAwaited(d.current, fs \cup d.fetch, w, js \o d.work)
<1>1. CASE d.current = c /\ d.fetch = {} /\ d.work = <<>>
  <2>1. fs \cup d.fetch = fs /\ js \o d.work = js
    BY <1>1, ConcatEmptySeq
  <2> QED
    BY <1>1, <2>1
<1>2. CASE c = NoIntent /\ d.current # NoIntent /\ d.work = <<>>
           /\ \E t \in Tokens : /\ d.fetch = {[token |-> t, live |-> TRUE]}
                                /\ d.current = [op |-> "add", token |-> t]
  <2>1. js \o d.work = js
    BY <1>2, ConcatEmptySeq
  <2>2. ~LiveInLine(w, js) /\ ~LiveFetch(fs)
    BY <1>2
  <2>3. PICK t \in Tokens : /\ d.fetch = {[token |-> t, live |-> TRUE]}
                            /\ d.current = [op |-> "add", token |-> t]
    BY <1>2
  <2>4. AwaitedInLine(d.current, w, js)
    BY <2>2 DEF LiveInLine, AwaitedInLine
  <2>5. ASSUME NEW f \in fs \cup d.fetch, f.live
        PROVE  d.current = [op |-> "add", token |-> f.token]
    BY <2>2, <2>3, <2>5 DEF LiveFetch
  <2>6. LiveFetch(fs \cup d.fetch)
    <3>1. [token |-> t, live |-> TRUE].live
      OBVIOUS
    <3> QED
      BY <2>3, <3>1 DEF LiveFetch
  <2> QED
    BY <2>1, <2>2, <2>4, <2>5, <2>6 DEF AwaitedOnce, StillAwaited
<1>3. CASE c = NoIntent /\ d.current # NoIntent /\ d.fetch = {}
           /\ \E x \in Work :
                d.work = <<x>> /\ x.live /\ d.current = IntentOf(x)
  <2>1. PICK x \in Work : d.work = <<x>> /\ x.live /\ d.current = IntentOf(x)
    BY <1>3
  <2>2. ~LiveInLine(w, js) /\ ~LiveFetch(fs)
    BY <1>3
  <2> DEFINE new == Append(js, x)
             last == Len(js) + 1
  <2>3. /\ js \o d.work = new
        /\ DOMAIN new = DOMAIN js \cup {last}
        /\ last \notin DOMAIN js
        /\ \A k \in DOMAIN js : new[k] = js[k]
        /\ new[last] = x
    BY <2>1, LongerLine
  <2> HIDE DEF new, last
  <2>4. AwaitedInLine(d.current, w, new) /\ LiveInLine(w, new)
    BY <2>1, <2>2, <2>3 DEF LiveInLine, AwaitedInLine
  <2>5. fs \cup d.fetch = fs
    BY <1>3
  <2> QED
    BY <2>2, <2>3, <2>4, <2>5 DEF AwaitedOnce, StillAwaited, LiveFetch
<1> QED
  BY <1>1, <1>2, <1>3 DEF IsHandover

\* The first of the line becomes the job that runs.
LEMMA LineMoves ==
  ASSUME NEW c, NEW fs, NEW js \in Seq(Work \cup {GcJob}), js # <<>>,
         AwaitedOnce(c, fs, Nothing, js)
  PROVE  /\ AwaitedOnce(c, fs, Head(js), Tail(js))
         /\ StillAwaited(c, fs, Nothing, js) =>
              StillAwaited(c, fs, Head(js), Tail(js))
<1>1. /\ Len(js) \in Nat \ {0}
      /\ DOMAIN js = 1 .. Len(js)
      /\ Head(js) = js[1]
      /\ DOMAIN Tail(js) = 1 .. Len(js) - 1
      /\ \A k \in 1 .. Len(js) - 1 : Tail(js)[k] = js[k + 1]
  BY LenProperties, EmptySeq, HeadTailProperties
<1>2. ~Nothing.live
  BY DEF Nothing
<1>3. AwaitedInLine(c, Head(js), Tail(js))
  <2>1. \A k \in DOMAIN js : js[k].live =>
          c = IntentOf(js[k]) /\ \A m \in DOMAIN js : js[m].live => m = k
    BY DEF AwaitedOnce, AwaitedInLine
  <2>2. Head(js).live => c = IntentOf(Head(js))
    BY <1>1, <2>1
  <2>3. ASSUME NEW k \in DOMAIN Tail(js), Tail(js)[k].live
        PROVE  /\ c = IntentOf(Tail(js)[k])
               /\ ~Head(js).live
               /\ \A m \in DOMAIN Tail(js) : Tail(js)[m].live => m = k
    <3>1. k \in Nat /\ k + 1 \in DOMAIN js /\ 1 \in DOMAIN js /\ k + 1 # 1
          /\ js[k + 1].live
      BY <1>1, <2>3
    <3>2. c = IntentOf(Tail(js)[k]) /\ ~Head(js).live
      BY <1>1, <2>1, <2>3, <3>1
    <3>3. ASSUME NEW m \in DOMAIN Tail(js), Tail(js)[m].live
          PROVE  m = k
      <4>1. m \in Nat /\ m + 1 \in DOMAIN js /\ js[m + 1].live
        BY <1>1, <3>3
      <4>2. m + 1 = k + 1
        BY <2>1, <3>1, <4>1
      <4> QED
        BY <3>1, <4>1, <4>2
    <3> QED
      BY <3>2, <3>3
  <2> QED
    BY <2>2, <2>3 DEF AwaitedInLine
<1>4. LiveInLine(Nothing, js) <=> LiveInLine(Head(js), Tail(js))
  <2>1. ASSUME NEW k \in DOMAIN js, js[k].live, k # 1
        PROVE  k - 1 \in DOMAIN Tail(js) /\ Tail(js)[k - 1].live
    BY <1>1, <2>1
  <2>2. ASSUME NEW k \in DOMAIN Tail(js), Tail(js)[k].live
        PROVE  k + 1 \in DOMAIN js /\ js[k + 1].live
    BY <1>1, <2>2
  <2>3. 1 \in DOMAIN js
    BY <1>1
  <2> QED
    BY <1>1, <1>2, <2>1, <2>2, <2>3 DEF LiveInLine
<1> QED
  BY <1>3, <1>4 DEF AwaitedOnce, StillAwaited

\* DoNextJob leaves the line as it is, or moves it.
LEMMA DoNextJobMoves ==
  ASSUME TypeOK, NEW js \in Seq(Work \cup {GcJob}), NEW isReady,
         DoNextJob(js, isReady), NEW c, NEW fs,
         AwaitedOnce(c, fs, Nothing, js)
  PROVE  /\ AwaitedOnce(c, fs, job'.what, jobs')
         /\ StillAwaited(c, fs, Nothing, js) =>
              StillAwaited(c, fs, job'.what, jobs')
<1>1. CASE js # <<>> /\ isReady
  <2>1. job'.what = Head(js) /\ jobs' = Tail(js)
    BY <1>1 DEF DoNextJob, Started
  <2> QED
    BY <1>1, <2>1, LineMoves
<1>2. CASE ~(js # <<>> /\ isReady)
  <2>1. job' = NoJob /\ job'.what = Nothing /\ jobs' = js
    BY <1>2 DEF DoNextJob, NoJob
  <2> QED
    BY <2>1
<1> QED
  BY <1>1, <1>2

\* AddJob puts the job in line, and may move the line.
LEMMA AddJobMoves ==
  ASSUME TypeOK, NEW w \in Work \cup {GcJob}, AddJob(w), NEW c, NEW fs,
         ~ready => job = NoJob,
         AwaitedOnce(c, fs, job.what, Append(jobs, w))
  PROVE  /\ AwaitedOnce(c, fs, job'.what, jobs')
         /\ StillAwaited(c, fs, job.what, Append(jobs, w)) =>
              StillAwaited(c, fs, job'.what, jobs')
         /\ ~ready => job' = NoJob
<1>1. Append(jobs, w) \in Seq(Work \cup {GcJob})
  BY AppendProperties DEF TypeOK, PinJobTypeOK
<1>2. CASE job = NoJob
  <2>1. job.what = Nothing /\ DoNextJob(Append(jobs, w), ready)
    BY <1>2 DEF AddJob, NoJob
  <2>2. AwaitedOnce(c, fs, Nothing, Append(jobs, w))
    BY <2>1
  <2>3. /\ AwaitedOnce(c, fs, job'.what, jobs')
        /\ StillAwaited(c, fs, Nothing, Append(jobs, w)) =>
             StillAwaited(c, fs, job'.what, jobs')
    BY <1>1, <2>1, <2>2, DoNextJobMoves
  <2>4. ~ready => job' = NoJob
    BY <2>1 DEF DoNextJob
  <2> QED
    BY <2>1, <2>3, <2>4
<1>3. CASE job # NoJob
  BY <1>3 DEF AddJob
<1> QED
  BY <1>2, <1>3

\* The same for what the queue of intents answers with.
LEMMA EnqueuedMoves ==
  ASSUME TypeOK, NEW e, NEW d, IsDispatch(d), IsHandover(e, d), Enqueued(d),
         NEW c, NEW fs,
         ~ready => job = NoJob,
         AwaitedOnce(c, fs, job.what, jobs \o d.work)
  PROVE  /\ AwaitedOnce(c, fs, job'.what, jobs')
         /\ StillAwaited(c, fs, job.what, jobs \o d.work) =>
              StillAwaited(c, fs, job'.what, jobs')
         /\ ~ready => job' = NoJob
<1>1. jobs \in Seq(Work \cup {GcJob})
  BY DEF TypeOK, PinJobTypeOK
<1>2. CASE d.work = <<>>
  <2>1. jobs \o d.work = jobs /\ jobs' = jobs /\ job' = job
    BY <1>1, <1>2, ConcatEmptySeq DEF Enqueued
  <2> QED
    BY <2>1
<1>3. CASE d.work # <<>>
  <2>1. PICK w \in Work : d.work = <<w>>
    BY <1>3 DEF IsHandover
  <2>2. Head(d.work) = w
    BY <2>1
  <2>3. AddJob(w) /\ jobs \o d.work = Append(jobs, w)
    BY <1>1, <1>3, <2>1, <2>2, LongerLine DEF Enqueued
  <2> QED
    BY <2>3, AddJobMoves
<1> QED
  BY <1>2, <1>3


LEMMA UserChangesType ==
  ASSUME TypeOK, NEW t \in Tokens, UserChanges(t)
  PROVE  TypeOK'
<1> USE DEF daemonVars, pinJobVars, autoPinVars
<1>1. QueueTypeOK /\ IntentTypeOK /\ UpsetTypeOK /\ OtherTypeOK
  BY TypeParts
<1>2. QueueTypeOK'
  BY <1>1 DEF UserChanges, QueueTypeOK
<1>3. IntentTypeOK'
  BY <1>1 DEF UserChanges, IntentTypeOK
<1>4. UpsetTypeOK'
  BY UpsetType DEF UserChanges
<1>5. OtherTypeOK'
  <2>1. changes' \in 0 .. MaxChanges
    BY <1>1, AutoPinAssumption DEF UserChanges, OtherTypeOK
  <2>2. news' \in Seq([added: BOOLEAN, token: Tokens])
    <3>1. [added |-> t \notin wallet, token |-> t] \in
            [added: BOOLEAN, token: Tokens]
      OBVIOUS
    <3> QED
      BY <1>1, <3>1, AppendProperties DEF UserChanges, OtherTypeOK
  <2>3. wallet' \subseteq Tokens
    BY <1>1 DEF UserChanges, OtherTypeOK
  <2> QED
    BY <1>1, <2>1, <2>2, <2>3 DEF UserChanges, OtherTypeOK
<1> QED
  BY <1>2, <1>3, <1>4, <1>5, NextTypeParts

LEMMA TokenNewsArrivesType ==
  ASSUME TypeOK, TokenNewsArrives
  PROVE  TypeOK'
<1> USE DEF daemonVars, pinJobVars, autoPinVars
<1>1. QueueTypeOK /\ IntentTypeOK /\ UpsetTypeOK /\ OtherTypeOK
  BY TypeParts
<1> DEFINE t == Head(news).token
           added == Head(news).added
           toks == IF added THEN tokens \cup {t} ELSE tokens \ {t}
           i == [op |-> IF added THEN "add" ELSE "delete", token |-> t]
           d == AddOrExecute(i, current, Without(t, queue), status, toks)
<1>6. /\ t \in Tokens /\ added \in BOOLEAN
      /\ news' \in Seq([added: BOOLEAN, token: Tokens])
  <2>1. Head(news) \in [added: BOOLEAN, token: Tokens]
    BY <1>1, HeadTailProperties DEF TokenNewsArrives, OtherTypeOK
  <2>2. news' \in Seq([added: BOOLEAN, token: Tokens])
    BY <1>1, HeadTailProperties DEF TokenNewsArrives, OtherTypeOK
  <2> QED
    BY <2>1, <2>2
<1>7. IsDispatch(d)
  <2>1. i \in Intents
    BY <1>6 DEF Intents
  <2>2. Without(t, queue) \in Seq(Intents)
    BY <1>1, WithoutEffect DEF IntentTypeOK
  <2> HIDE DEF i, t, added, toks
  <2> QED
    BY <1>1, <2>1, <2>2, AddOrExecuteType DEF IntentTypeOK
<1>8. \/ tokens' = toks /\ Dispatched(d, fetches) /\ Enqueued(d)
      \/ UNCHANGED <<tokens, current, queue, status, fetches, jobs, job,
                     timers, bound, pending>>
  BY DEF TokenNewsArrives
<1>9. toks \subseteq Tokens
  BY <1>1, <1>6 DEF OtherTypeOK
<1> HIDE DEF d, toks, added, t, i
<1>2. QueueTypeOK'
  BY <1>1, <1>7, <1>8, EnqueuedType DEF QueueTypeOK
<1>3. IntentTypeOK'
  BY <1>1, <1>7, <1>8, DispatchedType DEF IntentTypeOK
<1>4. UpsetTypeOK'
  BY UpsetType DEF TokenNewsArrives
<1>5. OtherTypeOK'
  BY <1>1, <1>6, <1>8, <1>9 DEF TokenNewsArrives, OtherTypeOK
<1> QED
  BY <1>2, <1>3, <1>4, <1>5, NextTypeParts

LEMMA RetryFiresType ==
  ASSUME TypeOK, NEW i \in Intents, RetryFires(i)
  PROVE  TypeOK'
<1> USE DEF daemonVars, pinJobVars, autoPinVars
<1>1. QueueTypeOK /\ IntentTypeOK /\ UpsetTypeOK /\ OtherTypeOK
  BY TypeParts
<1> DEFINE d == AddOrExecute(i, current, queue, status, tokens)
<1>6. IsDispatch(d)
  BY <1>1, AddOrExecuteType DEF IntentTypeOK
<1>7. Dispatched(d, fetches) /\ Enqueued(d)
  BY DEF RetryFires
<1> HIDE DEF d
<1>2. QueueTypeOK'
  BY <1>6, <1>7, EnqueuedType
<1>3. IntentTypeOK'
  BY <1>1, <1>6, <1>7, DispatchedType DEF IntentTypeOK
<1>4. UpsetTypeOK'
  BY UpsetType DEF RetryFires
<1>5. OtherTypeOK'
  BY <1>1 DEF RetryFires, OtherTypeOK
<1> QED
  BY <1>2, <1>3, <1>4, <1>5, NextTypeParts

LEMMA SwitchOnType ==
  ASSUME TypeOK, SwitchOn
  PROVE  TypeOK'
<1> USE DEF daemonVars, pinJobVars, autoPinVars
<1>1. QueueTypeOK /\ IntentTypeOK /\ UpsetTypeOK /\ OtherTypeOK
  BY TypeParts
<1>6. PICK d \in Restored(status) : Dispatched(d, fetches) /\ Enqueued(d)
  BY DEF SwitchOn
<1>7. IsDispatch(d)
  BY <1>1, RestoredType DEF IntentTypeOK, OtherTypeOK
<1>2. QueueTypeOK'
  BY <1>6, <1>7, EnqueuedType
<1>3. IntentTypeOK'
  BY <1>1, <1>6, <1>7, DispatchedType DEF IntentTypeOK
<1>4. UpsetTypeOK'
  BY UpsetType DEF SwitchOn
<1>5. OtherTypeOK'
  BY <1>1, OneMoreType DEF SwitchOn, OtherTypeOK
<1> QED
  BY <1>2, <1>3, <1>4, <1>5, NextTypeParts

LEMMA SwitchOffType ==
  ASSUME TypeOK, SwitchOff
  PROVE  TypeOK'
<1> USE DEF daemonVars, pinJobVars, autoPinVars
<1>1. QueueTypeOK /\ IntentTypeOK /\ UpsetTypeOK /\ OtherTypeOK
  BY TypeParts
<1>2. QueueTypeOK'
  <2>1. job' \in Running \cup {NoJob}
    <3>1. CASE job = NoJob
      BY <3>1, OrphanedNoJob DEF SwitchOff
    <3>2. CASE job \in Running
      <4>1. Orphaned(job.what) \in Work \cup {GcJob}
        BY <3>2, OrphanedType DEF Running
      <4>2. job' = [job EXCEPT !.what = Orphaned(job.what)]
        BY DEF SwitchOff
      <4> QED
        BY <3>2, <4>1, <4>2 DEF Running
    <3> QED
      BY <1>1, <3>1, <3>2 DEF QueueTypeOK
  <2>2. jobs' \in Seq(Work \cup {GcJob})
    <3>1. /\ Len(jobs) \in Nat /\ DOMAIN jobs = 1 .. Len(jobs)
          /\ \A k \in 1 .. Len(jobs) : jobs[k] \in Work \cup {GcJob}
      BY <1>1, LenProperties, ElementOfSeq DEF QueueTypeOK
    <3>2. \A k \in 1 .. Len(jobs) : Orphaned(jobs[k]) \in Work \cup {GcJob}
      BY <3>1, OrphanedType
    <3>3. jobs' = [k \in 1 .. Len(jobs) |-> Orphaned(jobs[k])]
      BY <3>1 DEF SwitchOff
    <3> QED
      BY <3>1, <3>2, <3>3
  <2> QED
    BY <1>1, <2>1, <2>2 DEF SwitchOff, QueueTypeOK
<1>3. IntentTypeOK'
  <2>1. fetches' \subseteq Fetches
    BY <1>1, OrphanedType DEF SwitchOff, IntentTypeOK
  <2>2. queue' \in Seq(Intents)
    BY EmptySeq, Zenon DEF SwitchOff, ForgetIntents
  <2> QED
    BY <1>1, <2>1, <2>2 DEF SwitchOff, ForgetIntents, IntentTypeOK
<1>4. UpsetTypeOK'
  BY UpsetType DEF SwitchOff
<1>5. OtherTypeOK'
  BY <1>1 DEF SwitchOff, ForgetIntents, OtherTypeOK
<1> QED
  BY <1>2, <1>3, <1>4, <1>5, NextTypeParts

LEMMA MetadataArrivesType ==
  ASSUME TypeOK, NEW f \in Fetches, MetadataArrives(f)
  PROVE  TypeOK'
<1> USE DEF daemonVars, pinJobVars, autoPinVars
<1>1. QueueTypeOK /\ IntentTypeOK /\ UpsetTypeOK /\ OtherTypeOK
  BY TypeParts
<1> DEFINE w == [kind |-> "add", token |-> f.token, live |-> f.live]
<1>6. w \in Work /\ f.token \in Tokens
  BY DEF Fetches, Work
<1>7. AddJob(w)
  BY DEF MetadataArrives
<1> HIDE DEF w
<1>2. QueueTypeOK'
  BY <1>6, <1>7, AddJobType
<1>3. IntentTypeOK'
  <2>1. status' \in [Tokens -> Statuses]
    BY <1>1, <1>6 DEF MetadataArrives, IntentTypeOK, Statuses
  <2> QED
    BY <1>1, <2>1 DEF MetadataArrives, IntentTypeOK
<1>4. UpsetTypeOK'
  BY UpsetType DEF MetadataArrives
<1>5. OtherTypeOK'
  BY <1>1 DEF MetadataArrives, OtherTypeOK
<1> QED
  BY <1>2, <1>3, <1>4, <1>5, NextTypeParts

LEMMA MetadataFailsType ==
  ASSUME TypeOK, IntentAwaited, NEW f \in Fetches, NEW why \in {"failed", "refused"}, MetadataFails(f, why)
  PROVE  TypeOK'
<1> USE DEF daemonVars, pinJobVars, autoPinVars
<1>1. QueueTypeOK /\ IntentTypeOK /\ UpsetTypeOK /\ OtherTypeOK
  BY TypeParts
<1> DEFINE st == [status EXCEPT ![f.token] = why]
           d == CheckQueue(NoIntent, queue, st)
<1>6. st \in [Tokens -> Statuses]
  BY <1>1 DEF IntentTypeOK, Fetches, Statuses
<1>7. IsDispatch(d)
  <2> HIDE DEF st
  <2> QED
    BY <1>1, <1>6, CheckQueueType DEF IntentTypeOK
<1>8. \/ /\ PostRetry(why = "failed")
         /\ Dispatched(d, fetches \ {f})
         /\ Enqueued(d)
         /\ f.live
      \/ /\ status' = st
         /\ fetches' = fetches \ {f}
         /\ UNCHANGED <<retries, current, queue, jobs, job, timers, bound,
                        pending>>
  BY DEF MetadataFails
<1> HIDE DEF d, st
<1>2. QueueTypeOK'
  BY <1>1, <1>7, <1>8, EnqueuedType DEF QueueTypeOK
<1>3. IntentTypeOK'
  <2>1. fetches \ {f} \in SUBSET Fetches
    BY <1>1 DEF IntentTypeOK
  <2> QED
    BY <1>1, <1>6, <1>7, <1>8, <2>1, DispatchedType DEF IntentTypeOK
<1>4. UpsetTypeOK'
  BY UpsetType DEF MetadataFails
<1>5. OtherTypeOK'
  <2>1. retries' \subseteq Intents
    <3>1. f.live => current # NoIntent
      BY DEF MetadataFails, IntentAwaited, AwaitedOnce, NoIntent
    <3> QED
      BY <1>1, <1>8, <3>1, RetriesType DEF OtherTypeOK
  <2> QED
    BY <1>1, <2>1 DEF MetadataFails, OtherTypeOK
<1> QED
  BY <1>2, <1>3, <1>4, <1>5, NextTypeParts

LEMMA NodeAnswersType ==
  ASSUME TypeOK, NEW r \in Requests, NodeAnswers(r)
  PROVE  TypeOK'
<1> USE DEF daemonVars, pinJobVars, autoPinVars
<1>1. QueueTypeOK /\ IntentTypeOK /\ UpsetTypeOK /\ OtherTypeOK
  BY TypeParts
<1>2. QueueTypeOK'
  <2>1. job \in Running
    BY <1>1 DEF NodeAnswers, QueueTypeOK, NoJob
  <2>2. (job.wait \ {r}) \in SUBSET Requests
    BY <2>1 DEF Running
  <2>3. (job.ok /\ (r = "pins" => AllPresent(job.what.token))) \in BOOLEAN
    OBVIOUS
  <2>4. {p[1] : p \in {q \in present : q[2] = r}} \in SUBSET Cids
    BY <1>1 DEF OtherTypeOK, Pins
  <2>5. (IF job.what.kind = "gc" /\ r \in Modes
         THEN job.seen \cup {p[1] : p \in {q \in present : q[2] = r}}
         ELSE job.seen) \in SUBSET Cids
    BY <2>1, <2>4 DEF Running
  <2>6. job' \in Running
    BY <2>1, <2>2, <2>3, <2>5, Zenon DEF NodeAnswers, Running
  <2> QED
    BY <1>1, <2>6 DEF NodeAnswers, QueueTypeOK
<1>3. IntentTypeOK'
  BY <1>1 DEF NodeAnswers, IntentTypeOK
<1>4. UpsetTypeOK'
  BY UpsetType DEF NodeAnswers
<1>5. OtherTypeOK'
  BY <1>1, EffectType DEF NodeAnswers, OtherTypeOK
<1> QED
  BY <1>2, <1>3, <1>4, <1>5, NextTypeParts

LEMMA NodeFailsType ==
  ASSUME TypeOK, NEW r \in Requests, NodeFails(r)
  PROVE  TypeOK'
<1> USE DEF daemonVars, pinJobVars, autoPinVars
<1>1. QueueTypeOK /\ IntentTypeOK /\ UpsetTypeOK /\ OtherTypeOK
  BY TypeParts
<1>2. QueueTypeOK'
  <2>1. job \in Running
    BY <1>1 DEF NodeFails, QueueTypeOK, NoJob
  <2>2. job' \in Running
    BY <2>1 DEF NodeFails, Running
  <2> QED
    BY <1>1, <2>2 DEF NodeFails, QueueTypeOK
<1>3. IntentTypeOK'
  BY <1>1 DEF NodeFails, IntentTypeOK
<1>4. UpsetTypeOK'
  BY UpsetType DEF NodeFails
<1>5. OtherTypeOK'
  <2>1. present' \subseteq Pins
    BY <1>1, EffectType DEF NodeFails, OtherTypeOK
  <2> QED
    BY <1>1, <2>1 DEF NodeFails, OtherTypeOK
<1> QED
  BY <1>2, <1>3, <1>4, <1>5, NextTypeParts

LEMMA GcSweepsType ==
  ASSUME TypeOK, GcSweeps
  PROVE  TypeOK'
<1> USE DEF daemonVars, pinJobVars, autoPinVars
<1>1. QueueTypeOK /\ IntentTypeOK /\ UpsetTypeOK /\ OtherTypeOK
  BY TypeParts
<1>2. QueueTypeOK'
  <2>1. job \in Running
    BY <1>1 DEF GcSweeps, Returning, QueueTypeOK
  <2>2. Unrecorded(job.seen) \subseteq Cids
    BY <2>1 DEF Unrecorded, Running
  <2>3. up \in BOOLEAN
    BY <1>1 DEF OtherTypeOK
  <2>4. (IF up THEN {"sweep"} ELSE {}) \in SUBSET Requests
    BY DEF Requests
  <2>5. job' \in Running
    BY <2>1, <2>2, <2>3, <2>4, Zenon DEF GcSweeps, Running
  <2> QED
    BY <1>1, <2>5 DEF GcSweeps, QueueTypeOK
<1>3. IntentTypeOK'
  BY <1>1 DEF GcSweeps, IntentTypeOK
<1>4. UpsetTypeOK'
  BY UpsetType DEF GcSweeps
<1>5. OtherTypeOK'
  BY <1>1 DEF GcSweeps, OtherTypeOK
<1> QED
  BY <1>2, <1>3, <1>4, <1>5, NextTypeParts

LEMMA JobFinishesType ==
  ASSUME TypeOK, IntentAwaited, JobFinishes
  PROVE  TypeOK'
<1> USE DEF daemonVars, pinJobVars, autoPinVars
<1>1. QueueTypeOK /\ IntentTypeOK /\ UpsetTypeOK /\ OtherTypeOK
  BY TypeParts
<1> DEFINE w == job.what
           st == CASE w.kind = "add" ->
                      [status EXCEPT ![w.token] =
                         IF job.ok THEN "pinned" ELSE "failed"]
                 [] w.kind = "remove" -> [status EXCEPT ![w.token] = "none"]
                 [] w.kind = "verify" ->
                      [status EXCEPT ![w.token] =
                         IF job.ok THEN "pinned" ELSE "pinning"]
                 [] w.kind = "gc" -> status
           d == IF ~w.live
               THEN [current |-> current, queue |-> queue, status |-> st,
                     fetch |-> {}, work |-> <<>>]
               ELSE IF w.kind = "verify" /\ ~job.ok
               THEN AddOrExecute([op |-> "add", token |-> w.token], NoIntent,
                                 queue, st, tokens)
               ELSE CheckQueue(NoIntent, queue, st)
<1>6. /\ job \in Running
      /\ w \in Work \cup {GcJob}
  BY <1>1 DEF JobFinishes, Returning, QueueTypeOK, Running
<1>7. st \in [Tokens -> Statuses]
  <2>1. CASE w = GcJob
    BY <1>1, <2>1 DEF GcJob, IntentTypeOK
  <2>2. CASE w \in Work
    <3>1. w.kind \in {"add", "remove", "verify"} /\ w.token \in Tokens
      BY <2>2 DEF Work
    <3> QED
      BY <1>1, <3>1 DEF IntentTypeOK, Statuses
  <2> QED
    BY <1>6, <2>1, <2>2
<1>8. IsDispatch(d)
  <2> HIDE DEF st
  <2>1. CASE ~w.live
    BY <1>1, <1>7, <2>1, EmptySeq DEF IsDispatch, IntentTypeOK
  <2>2. CASE w.live /\ w.kind = "verify" /\ ~job.ok
    <3>1. [op |-> "add", token |-> w.token] \in Intents
      BY <1>6, <2>2 DEF GcJob, Work, Intents
    <3>2. IsDispatch(AddOrExecute([op |-> "add", token |-> w.token], NoIntent,
                                  queue, st, tokens))
      BY <1>1, <1>7, <3>1, AddOrExecuteType DEF IntentTypeOK
    <3> QED
      BY <2>2, <3>2
  <2>3. CASE w.live /\ ~(w.kind = "verify" /\ ~job.ok)
    <3>1. IsDispatch(CheckQueue(NoIntent, queue, st))
      BY <1>1, <1>7, CheckQueueType DEF IntentTypeOK
    <3> QED
      BY <2>3, <3>1
  <2> QED
    BY <2>1, <2>2, <2>3
<1>9. /\ Dispatched(d, fetches)
      /\ recorded' = RecordAfter(w, job.ok)
      /\ PostRetry(w.live /\ w.kind = "add" /\ ~job.ok)
      /\ gcTimers' = IF w.kind = "remove" THEN OneMore(gcTimers) ELSE gcTimers
      /\ gcPosted' = (gcPosted /\ w.kind # "gc")
      /\ DoNextJob(jobs \o d.work, ready)
  BY DEF JobFinishes
<1> HIDE DEF d, st
<1>2. QueueTypeOK'
  <2>1. jobs \o d.work \in Seq(Work \cup {GcJob})
    BY <1>1, <1>8, SeqMonotonic, ConcatProperties DEF QueueTypeOK, IsDispatch
  <2> QED
    BY <1>9, <2>1, DoNextJobType
<1>3. IntentTypeOK'
  BY <1>1, <1>8, <1>9, DispatchedType DEF IntentTypeOK
<1>4. UpsetTypeOK'
  BY UpsetType DEF JobFinishes
<1>5. OtherTypeOK'
  <2>1. retries' \subseteq Intents
    <3>1. (w.live /\ w.kind = "add" /\ ~job.ok) => current # NoIntent
      <4>1. w.live => current = IntentOf(w)
        BY DEF IntentAwaited, AwaitedOnce, AwaitedInLine
      <4> QED
        BY <4>1 DEF IntentOf, NoIntent
    <3> QED
      BY <1>1, <1>9, <3>1, RetriesType
  <2>2. recorded' \in [Pins -> SUBSET Tokens]
    <3>1. w.kind # "gc" => w.token \in Tokens
      BY <1>6 DEF Work, GcJob
    <3>2. recorded \in [Pins -> SUBSET Tokens]
      BY <1>1 DEF OtherTypeOK
    <3> HIDE DEF w
    <3>3. RecordAfter(w, job.ok) \in [Pins -> SUBSET Tokens]
      BY <3>1, <3>2 DEF RecordAfter
    <3> QED
      BY <1>9, <3>3
  <2>3. gcTimers' \in 0 .. MaxPolls /\ gcPosted' \in BOOLEAN
    BY <1>1, <1>9, OneMoreType DEF OtherTypeOK
  <2> QED
    BY <1>1, <2>1, <2>2, <2>3 DEF JobFinishes, OtherTypeOK
<1> QED
  BY <1>2, <1>3, <1>4, <1>5, NextTypeParts

LEMMA GcTimerFiresType ==
  ASSUME TypeOK, GcTimerFires
  PROVE  TypeOK'
<1> USE DEF daemonVars, pinJobVars, autoPinVars
<1>1. QueueTypeOK /\ IntentTypeOK /\ UpsetTypeOK /\ OtherTypeOK
  BY TypeParts
<1>2. QueueTypeOK'
  <2>1. CASE gcPosted
    BY <1>1, <2>1 DEF GcTimerFires, QueueTypeOK
  <2>2. CASE ~gcPosted
    BY <2>2, AddJobType DEF GcTimerFires
  <2> QED
    BY <2>1, <2>2
<1>3. IntentTypeOK'
  BY <1>1 DEF GcTimerFires, IntentTypeOK
<1>4. UpsetTypeOK'
  BY UpsetType DEF GcTimerFires
<1>5. OtherTypeOK'
  BY <1>1, PinJobsAssumption DEF GcTimerFires, OtherTypeOK
<1> QED
  BY <1>2, <1>3, <1>4, <1>5, NextTypeParts

LEMMA NodeLaunchesType ==
  ASSUME TypeOK, NodeLaunches
  PROVE  TypeOK'
<1> USE DEF daemonVars, pinJobVars, autoPinVars
<1>1. QueueTypeOK /\ IntentTypeOK /\ UpsetTypeOK /\ OtherTypeOK
  BY TypeParts
<1>2. QueueTypeOK'
  <2>1. timers' = timers \/ timers' = OneMore(timers)
    BY DEF NodeLaunches, PostGetConnectedPeers
  <2>2. timers' \in 0 .. MaxPolls
    BY <1>1, <2>1, OneMoreType DEF QueueTypeOK
  <2>3. pending' \in Waiters
    BY DEF NodeLaunches, Waiters
  <2> QED
    BY <1>1, <2>2, <2>3 DEF NodeLaunches, QueueTypeOK
<1>3. IntentTypeOK'
  BY <1>1 DEF NodeLaunches, IntentTypeOK
<1>4. UpsetTypeOK'
  BY UpsetType DEF NodeLaunches
<1>5. OtherTypeOK'
  BY <1>1 DEF NodeLaunches, OtherTypeOK
<1> QED
  BY <1>2, <1>3, <1>4, <1>5, NextTypeParts

LEMMA NodeFailsToLaunchType ==
  ASSUME TypeOK, NodeFailsToLaunch
  PROVE  TypeOK'
<1> USE DEF daemonVars, pinJobVars, autoPinVars
<1>1. QueueTypeOK /\ IntentTypeOK /\ UpsetTypeOK /\ OtherTypeOK
  BY TypeParts
<1>2. QueueTypeOK'
  <2>1. pending' \in Waiters /\ bound' \in BOOLEAN
    BY Zenon DEF NodeFailsToLaunch, Shutdown, Waiters
  <2> QED
    BY <1>1, <2>1 DEF NodeFailsToLaunch, QueueTypeOK
<1>3. IntentTypeOK'
  BY <1>1 DEF NodeFailsToLaunch, IntentTypeOK
<1>4. UpsetTypeOK'
  BY UpsetType DEF NodeFailsToLaunch
<1>5. OtherTypeOK'
  <2>1. up' \in BOOLEAN
    BY Zenon DEF NodeFailsToLaunch, Shutdown, ShutdownDaemon
  <2> QED
    BY <1>1, <2>1 DEF NodeFailsToLaunch, OtherTypeOK
<1> QED
  BY <1>2, <1>3, <1>4, <1>5, NextTypeParts

LEMMA OnExecutableReadyType ==
  ASSUME TypeOK, OnExecutableReady
  PROVE  TypeOK'
<1> USE DEF daemonVars, pinJobVars, autoPinVars
<1>1. QueueTypeOK /\ IntentTypeOK /\ UpsetTypeOK /\ OtherTypeOK
  BY TypeParts
<1>2. QueueTypeOK'
  BY <1>1 DEF OnExecutableReady, QueueTypeOK
<1>3. IntentTypeOK'
  BY <1>1 DEF OnExecutableReady, IntentTypeOK
<1>4. UpsetTypeOK'
  BY UpsetType DEF OnExecutableReady
<1>5. OtherTypeOK'
  BY <1>1 DEF OnExecutableReady, OtherTypeOK
<1> QED
  BY <1>2, <1>3, <1>4, <1>5, NextTypeParts

LEMMA OthersLaunchType ==
  ASSUME TypeOK, OthersLaunch
  PROVE  TypeOK'
<1> USE DEF daemonVars, pinJobVars, autoPinVars
<1>1. QueueTypeOK /\ IntentTypeOK /\ UpsetTypeOK /\ OtherTypeOK
  BY TypeParts
<1>2. QueueTypeOK'
  <2>1. pending' \in Waiters /\ bound' \in BOOLEAN
    BY <1>1 DEF OthersLaunch, LaunchDaemon, QueueTypeOK, Waiters
  <2> QED
    BY <1>1, <2>1 DEF OthersLaunch, QueueTypeOK
<1>3. IntentTypeOK'
  BY <1>1 DEF OthersLaunch, IntentTypeOK
<1>4. UpsetTypeOK'
  BY UpsetType DEF OthersLaunch
<1>5. OtherTypeOK'
  BY <1>1 DEF OthersLaunch, OtherTypeOK
<1> QED
  BY <1>2, <1>3, <1>4, <1>5, NextTypeParts

LEMMA UserStopsNodeType ==
  ASSUME TypeOK, UserStopsNode
  PROVE  TypeOK'
<1> USE DEF daemonVars, pinJobVars, autoPinVars
<1>1. QueueTypeOK /\ IntentTypeOK /\ UpsetTypeOK /\ OtherTypeOK
  BY TypeParts
<1>2. QueueTypeOK'
  <2>1. bound' \in BOOLEAN /\ job' \in Running \cup {NoJob}
    BY Zenon DEF UserStopsNode, ShutdownDaemon, OnIpfsShutdown
  <2> QED
    BY <1>1, <2>1 DEF UserStopsNode, QueueTypeOK
<1>3. IntentTypeOK'
  BY <1>1 DEF UserStopsNode, IntentTypeOK
<1>4. UpsetTypeOK'
  BY UpsetType DEF UserStopsNode
<1>5. OtherTypeOK'
  <2>1. up' \in BOOLEAN /\ ready' \in BOOLEAN
    BY Zenon DEF UserStopsNode, ShutdownDaemon, OnIpfsShutdown
  <2>2. present' \subseteq Pins
    BY JobDestroyedType DEF UserStopsNode
  <2> QED
    BY <1>1, <2>1, <2>2 DEF UserStopsNode, OtherTypeOK
<1> QED
  BY <1>2, <1>3, <1>4, <1>5, NextTypeParts

LEMMA RestartDaemonType ==
  ASSUME TypeOK, RestartDaemon
  PROVE  TypeOK'
<1> USE DEF daemonVars, pinJobVars, autoPinVars
<1>1. QueueTypeOK /\ IntentTypeOK /\ UpsetTypeOK /\ OtherTypeOK
  BY TypeParts
<1>2. QueueTypeOK'
  <2>1. bound' \in BOOLEAN /\ job' \in Running \cup {NoJob}
    BY Zenon DEF RestartDaemon, ShutdownDaemon, OnIpfsShutdown
  <2> QED
    BY <1>1, <2>1 DEF RestartDaemon, QueueTypeOK
<1>3. IntentTypeOK'
  BY <1>1 DEF RestartDaemon, IntentTypeOK
<1>4. UpsetTypeOK'
  BY UpsetType DEF RestartDaemon
<1>5. OtherTypeOK'
  <2>1. up' \in BOOLEAN /\ ready' \in BOOLEAN
    BY Zenon DEF RestartDaemon, ShutdownDaemon, OnIpfsShutdown
  <2>2. present' \subseteq Pins
    BY JobDestroyedType DEF RestartDaemon
  <2> QED
    BY <1>1, <2>1, <2>2 DEF RestartDaemon, OtherTypeOK
<1> QED
  BY <1>2, <1>3, <1>4, <1>5, NextTypeParts

LEMMA NodeCrashesType ==
  ASSUME TypeOK, NodeCrashes
  PROVE  TypeOK'
<1> USE DEF daemonVars, pinJobVars, autoPinVars
<1>1. QueueTypeOK /\ IntentTypeOK /\ UpsetTypeOK /\ OtherTypeOK
  BY TypeParts
<1>2. QueueTypeOK'
  <2>1. bound' \in BOOLEAN
    BY Zenon DEF NodeCrashes, Shutdown
  <2> QED
    BY <1>1, <2>1 DEF NodeCrashes, QueueTypeOK
<1>3. IntentTypeOK'
  BY <1>1 DEF NodeCrashes, IntentTypeOK
<1>4. UpsetTypeOK'
  BY UpsetType DEF NodeCrashes
<1>5. OtherTypeOK'
  <2>1. up' \in BOOLEAN
    BY Zenon DEF NodeCrashes, Shutdown, ShutdownDaemon
  <2> QED
    BY <1>1, <2>1 DEF NodeCrashes, OtherTypeOK
<1> QED
  BY <1>2, <1>3, <1>4, <1>5, NextTypeParts

LEMMA PollTimerType ==
  ASSUME TypeOK, PollTimer
  PROVE  TypeOK'
<1> USE DEF daemonVars, pinJobVars, autoPinVars
<1>1. QueueTypeOK /\ IntentTypeOK /\ UpsetTypeOK /\ OtherTypeOK
  BY TypeParts
<1>2. QueueTypeOK'
  BY <1>1, PinJobsAssumption DEF PollTimer, PollTimerFires, QueueTypeOK
<1>3. IntentTypeOK'
  BY <1>1 DEF PollTimer, PollTimerFires, IntentTypeOK
<1>4. UpsetTypeOK'
  BY <1>1 DEF PollTimer, UpsetTypeOK
<1>5. OtherTypeOK'
  <2>1. asks' \in 0 .. MaxPolls
    BY <1>1, OneMoreType DEF PollTimer, PollTimerFires, OtherTypeOK
  <2> QED
    BY <1>1, <2>1 DEF PollTimer, PollTimerFires, OtherTypeOK
<1> QED
  BY <1>2, <1>3, <1>4, <1>5, NextTypeParts

LEMMA PeersAnswerType ==
  ASSUME TypeOK, NEW success \in BOOLEAN, PeersAnswer(success)
  PROVE  TypeOK'
<1> USE DEF daemonVars, pinJobVars, autoPinVars
<1>1. QueueTypeOK /\ IntentTypeOK /\ UpsetTypeOK /\ OtherTypeOK
  BY TypeParts
<1>2. QueueTypeOK'
  <2>1. CASE ~ready /\ success
    <3>1. DoNextJob(jobs, TRUE)
      BY <2>1 DEF PeersAnswer, OnGetConnectedPeersResult
    <3> QED
      BY <1>1, <3>1, DoNextJobType DEF QueueTypeOK
  <2>2. CASE ~(~ready /\ success)
    <3>1. UNCHANGED <<jobs, job, bound, pending>>
          /\ (timers' = timers \/ timers' = OneMore(timers))
      BY <2>2 DEF PeersAnswer, OnGetConnectedPeersResult, PostGetConnectedPeers
    <3> QED
      BY <1>1, <3>1, OneMoreType DEF QueueTypeOK
  <2> QED
    BY <2>1, <2>2
<1>3. IntentTypeOK'
  BY <1>1 DEF PeersAnswer, IntentTypeOK
<1>4. UpsetTypeOK'
  BY UpsetType DEF PeersAnswer
<1>5. OtherTypeOK'
  <2>1. asks' \in 0 .. MaxPolls /\ ready' \in BOOLEAN
    BY <1>1, PinJobsAssumption
    DEF PeersAnswer, OnGetConnectedPeersResult, OtherTypeOK
  <2> QED
    BY <1>1, <2>1 DEF PeersAnswer, OnGetConnectedPeersResult, OtherTypeOK
<1> QED
  BY <1>2, <1>3, <1>4, <1>5, NextTypeParts

LEMMA UserResetsWalletType ==
  ASSUME TypeOK, UserResetsWallet
  PROVE  TypeOK'
<1> USE DEF daemonVars, pinJobVars, autoPinVars
<1>1. QueueTypeOK /\ IntentTypeOK /\ UpsetTypeOK /\ OtherTypeOK
  BY TypeParts
<1>2. QueueTypeOK'
  BY <1>1 DEF UserResetsWallet, QueueTypeOK
<1>3. IntentTypeOK'
  BY <1>1 DEF UserResetsWallet, IntentTypeOK
<1>4. UpsetTypeOK'
  BY UpsetType DEF UserResetsWallet
<1>5. OtherTypeOK'
  BY <1>1 DEF UserResetsWallet, OtherTypeOK
<1> QED
  BY <1>2, <1>3, <1>4, <1>5, NextTypeParts

LEMMA ResetNewsArrivesType ==
  ASSUME TypeOK, ResetNewsArrives
  PROVE  TypeOK'
<1> USE DEF daemonVars, pinJobVars, autoPinVars
<1>1. QueueTypeOK /\ IntentTypeOK /\ UpsetTypeOK /\ OtherTypeOK
  BY TypeParts
<1>2. QueueTypeOK'
  <2>1. jobs' \in Seq(Work \cup {GcJob}) /\ job' \in Running \cup {NoJob}
    BY EmptySeq, Zenon DEF ResetNewsArrives
  <2>2. timers' \in 0 .. MaxPolls
    BY PinJobsAssumption DEF ResetNewsArrives
  <2>3. pending' \in Waiters
    BY <1>1 DEF ResetNewsArrives, QueueTypeOK, Waiters
  <2> QED
    BY <1>1, <2>1, <2>2, <2>3 DEF ResetNewsArrives, QueueTypeOK
<1>3. IntentTypeOK'
  <2>1. queue' \in Seq(Intents)
    BY EmptySeq, Zenon DEF ResetNewsArrives, ForgetIntents
  <2> QED
    BY <1>1, <2>1 DEF ResetNewsArrives, ForgetIntents, IntentTypeOK
<1>4. UpsetTypeOK'
  BY UpsetType DEF ResetNewsArrives
<1>5. OtherTypeOK'
  <2>1. present' \subseteq Pins
    BY JobDestroyedType DEF ResetNewsArrives
  <2>2. asks' \in 0 .. MaxPolls /\ gcTimers' \in 0 .. MaxPolls
    BY PinJobsAssumption DEF ResetNewsArrives
  <2>3. cli' \in [step: {"never", "ls", "rm", "done", "failed"},
                  left: SUBSET Cids]
    BY DEF ResetNewsArrives
  <2>4. tokens' \subseteq Tokens /\ retries' \subseteq Intents
    BY Zenon DEF ResetNewsArrives, ForgetIntents
  <2>5. ready' \in BOOLEAN /\ gcPosted' \in BOOLEAN /\ enabled' \in BOOLEAN
        /\ resetNews' \in BOOLEAN
    BY Zenon DEF ResetNewsArrives
  <2> QED
    BY <1>1, <2>1, <2>2, <2>3, <2>4, <2>5 DEF ResetNewsArrives, OtherTypeOK
<1> QED
  BY <1>2, <1>3, <1>4, <1>5, NextTypeParts

LEMMA CliListsType ==
  ASSUME TypeOK, CliLists
  PROVE  TypeOK'
<1> USE DEF daemonVars, pinJobVars, autoPinVars
<1>1. QueueTypeOK /\ IntentTypeOK /\ UpsetTypeOK /\ OtherTypeOK
  BY TypeParts
<1>2. QueueTypeOK'
  BY <1>1 DEF CliLists, QueueTypeOK
<1>3. IntentTypeOK'
  <2>1. status' \in [Tokens -> Statuses]
    BY <1>1, CliGoesOnType DEF CliLists, IntentTypeOK
  <2> QED
    BY <1>1, <2>1 DEF CliLists, IntentTypeOK
<1>4. UpsetTypeOK'
  BY UpsetType DEF CliLists
<1>5. OtherTypeOK'
  <2>1. {p[1] : p \in {q \in present : q[2] = "recursive"}} \subseteq Cids
    BY <1>1 DEF OtherTypeOK, Pins
  <2>2. /\ recorded' \in [Pins -> SUBSET Tokens]
        /\ cli' \in [step: {"never", "ls", "rm", "done", "failed"},
                     left: SUBSET Cids]
    BY <2>1, CliGoesOnType DEF CliLists
  <2>3. present' \subseteq Pins
    BY <1>1 DEF CliLists, OtherTypeOK
  <2> QED
    BY <1>1, <2>2, <2>3 DEF CliLists, OtherTypeOK
<1> QED
  BY <1>2, <1>3, <1>4, <1>5, NextTypeParts

LEMMA CliRemovesType ==
  ASSUME TypeOK, NEW c \in Cids, CliRemoves(c)
  PROVE  TypeOK'
<1> USE DEF daemonVars, pinJobVars, autoPinVars
<1>1. QueueTypeOK /\ IntentTypeOK /\ UpsetTypeOK /\ OtherTypeOK
  BY TypeParts
<1>2. QueueTypeOK'
  BY <1>1 DEF CliRemoves, QueueTypeOK
<1>3. IntentTypeOK'
  <2>1. status' \in [Tokens -> Statuses]
    BY <1>1, CliGoesOnType DEF CliRemoves, IntentTypeOK
  <2> QED
    BY <1>1, <2>1 DEF CliRemoves, IntentTypeOK
<1>4. UpsetTypeOK'
  BY UpsetType DEF CliRemoves
<1>5. OtherTypeOK'
  <2>1. cli.left \ {c} \subseteq Cids
    BY <1>1 DEF OtherTypeOK, Pins
  <2>2. /\ recorded' \in [Pins -> SUBSET Tokens]
        /\ cli' \in [step: {"never", "ls", "rm", "done", "failed"},
                     left: SUBSET Cids]
    BY <2>1, CliGoesOnType DEF CliRemoves
  <2>3. present' \subseteq Pins
    BY <1>1 DEF CliRemoves, OtherTypeOK
  <2> QED
    BY <1>1, <2>2, <2>3 DEF CliRemoves, OtherTypeOK
<1> QED
  BY <1>2, <1>3, <1>4, <1>5, NextTypeParts

LEMMA CliFailsType ==
  ASSUME TypeOK, CliFails
  PROVE  TypeOK'
<1> USE DEF daemonVars, pinJobVars, autoPinVars
<1>1. QueueTypeOK /\ IntentTypeOK /\ UpsetTypeOK /\ OtherTypeOK
  BY TypeParts
<1>2. QueueTypeOK'
  BY <1>1 DEF CliFails, QueueTypeOK
<1>3. IntentTypeOK'
  BY <1>1 DEF CliFails, IntentTypeOK
<1>4. UpsetTypeOK'
  BY UpsetType DEF CliFails
<1>5. OtherTypeOK'
  BY <1>1 DEF CliFails, OtherTypeOK
<1> QED
  BY <1>2, <1>3, <1>4, <1>5, NextTypeParts

LEMMA BrowserRestartsType ==
  ASSUME TypeOK, BrowserRestarts
  PROVE  TypeOK'
<1> USE DEF daemonVars, pinJobVars, autoPinVars
<1>1. QueueTypeOK /\ IntentTypeOK /\ UpsetTypeOK /\ OtherTypeOK
  BY TypeParts
<1>6. PICK d \in IF enabled THEN Restored(status)
                ELSE {CheckQueue(NoIntent, <<>>, status)} :
        /\ tokens' = IF enabled THEN wallet ELSE {}
        /\ Dispatched(d, {})
        /\ jobs' = d.work
        /\ bound' = (d.work # <<>> /\ installed)
        /\ pending' = IF d.work # <<>> THEN "pins" ELSE "none"
  BY DEF BrowserRestarts
<1>7. IsDispatch(d)
  <2>1. CASE enabled
    BY <1>1, <1>6, <2>1, RestoredType DEF IntentTypeOK, OtherTypeOK
  <2>2. CASE ~enabled
    <3>1. <<>> \in Seq(Intents)
      BY EmptySeq
    <3>2. IsDispatch(CheckQueue(NoIntent, <<>>, status))
      BY <1>1, <3>1, CheckQueueType DEF IntentTypeOK
    <3> QED
      BY <1>6, <2>2, <3>2
  <2> QED
    BY <2>1, <2>2
<1>2. QueueTypeOK'
  <2>1. jobs' \in Seq(Work \cup {GcJob})
    BY <1>6, <1>7, SeqMonotonic DEF IsDispatch
  <2>2. job' \in Running \cup {NoJob} /\ bound' \in BOOLEAN
    BY <1>6, Zenon DEF BrowserRestarts
  <2>3. pending' \in Waiters
    BY <1>6 DEF Waiters
  <2>4. timers' \in 0 .. MaxPolls
    BY PinJobsAssumption DEF BrowserRestarts
  <2> QED
    BY <2>1, <2>2, <2>3, <2>4 DEF QueueTypeOK
<1>3. IntentTypeOK'
  <2>1. {} \in SUBSET Fetches
    OBVIOUS
  <2> QED
    BY <1>6, <1>7, <2>1, DispatchedType
<1>4. UpsetTypeOK'
  BY UpsetType DEF BrowserRestarts
<1>5. OtherTypeOK'
  <2>1. present' \subseteq Pins
    BY JobDestroyedType DEF BrowserRestarts
  <2>2. asks' \in 0 .. MaxPolls /\ gcTimers' \in 0 .. MaxPolls
    BY PinJobsAssumption DEF BrowserRestarts
  <2>3. cli' \in [step: {"never", "ls", "rm", "done", "failed"},
                  left: SUBSET Cids]
    BY <1>1 DEF BrowserRestarts, OtherTypeOK
  <2>4. news' \in Seq([added: BOOLEAN, token: Tokens])
    BY EmptySeq, Zenon DEF BrowserRestarts
  <2>5. tokens' \subseteq Tokens
    BY <1>1, <1>6 DEF OtherTypeOK
  <2>6. up' \in BOOLEAN /\ ready' \in BOOLEAN /\ gcPosted' \in BOOLEAN
        /\ resetNews' \in BOOLEAN /\ retries' \subseteq Intents
    BY Zenon DEF BrowserRestarts
  <2> QED
    BY <1>1, <2>1, <2>2, <2>3, <2>4, <2>5, <2>6
    DEF BrowserRestarts, OtherTypeOK
<1> QED
  BY <1>2, <1>3, <1>4, <1>5, NextTypeParts

\* A step that starts and ends no intent, fetch or job.
LEMMA AwaitedSame ==
  ASSUME IntentAwaited,
         UNCHANGED <<current, fetches, jobs, queue, enabled, retries>>,
         job'.what = job.what, met \subseteq met',
         ~ready' => job' = NoJob
  PROVE  IntentAwaited'
BY DEF IntentAwaited

\* A node that is shut down takes its job along.
LEMMA AwaitedWithoutNode ==
  ASSUME IntentAwaited,
         UNCHANGED <<current, fetches, jobs, queue, enabled, retries>>,
         OnIpfsShutdown, met' \cap {"stop", "renew"} # {}
  PROVE  IntentAwaited'
<1>1. job' = NoJob /\ job'.what = Nothing /\ ~Nothing.live
  BY DEF OnIpfsShutdown, NoJob, Nothing
<1>2. LiveInLine(Nothing, jobs) => LiveInLine(job.what, jobs)
  BY <1>1 DEF LiveInLine
<1>3. AwaitedInLine(current, Nothing, jobs)
  BY <1>1 DEF IntentAwaited, AwaitedOnce, AwaitedInLine
<1>4. AwaitedOnce(current, fetches, Nothing, jobs)
  BY <1>2, <1>3 DEF IntentAwaited, AwaitedOnce
<1> QED
  BY <1>1, <1>4 DEF IntentAwaited

\* Without a running intent nothing is awaited.
LEMMA NothingAwaited ==
  ASSUME NEW fs, NEW js, NEW w, AwaitedOnce(NoIntent, fs, w, js)
  PROVE  ~LiveInLine(w, js) /\ ~LiveFetch(fs)
<1>1. \A x : NoIntent # IntentOf(x)
  BY DEF NoIntent, IntentOf
<1>2. \A x : NoIntent # [op |-> "add", token |-> x]
  BY DEF NoIntent
<1> QED
  BY <1>1, <1>2 DEF AwaitedOnce, AwaitedInLine, LiveInLine, LiveFetch

\* An intent that is turned away, queued or started leaves every intent awaited
\* that was.
LEMMA AwaitedHandover ==
  ASSUME TypeOK, IntentAwaited, NEW d, IsDispatch(d), IsHandover(current, d),
         Dispatched(d, fetches), Enqueued(d), UNCHANGED <<ready, met>>,
         enabled', enabled \/ current = NoIntent
  PROVE  IntentAwaited'
<1>1. jobs \in Seq(Work \cup {GcJob})
  BY DEF TypeOK, PinJobTypeOK
<1>2. AwaitedOnce(current, fetches, job.what, jobs)
  BY DEF IntentAwaited
<1>3. current = NoIntent =>
        ~LiveInLine(job.what, jobs) /\ ~LiveFetch(fetches)
  BY <1>2, NothingAwaited
<1>4. /\ AwaitedOnce(d.current, fetches \cup d.fetch, job.what, jobs \o d.work)
      /\ StillAwaited(current, fetches, job.what, jobs) =>
           StillAwaited(d.current, fetches \cup d.fetch, job.what,
                        jobs \o d.work)
  BY <1>1, <1>2, <1>3, HandedOver
<1>5. /\ current' = d.current /\ fetches' = fetches \cup d.fetch
      /\ queue' = d.queue
  BY DEF Dispatched
<1>6. /\ AwaitedOnce(d.current, fetches \cup d.fetch, job'.what, jobs')
      /\ StillAwaited(d.current, fetches \cup d.fetch, job.what,
                      jobs \o d.work) =>
           StillAwaited(d.current, fetches \cup d.fetch, job'.what, jobs')
      /\ ~ready => job' = NoJob
  BY <1>4, EnqueuedMoves DEF IntentAwaited
<1>7. d.queue # <<>> => d.current # NoIntent
  BY DEF IsHandover
<1> QED
  BY <1>4, <1>5, <1>6, <1>7 DEF IntentAwaited

\* The answer to what was awaited lets the next intent start.
LEMMA AwaitedAnswer ==
  ASSUME NEW c, NEW d, IsHandover(NoIntent, d), NEW fs, NEW w, w.live = FALSE,
         NEW js \in Seq(Work \cup {GcJob}),
         ~LiveInLine(w, js), ~LiveFetch(fs)
  PROVE  /\ AwaitedOnce(d.current, fs \cup d.fetch, w, js \o d.work)
         /\ StillAwaited(d.current, fs \cup d.fetch, w, js \o d.work)
<1>1. AwaitedOnce(NoIntent, fs, w, js)
  BY DEF AwaitedOnce, AwaitedInLine, LiveInLine, LiveFetch
<1>2. StillAwaited(NoIntent, fs, w, js)
  BY DEF StillAwaited
<1> QED
  BY <1>1, <1>2, HandedOver

LEMMA UserChangesAwaited ==
  ASSUME TypeOK, IntentAwaited, NEW t \in Tokens, UserChanges(t)
  PROVE  IntentAwaited'
BY AwaitedSame DEF UserChanges, IntentAwaited, Upset, Calm, daemonVars,
   pinJobVars, autoPinVars

LEMMA TokenNewsArrivesAwaited ==
  ASSUME TypeOK, IntentAwaited, TokenNewsArrives
  PROVE  IntentAwaited'
<1> DEFINE t == Head(news).token
           added == Head(news).added
           toks == IF added THEN tokens \cup {t} ELSE tokens \ {t}
           i == [op |-> IF added THEN "add" ELSE "delete", token |-> t]
           d == AddOrExecute(i, current, Without(t, queue), status, toks)
<1>1. t \in Tokens /\ added \in BOOLEAN
  <2>1. Head(news) \in [added: BOOLEAN, token: Tokens]
    BY HeadTailProperties DEF TokenNewsArrives, TypeOK
  <2> QED
    BY <2>1
<1>2. i \in Intents
  BY <1>1 DEF Intents
<1>3. Without(t, queue) \in Seq(Intents)
  BY WithoutEffect DEF TypeOK
<1>4. IsDispatch(d) /\ IsHandover(current, d)
  <2> HIDE DEF i, t, added, toks
  <2> QED
    BY <1>2, <1>3, AddOrExecuteType, AddOrExecuteHandover DEF TypeOK
<1>5. CASE enabled
  <2>1. Dispatched(d, fetches) /\ Enqueued(d) /\ UNCHANGED <<ready, met, enabled>>
    BY <1>5 DEF TokenNewsArrives, Calm
  <2> HIDE DEF d
  <2> QED
    BY <1>4, <1>5, <2>1, AwaitedHandover
<1>6. CASE ~enabled
  <2>1. UNCHANGED <<current, fetches, jobs, job, queue, enabled, retries, ready,
                    met>>
    BY <1>6 DEF TokenNewsArrives, Calm
  <2> QED
    BY <2>1, AwaitedSame DEF IntentAwaited
<1> QED
  BY <1>5, <1>6

LEMMA RetryFiresAwaited ==
  ASSUME TypeOK, IntentAwaited, NEW i \in Intents, RetryFires(i)
  PROVE  IntentAwaited'
<1> DEFINE d == AddOrExecute(i, current, queue, status, tokens)
<1>1. IsDispatch(d) /\ IsHandover(current, d)
  BY AddOrExecuteType, AddOrExecuteHandover DEF TypeOK
<1>2. /\ Dispatched(d, fetches) /\ Enqueued(d)
      /\ UNCHANGED <<ready, met, enabled>>
  BY DEF RetryFires, Calm
<1>3. enabled
  BY DEF RetryFires, IntentAwaited
<1> HIDE DEF d
<1> QED
  BY <1>1, <1>2, <1>3, AwaitedHandover

LEMMA SwitchOnAwaited ==
  ASSUME TypeOK, IntentAwaited, SwitchOn
  PROVE  IntentAwaited'
<1>1. PICK d \in Restored(status) : Dispatched(d, fetches) /\ Enqueued(d)
  BY DEF SwitchOn
<1>2. current = NoIntent
  BY DEF SwitchOn, IntentAwaited
<1>3. IsDispatch(d) /\ IsHandover(current, d)
  BY <1>2, RestoredType, RestoredHandover DEF TypeOK
<1>4. UNCHANGED <<ready, met>> /\ enabled'
  BY DEF SwitchOn, Calm
<1> QED
  BY <1>1, <1>2, <1>3, <1>4, AwaitedHandover

LEMMA SwitchOffAwaited ==
  ASSUME TypeOK, IntentAwaited, SwitchOff
  PROVE  IntentAwaited'
<1>1. /\ current' = NoIntent /\ queue' = <<>> /\ retries' = {}
      /\ ready' = ready
  BY DEF SwitchOff, ForgetIntents
<1>2. ~job'.what.live
  <2>1. job \in Running \cup {NoJob}
    BY DEF TypeOK, PinJobTypeOK
  <2>2. job'.what = Orphaned(job.what)
    BY <2>1 DEF SwitchOff, Running, NoJob
  <2>3. job.what \in Work \cup {GcJob, Nothing}
    BY <2>1 DEF Running, NoJob
  <2> QED
    BY <2>2, <2>3 DEF Orphaned, Work, GcJob, Nothing
<1>3. ASSUME NEW k \in DOMAIN jobs'
      PROVE  ~jobs'[k].live
  <2>1. k \in DOMAIN jobs /\ jobs'[k] = Orphaned(jobs[k])
    BY <1>3 DEF SwitchOff
  <2>2. jobs[k] \in Work \cup {GcJob}
    BY <2>1, ElementOfSeq, LenProperties DEF TypeOK, PinJobTypeOK
  <2> QED
    BY <2>1, <2>2 DEF Orphaned, Work, GcJob
<1>4. ASSUME NEW f \in fetches'
      PROVE  ~f.live
  BY <1>4 DEF SwitchOff, Orphaned, TypeOK, Fetches
<1>5. AwaitedOnce(current', fetches', job'.what, jobs')
  BY <1>2, <1>3, <1>4 DEF AwaitedOnce, AwaitedInLine
<1>6. ~ready => job' = NoJob
  <2>1. ~ready => job = NoJob
    BY DEF IntentAwaited
  <2>2. job = NoJob => [job EXCEPT !.what = Orphaned(job.what)] = NoJob
    BY OrphanedNoJob
  <2> QED
    BY <2>1, <2>2 DEF SwitchOff
<1> QED
  BY <1>1, <1>5, <1>6 DEF IntentAwaited, StillAwaited

LEMMA MetadataArrivesAwaited ==
  ASSUME TypeOK, IntentAwaited, NEW f \in Fetches, MetadataArrives(f)
  PROVE  IntentAwaited'
<1> DEFINE w == [kind |-> "add", token |-> f.token, live |-> f.live]
           others == fetches \ {f}
<1>1. w \in Work /\ w.live = f.live /\ f.token \in Tokens
  BY DEF Fetches, Work
<1>2. IntentOf(w) = [op |-> "add", token |-> f.token]
  BY DEF IntentOf
<1>3. AddJob(w) /\ fetches' = others /\ f \in fetches
      /\ UNCHANGED <<current, queue, enabled, retries, ready, met>>
  BY DEF MetadataArrives, Calm
<1> HIDE DEF w
<1>4. jobs \in Seq(Work \cup {GcJob}) /\ fetches \subseteq Fetches
  BY DEF TypeOK, PinJobTypeOK
<1> DEFINE new == Append(jobs, w)
           last == Len(jobs) + 1
<1>5. /\ DOMAIN new = DOMAIN jobs \cup {last}
      /\ last \notin DOMAIN jobs
      /\ \A k \in DOMAIN jobs : new[k] = jobs[k]
      /\ new[last] = w
  BY <1>1, <1>4, LongerLine
<1> HIDE DEF new, last
<1>6. AwaitedOnce(current, fetches, job.what, jobs)
  BY DEF IntentAwaited
<1>7. f.live => ~LiveInLine(job.what, jobs)
                /\ current = [op |-> "add", token |-> f.token]
  BY <1>3, <1>6 DEF AwaitedOnce
<1>8. AwaitedInLine(current, job.what, new)
  BY <1>1, <1>2, <1>5, <1>6, <1>7 DEF AwaitedOnce, AwaitedInLine, LiveInLine
<1>9. LiveInLine(job.what, new) <=> LiveInLine(job.what, jobs) \/ f.live
  BY <1>1, <1>5 DEF LiveInLine
<1>10. f.live => ~LiveFetch(others)
  <2>1. ASSUME f.live, NEW g \in others, g.live
        PROVE  FALSE
    <3>1. [op |-> "add", token |-> f.token] = [op |-> "add", token |-> g.token]
      BY <1>3, <1>6, <2>1 DEF AwaitedOnce
    <3>2. f.token = g.token
      BY <3>1
    <3>3. f \in [token: Tokens, live: BOOLEAN]
          /\ g \in [token: Tokens, live: BOOLEAN]
      BY <1>4, <2>1 DEF Fetches
    <3>4. f = g
      BY <2>1, <3>2, <3>3
    <3> QED
      BY <2>1, <3>4
  <2> QED
    BY <2>1 DEF LiveFetch
<1>11. AwaitedOnce(current, others, job.what, new)
  BY <1>6, <1>8, <1>9, <1>10 DEF AwaitedOnce, LiveFetch
<1>12. StillAwaited(current, fetches, job.what, jobs) =>
         StillAwaited(current, others, job.what, new)
  BY <1>9 DEF StillAwaited, LiveFetch
<1>13. /\ AwaitedOnce(current, others, job'.what, jobs')
       /\ StillAwaited(current, others, job.what, new) =>
            StillAwaited(current, others, job'.what, jobs')
       /\ ~ready => job' = NoJob
  BY <1>1, <1>3, <1>11, AddJobMoves DEF IntentAwaited, new
<1> QED
  BY <1>3, <1>12, <1>13 DEF IntentAwaited

LEMMA MetadataFailsAwaited ==
  ASSUME TypeOK, IntentAwaited, NEW f \in Fetches, NEW why \in {"failed", "refused"}, MetadataFails(f, why)
  PROVE  IntentAwaited'
<1> DEFINE st == [status EXCEPT ![f.token] = why]
           d == CheckQueue(NoIntent, queue, st)
           others == fetches \ {f}
<1>1. jobs \in Seq(Work \cup {GcJob}) /\ fetches \subseteq Fetches
  BY DEF TypeOK, PinJobTypeOK
<1>2. AwaitedOnce(current, fetches, job.what, jobs)
  BY DEF IntentAwaited
<1>3. f \in fetches /\ met \subseteq met' /\ UNCHANGED <<ready, enabled>>
  BY DEF MetadataFails, Upset
<1>4. CASE f.live
  <2>1. IsDispatch(d)
    <3>1. st \in [Tokens -> Statuses]
      BY DEF TypeOK, Fetches, Statuses
    <3> HIDE DEF st
    <3> QED
      BY <3>1, CheckQueueType DEF TypeOK
  <2>2. IsHandover(NoIntent, d)
    <3> HIDE DEF st
    <3> QED
      BY CheckQueueHandover DEF TypeOK
  <2>3. Dispatched(d, others) /\ Enqueued(d)
    BY <1>4 DEF MetadataFails
  <2> HIDE DEF d
  <2>4. ~LiveInLine(job.what, jobs) /\ current # NoIntent
    BY <1>2, <1>3, <1>4 DEF AwaitedOnce, NoIntent
  <2>5. ~LiveFetch(others)
    <3>1. ASSUME NEW g \in others, g.live
          PROVE  FALSE
      <4>1. [op |-> "add", token |-> f.token] = [op |-> "add", token |-> g.token]
        BY <1>2, <1>3, <1>4, <3>1 DEF AwaitedOnce
      <4>2. f.token = g.token
        BY <4>1
      <4>3. f \in [token: Tokens, live: BOOLEAN]
            /\ g \in [token: Tokens, live: BOOLEAN]
        BY <1>1, <3>1 DEF Fetches
      <4>4. f = g
        BY <1>4, <3>1, <4>2, <4>3
      <4> QED
        BY <3>1, <4>4
    <3> QED
      BY <3>1 DEF LiveFetch
  <2>6. job.what.live = FALSE
    <3>1. job.what \in Work \cup {GcJob, Nothing}
      BY DEF TypeOK, PinJobTypeOK, Running, NoJob
    <3> QED
      BY <2>4, <3>1 DEF LiveInLine, Work, GcJob, Nothing
  <2> HIDE DEF others
  <2>7. /\ AwaitedOnce(d.current, others \cup d.fetch, job.what, jobs \o d.work)
        /\ StillAwaited(d.current, others \cup d.fetch, job.what, jobs \o d.work)
    BY <1>1, <2>2, <2>4, <2>5, <2>6, AwaitedAnswer
  <2>8. /\ AwaitedOnce(d.current, others \cup d.fetch, job'.what, jobs')
        /\ StillAwaited(d.current, others \cup d.fetch, job'.what, jobs')
        /\ ~ready => job' = NoJob
    BY <2>1, <2>2, <2>3, <2>7, EnqueuedMoves DEF IntentAwaited
  <2>9. /\ current' = d.current /\ fetches' = others \cup d.fetch
        /\ queue' = d.queue
    BY <2>3 DEF Dispatched
  <2>10. d.queue # <<>> => d.current # NoIntent
    BY <2>2 DEF IsHandover
  <2>11. enabled
    BY <2>4 DEF IntentAwaited
  <2> QED
    BY <1>3, <2>8, <2>9, <2>10, <2>11 DEF IntentAwaited
<1>5. CASE ~f.live
  <2>1. /\ fetches' = others
        /\ UNCHANGED <<retries, current, queue, jobs, job>>
    BY <1>5 DEF MetadataFails
  <2>2. LiveFetch(others) <=> LiveFetch(fetches)
    BY <1>5 DEF LiveFetch
  <2>3. AwaitedOnce(current, others, job.what, jobs)
    BY <1>2 DEF AwaitedOnce
  <2> HIDE DEF others
  <2> QED
    BY <1>3, <2>1, <2>2, <2>3 DEF IntentAwaited, StillAwaited
<1> QED
  BY <1>4, <1>5

LEMMA NodeAnswersAwaited ==
  ASSUME TypeOK, IntentAwaited, NEW r \in Requests, NodeAnswers(r)
  PROVE  IntentAwaited'
<1>1. job # NoJob
  BY DEF NodeAnswers, Returning, NoJob
<1>2. job.what = job'.what
  BY <1>1 DEF NodeAnswers, TypeOK, PinJobTypeOK, Running
<1>3. ready /\ ready' = ready
  BY <1>1 DEF NodeAnswers, IntentAwaited, pinJobVars
<1> QED
  BY <1>2, <1>3, AwaitedSame DEF NodeAnswers, Upset, Calm, autoPinVars

LEMMA NodeFailsAwaited ==
  ASSUME TypeOK, IntentAwaited, NEW r \in Requests, NodeFails(r)
  PROVE  IntentAwaited'
<1>1. job # NoJob
  BY DEF NodeFails, Returning, NoJob
<1>2. job.what = job'.what
  BY <1>1 DEF NodeFails, TypeOK, PinJobTypeOK, Running
<1>3. ready /\ ready' = ready
  BY <1>1 DEF NodeFails, IntentAwaited, pinJobVars
<1> QED
  BY <1>2, <1>3, AwaitedSame DEF NodeFails, Upset, Calm, autoPinVars

LEMMA GcSweepsAwaited ==
  ASSUME TypeOK, IntentAwaited, GcSweeps
  PROVE  IntentAwaited'
<1>1. job # NoJob
  BY DEF GcSweeps, Returning, NoJob
<1>2. job.what = job'.what
  BY <1>1 DEF GcSweeps, TypeOK, PinJobTypeOK, Running
<1>3. ready /\ ready' = ready
  BY <1>1 DEF GcSweeps, IntentAwaited, pinJobVars
<1> QED
  BY <1>2, <1>3, AwaitedSame DEF GcSweeps, Upset, Calm, autoPinVars

LEMMA JobFinishesAwaited ==
  ASSUME TypeOK, IntentAwaited, JobFinishes
  PROVE  IntentAwaited'
<1> DEFINE w == job.what
           st == CASE w.kind = "add" ->
                      [status EXCEPT ![w.token] =
                         IF job.ok THEN "pinned" ELSE "failed"]
                 [] w.kind = "remove" -> [status EXCEPT ![w.token] = "none"]
                 [] w.kind = "verify" ->
                      [status EXCEPT ![w.token] =
                         IF job.ok THEN "pinned" ELSE "pinning"]
                 [] w.kind = "gc" -> status
           i == [op |-> "add", token |-> w.token]
           d == IF ~w.live
               THEN [current |-> current, queue |-> queue, status |-> st,
                     fetch |-> {}, work |-> <<>>]
               ELSE IF w.kind = "verify" /\ ~job.ok
               THEN AddOrExecute(i, NoIntent, queue, st, tokens)
               ELSE CheckQueue(NoIntent, queue, st)
<1>1. /\ Dispatched(d, fetches)
      /\ PostRetry(w.live /\ w.kind = "add" /\ ~job.ok)
      /\ DoNextJob(jobs \o d.work, ready)
      /\ UNCHANGED <<enabled, ready, met>>
  BY DEF JobFinishes, Calm
<1>2. job \in Running /\ w \in Work \cup {GcJob}
  BY DEF JobFinishes, Returning, TypeOK, PinJobTypeOK, Running
<1>3. jobs \in Seq(Work \cup {GcJob}) /\ queue \in Seq(Intents)
  BY DEF TypeOK, PinJobTypeOK
<1>4. AwaitedOnce(current, fetches, w, jobs)
  BY DEF IntentAwaited
<1> HIDE DEF st
<1>5. CASE ~w.live
  <2>1. d.current = current /\ d.fetch = {} /\ d.work = <<>> /\ d.queue = queue
    BY <1>5
  <2> HIDE DEF d
  <2>2. jobs \o d.work = jobs /\ fetches \cup d.fetch = fetches
    BY <1>3, <2>1, ConcatEmptySeq
  <2>3. AwaitedOnce(current, fetches, Nothing, jobs)
        /\ (StillAwaited(current, fetches, w, jobs) =>
              StillAwaited(current, fetches, Nothing, jobs))
    <3>1. ~Nothing.live
      BY DEF Nothing
    <3> HIDE DEF w
    <3> QED
      BY <1>4, <1>5, <3>1
      DEF AwaitedOnce, AwaitedInLine, StillAwaited, LiveInLine
  <2>4. DoNextJob(jobs, ready)
    BY <1>1, <2>2
  <2>5. /\ AwaitedOnce(current, fetches, job'.what, jobs')
        /\ StillAwaited(current, fetches, Nothing, jobs) =>
             StillAwaited(current, fetches, job'.what, jobs')
    BY <1>3, <2>3, <2>4, DoNextJobMoves
  <2>6. ~ready => job' = NoJob
    BY <2>4 DEF DoNextJob
  <2>7. /\ current' = current /\ fetches' = fetches /\ queue' = queue
        /\ retries' = retries
    BY <1>1, <1>5, <2>1, <2>2 DEF Dispatched, PostRetry
  <2> QED
    BY <1>1, <2>3, <2>5, <2>6, <2>7 DEF IntentAwaited
<1>6. CASE w.live
  <2>1. current # NoIntent
    BY <1>4, <1>6 DEF AwaitedOnce, AwaitedInLine, NoIntent, IntentOf
  <2>2. ~LiveInLine(Nothing, jobs) /\ ~LiveFetch(fetches)
    <3>1. ~Nothing.live
      BY DEF Nothing
    <3> HIDE DEF w
    <3> QED
      BY <1>4, <1>6, <3>1 DEF AwaitedOnce, AwaitedInLine, LiveInLine, LiveFetch
  <2>3. IsHandover(NoIntent, d)
    <3>1. CASE w.kind = "verify" /\ ~job.ok
      <4>1. i \in Intents
        BY <1>2, <3>1 DEF GcJob, Work, Intents
      <4> HIDE DEF i
      <4>2. IsHandover(NoIntent,
                       AddOrExecute(i, NoIntent, queue, st, tokens))
        BY <1>3, <4>1, AddOrExecuteHandover
      <4> QED
        BY <1>6, <3>1, <4>2
    <3>2. CASE ~(w.kind = "verify" /\ ~job.ok)
      <4>1. IsHandover(NoIntent, CheckQueue(NoIntent, queue, st))
        BY <1>3, CheckQueueHandover
      <4> QED
        BY <1>6, <3>2, <4>1
    <3> QED
      BY <3>1, <3>2
  <2> HIDE DEF d
  <2>4. Nothing.live = FALSE
    BY DEF Nothing
  <2>5. /\ AwaitedOnce(d.current, fetches \cup d.fetch, Nothing, jobs \o d.work)
        /\ StillAwaited(d.current, fetches \cup d.fetch, Nothing,
                        jobs \o d.work)
    BY <1>3, <2>2, <2>3, <2>4, AwaitedAnswer
  <2>6. jobs \o d.work \in Seq(Work \cup {GcJob})
    <3>1. d.work \in Seq(Work \cup {GcJob})
      <4>1. d.work = <<>> \/ \E x \in Work : d.work = <<x>>
        BY <2>3, Zenon DEF IsHandover
      <4>2. CASE d.work = <<>>
        BY <4>2
      <4>3. CASE \E x \in Work : d.work = <<x>>
        <5>1. PICK x \in Work : d.work = <<x>>
          BY <4>3
        <5> QED
          BY <5>1
      <4> QED
        BY <4>1, <4>2, <4>3
    <3> QED
      BY <1>3, <3>1, ConcatProperties
  <2>7. /\ AwaitedOnce(d.current, fetches \cup d.fetch, job'.what, jobs')
        /\ StillAwaited(d.current, fetches \cup d.fetch, job'.what, jobs')
    BY <1>1, <2>5, <2>6, DoNextJobMoves
  <2>8. ~ready => job' = NoJob
    BY <1>1 DEF DoNextJob
  <2>9. /\ current' = d.current /\ fetches' = fetches \cup d.fetch
        /\ queue' = d.queue
    BY <1>1 DEF Dispatched
  <2>10. d.queue # <<>> => d.current # NoIntent
    BY <2>3 DEF IsHandover
  <2>11. enabled
    BY <2>1 DEF IntentAwaited
  <2> QED
    BY <1>1, <2>7, <2>8, <2>9, <2>10, <2>11 DEF IntentAwaited
<1> QED
  BY <1>5, <1>6

LEMMA GcTimerFiresAwaited ==
  ASSUME TypeOK, IntentAwaited, GcTimerFires
  PROVE  IntentAwaited'
<1>1. UNCHANGED <<current, fetches, queue, enabled, retries, ready, met>>
  BY DEF GcTimerFires, Calm, autoPinVars
<1>2. CASE gcPosted
  BY <1>1, <1>2, AwaitedSame DEF GcTimerFires, IntentAwaited
<1>3. CASE ~gcPosted
  <2>1. AddJob(GcJob)
    BY <1>3 DEF GcTimerFires
  <2>2. jobs \in Seq(Work \cup {GcJob})
    BY DEF TypeOK, PinJobTypeOK
  <2> DEFINE new == Append(jobs, GcJob)
             last == Len(jobs) + 1
  <2>3. /\ DOMAIN new = DOMAIN jobs \cup {last}
        /\ last \notin DOMAIN jobs
        /\ \A k \in DOMAIN jobs : new[k] = jobs[k]
        /\ new[last] = GcJob
    BY <2>2, LongerLine
  <2>4. ~GcJob.live
    BY DEF GcJob
  <2> HIDE DEF new, last
  <2>5. AwaitedInLine(current, job.what, new)
    BY <2>3, <2>4 DEF IntentAwaited, AwaitedOnce, AwaitedInLine
  <2>6. LiveInLine(job.what, new) <=> LiveInLine(job.what, jobs)
    BY <2>3, <2>4 DEF LiveInLine
  <2>7. AwaitedOnce(current, fetches, job.what, new)
    BY <2>5, <2>6 DEF IntentAwaited, AwaitedOnce
  <2>8. /\ AwaitedOnce(current, fetches, job'.what, jobs')
        /\ StillAwaited(current, fetches, job.what, new) =>
             StillAwaited(current, fetches, job'.what, jobs')
        /\ ~ready => job' = NoJob
    BY <2>1, <2>7, AddJobMoves DEF IntentAwaited, new
  <2> QED
    BY <1>1, <2>6, <2>8 DEF IntentAwaited, StillAwaited
<1> QED
  BY <1>2, <1>3

LEMMA NodeLaunchesAwaited ==
  ASSUME TypeOK, IntentAwaited, NodeLaunches
  PROVE  IntentAwaited'
BY AwaitedSame DEF NodeLaunches, IntentAwaited, Upset, Calm, daemonVars,
   pinJobVars, autoPinVars

LEMMA NodeFailsToLaunchAwaited ==
  ASSUME TypeOK, IntentAwaited, NodeFailsToLaunch
  PROVE  IntentAwaited'
BY AwaitedSame DEF NodeFailsToLaunch, IntentAwaited, Upset, Calm, daemonVars,
   pinJobVars, autoPinVars

LEMMA OnExecutableReadyAwaited ==
  ASSUME TypeOK, IntentAwaited, OnExecutableReady
  PROVE  IntentAwaited'
BY AwaitedSame DEF OnExecutableReady, IntentAwaited, Upset, Calm, daemonVars,
   pinJobVars, autoPinVars

LEMMA OthersLaunchAwaited ==
  ASSUME TypeOK, IntentAwaited, OthersLaunch
  PROVE  IntentAwaited'
BY AwaitedSame DEF OthersLaunch, IntentAwaited, Upset, Calm, daemonVars,
   pinJobVars, autoPinVars

LEMMA UserStopsNodeAwaited ==
  ASSUME TypeOK, IntentAwaited, UserStopsNode
  PROVE  IntentAwaited'
<1>1. met' \cap {"stop", "renew"} # {}
  BY DEF UserStopsNode, Upset
<1> QED
  BY <1>1, AwaitedWithoutNode DEF UserStopsNode, autoPinVars

LEMMA RestartDaemonAwaited ==
  ASSUME TypeOK, IntentAwaited, RestartDaemon
  PROVE  IntentAwaited'
<1>1. met' \cap {"stop", "renew"} # {}
  BY DEF RestartDaemon, Upset
<1> QED
  BY <1>1, AwaitedWithoutNode DEF RestartDaemon, autoPinVars

LEMMA NodeCrashesAwaited ==
  ASSUME TypeOK, IntentAwaited, NodeCrashes
  PROVE  IntentAwaited'
BY AwaitedSame DEF NodeCrashes, IntentAwaited, Upset, Calm, daemonVars,
   pinJobVars, autoPinVars

LEMMA PollTimerAwaited ==
  ASSUME TypeOK, IntentAwaited, PollTimer
  PROVE  IntentAwaited'
BY AwaitedSame
DEF PollTimer, PollTimerFires, IntentAwaited, Upset, Calm, autoPinVars

LEMMA PeersAnswerAwaited ==
  ASSUME TypeOK, IntentAwaited, NEW success \in BOOLEAN, PeersAnswer(success)
  PROVE  IntentAwaited'
<1>1. UNCHANGED <<current, fetches, queue, enabled, retries>>
      /\ met \subseteq met'
  BY DEF PeersAnswer, autoPinVars, Calm, Upset
<1>2. CASE ~ready /\ success
  <2>1. DoNextJob(jobs, TRUE) /\ ready'
    BY <1>2 DEF PeersAnswer, OnGetConnectedPeersResult
  <2>2. job.what = Nothing
    BY <1>2 DEF IntentAwaited, NoJob
  <2>3. AwaitedOnce(current, fetches, Nothing, jobs)
    BY <2>2 DEF IntentAwaited
  <2>4. jobs \in Seq(Work \cup {GcJob})
    BY DEF TypeOK, PinJobTypeOK
  <2>5. /\ AwaitedOnce(current, fetches, job'.what, jobs')
        /\ StillAwaited(current, fetches, Nothing, jobs) =>
             StillAwaited(current, fetches, job'.what, jobs')
    BY <2>1, <2>3, <2>4, DoNextJobMoves
  <2> QED
    BY <1>1, <2>1, <2>2, <2>5 DEF IntentAwaited
<1>3. CASE ~(~ready /\ success)
  <2>1. UNCHANGED <<jobs, job>> /\ (ready' <=> ready)
    BY <1>3 DEF PeersAnswer, OnGetConnectedPeersResult, TypeOK, PinJobTypeOK
  <2> QED
    BY <1>1, <2>1, AwaitedSame DEF IntentAwaited
<1> QED
  BY <1>2, <1>3

LEMMA UserResetsWalletAwaited ==
  ASSUME TypeOK, IntentAwaited, UserResetsWallet
  PROVE  IntentAwaited'
BY AwaitedSame DEF UserResetsWallet, IntentAwaited, Upset, Calm, daemonVars,
   pinJobVars, autoPinVars

LEMMA ResetNewsArrivesAwaited ==
  ASSUME TypeOK, IntentAwaited, ResetNewsArrives
  PROVE  IntentAwaited'
<1>1. /\ current' = NoIntent /\ queue' = <<>> /\ retries' = {}
      /\ fetches' = {} /\ jobs' = <<>> /\ job' = NoJob
  BY DEF ResetNewsArrives, ForgetIntents
<1>2. ~NoJob.what.live
  BY DEF NoJob, Nothing
<1>3. AwaitedOnce(NoIntent, {}, NoJob.what, <<>>)
  BY <1>2 DEF AwaitedOnce, AwaitedInLine
<1> QED
  BY <1>1, <1>3 DEF IntentAwaited, StillAwaited

LEMMA CliListsAwaited ==
  ASSUME TypeOK, IntentAwaited, CliLists
  PROVE  IntentAwaited'
BY AwaitedSame DEF CliLists, IntentAwaited, Upset, Calm, daemonVars,
   pinJobVars, autoPinVars

LEMMA CliRemovesAwaited ==
  ASSUME TypeOK, IntentAwaited, NEW c \in Cids, CliRemoves(c)
  PROVE  IntentAwaited'
BY AwaitedSame DEF CliRemoves, IntentAwaited, Upset, Calm, daemonVars,
   pinJobVars, autoPinVars

LEMMA CliFailsAwaited ==
  ASSUME TypeOK, IntentAwaited, CliFails
  PROVE  IntentAwaited'
BY AwaitedSame DEF CliFails, IntentAwaited, Upset, Calm, daemonVars,
   pinJobVars, autoPinVars

LEMMA BrowserRestartsAwaited ==
  ASSUME TypeOK, IntentAwaited, BrowserRestarts
  PROVE  IntentAwaited'
<1>1. PICK d \in IF enabled THEN Restored(status)
                ELSE {CheckQueue(NoIntent, <<>>, status)} :
        Dispatched(d, {}) /\ jobs' = d.work
  BY DEF BrowserRestarts
<1>2. <<>> \in Seq(Intents) /\ <<>> \in Seq(Work \cup {GcJob})
  BY EmptySeq
<1>3. IsDispatch(d) /\ IsHandover(NoIntent, d)
  <2>1. CASE enabled
    BY <1>1, <2>1, RestoredType, RestoredHandover DEF TypeOK
  <2>2. CASE ~enabled
    <3>1. IsDispatch(CheckQueue(NoIntent, <<>>, status))
          /\ IsHandover(NoIntent, CheckQueue(NoIntent, <<>>, status))
      BY <1>2, CheckQueueType, CheckQueueHandover DEF TypeOK
    <3> QED
      BY <1>1, <2>2, <3>1
  <2> QED
    BY <2>1, <2>2
<1>4. Nothing.live = FALSE /\ ~LiveInLine(Nothing, <<>>) /\ ~LiveFetch({})
  BY DEF Nothing, LiveInLine, LiveFetch
<1>5. /\ AwaitedOnce(d.current, {} \cup d.fetch, Nothing, <<>> \o d.work)
      /\ StillAwaited(d.current, {} \cup d.fetch, Nothing, <<>> \o d.work)
  BY <1>2, <1>3, <1>4, AwaitedAnswer
<1>6. <<>> \o d.work = d.work
  BY <1>3, ConcatEmptySeq DEF IsDispatch
<1>7. /\ current' = d.current /\ fetches' = {} \cup d.fetch
      /\ queue' = d.queue
  BY <1>1 DEF Dispatched
<1>8. job' = NoJob /\ job'.what = Nothing /\ retries' = {} /\ enabled' = enabled
  BY DEF BrowserRestarts, NoJob
<1>9. ~enabled => d.current = NoIntent
  <2>1. CheckQueue(NoIntent, <<>>, status).current = NoIntent
    <3>1. 1 .. Len(<<>>) = {}
      BY EmptySeq
    <3>2. \/ CheckQueue(NoIntent, <<>>, status) =
               NotStarted(NoIntent, <<>>, status)
          \/ \E n \in 1 .. Len(<<>>) :
               CheckQueue(NoIntent, <<>>, status) =
                 StartedFrom(<<>>[n], SubSeq(<<>>, n + 1, Len(<<>>)), status)
      BY <1>2, CheckQueueEffect
    <3> QED
      BY <3>1, <3>2 DEF NotStarted
  <2> QED
    BY <1>1, <2>1
<1>10. d.queue # <<>> => d.current # NoIntent
  BY <1>3 DEF IsHandover
<1>11. AwaitedOnce(current', fetches', job'.what, jobs')
       /\ StillAwaited(current', fetches', job'.what, jobs')
  BY <1>1, <1>5, <1>6, <1>7, <1>8
<1> QED
  BY <1>7, <1>8, <1>9, <1>10, <1>11 DEF IntentAwaited

-----------------------------------------------------------------------------
(* The theorems *)

\* A step that changes nothing.
LEMMA StutterTypeAwaited ==
  ASSUME TypeOK, IntentAwaited, UNCHANGED vars
  PROVE  TypeOK' /\ IntentAwaited'
<1> USE DEF vars, daemonVars, pinJobVars, autoPinVars
<1>1. QueueTypeOK /\ IntentTypeOK /\ UpsetTypeOK /\ OtherTypeOK
  BY TypeParts
<1>2. QueueTypeOK' /\ IntentTypeOK'
  BY <1>1 DEF QueueTypeOK, IntentTypeOK
<1>3. UpsetTypeOK' /\ OtherTypeOK'
  BY <1>1 DEF UpsetTypeOK, OtherTypeOK
<1>4. IntentAwaited'
  BY AwaitedSame DEF IntentAwaited
<1> QED
  BY <1>2, <1>3, <1>4, NextTypeParts

LEMMA AwaitedInit == Init => IntentAwaited
<1> SUFFICES ASSUME Init PROVE IntentAwaited
  OBVIOUS
<1>1. /\ current = NoIntent /\ fetches = {} /\ jobs = <<>> /\ job = NoJob
      /\ queue = <<>> /\ retries = {}
  BY DEF Init, PinJobInit
<1>2. ~NoJob.what.live
  BY DEF NoJob, Nothing
<1>3. AwaitedOnce(NoIntent, {}, NoJob.what, <<>>)
  BY <1>2 DEF AwaitedOnce, AwaitedInLine
<1> QED
  BY <1>1, <1>3 DEF IntentAwaited, StillAwaited

LEMMA NextTypeAwaited ==
  ASSUME TypeOK, IntentAwaited, Next
  PROVE  TypeOK' /\ IntentAwaited'
<1>1. CASE \E t \in Tokens : UserChanges(t)
  BY <1>1, UserChangesType, UserChangesAwaited
<1>2. CASE TokenNewsArrives
  BY <1>2, TokenNewsArrivesType, TokenNewsArrivesAwaited
<1>3. CASE \E i \in Intents : RetryFires(i)
  BY <1>3, RetryFiresType, RetryFiresAwaited
<1>4. CASE SwitchOn
  BY <1>4, SwitchOnType, SwitchOnAwaited
<1>5. CASE SwitchOff
  BY <1>5, SwitchOffType, SwitchOffAwaited
<1>6. CASE \E f \in Fetches : MetadataArrives(f)
  BY <1>6, MetadataArrivesType, MetadataArrivesAwaited
<1>7. CASE \E f \in Fetches, why \in {"failed", "refused"} : MetadataFails(f, why)
  BY <1>7, MetadataFailsType, MetadataFailsAwaited
<1>8. CASE \E r \in Requests : NodeAnswers(r)
  BY <1>8, NodeAnswersType, NodeAnswersAwaited
<1>9. CASE \E r \in Requests : NodeFails(r)
  BY <1>9, NodeFailsType, NodeFailsAwaited
<1>10. CASE GcSweeps
  BY <1>10, GcSweepsType, GcSweepsAwaited
<1>11. CASE JobFinishes
  BY <1>11, JobFinishesType, JobFinishesAwaited
<1>12. CASE GcTimerFires
  BY <1>12, GcTimerFiresType, GcTimerFiresAwaited
<1>13. CASE NodeLaunches
  BY <1>13, NodeLaunchesType, NodeLaunchesAwaited
<1>14. CASE NodeFailsToLaunch
  BY <1>14, NodeFailsToLaunchType, NodeFailsToLaunchAwaited
<1>15. CASE OnExecutableReady
  BY <1>15, OnExecutableReadyType, OnExecutableReadyAwaited
<1>16. CASE OthersLaunch
  BY <1>16, OthersLaunchType, OthersLaunchAwaited
<1>17. CASE UserStopsNode
  BY <1>17, UserStopsNodeType, UserStopsNodeAwaited
<1>18. CASE RestartDaemon
  BY <1>18, RestartDaemonType, RestartDaemonAwaited
<1>19. CASE NodeCrashes
  BY <1>19, NodeCrashesType, NodeCrashesAwaited
<1>20. CASE PollTimer
  BY <1>20, PollTimerType, PollTimerAwaited
<1>21. CASE \E success \in BOOLEAN : PeersAnswer(success)
  BY <1>21, PeersAnswerType, PeersAnswerAwaited
<1>22. CASE UserResetsWallet
  BY <1>22, UserResetsWalletType, UserResetsWalletAwaited
<1>23. CASE ResetNewsArrives
  BY <1>23, ResetNewsArrivesType, ResetNewsArrivesAwaited
<1>24. CASE CliLists
  BY <1>24, CliListsType, CliListsAwaited
<1>25. CASE \E c \in Cids : CliRemoves(c)
  BY <1>25, CliRemovesType, CliRemovesAwaited
<1>26. CASE CliFails
  BY <1>26, CliFailsType, CliFailsAwaited
<1>27. CASE BrowserRestarts
  BY <1>27, BrowserRestartsType, BrowserRestartsAwaited
<1> QED
  BY <1>1, <1>2, <1>3, <1>4, <1>5, <1>6, <1>7, <1>8, <1>9, <1>10, <1>11,
     <1>12, <1>13, <1>14, <1>15, <1>16, <1>17, <1>18, <1>19, <1>20, <1>21,
     <1>22, <1>23, <1>24, <1>25, <1>26, <1>27
     DEF Next

\* Every variable keeps its type: what is retried is an intent, the line of jobs
\* holds jobs, and no counter leaves its bounds.
THEOREM TypeCorrect == Spec => []TypeOK
<1>1. Init => TypeOK /\ IntentAwaited
  BY TypeInit, AwaitedInit
<1>2. TypeOK /\ IntentAwaited /\ [Next]_vars => TypeOK' /\ IntentAwaited'
  BY NextTypeAwaited, StutterTypeAwaited
<1> QED
  BY <1>1, <1>2, PTL DEF Spec

\* The argument of CurrentAwaited holds in every reachable state.
LEMMA AlwaysAwaited == Spec => [](TypeOK /\ IntentAwaited)
<1>1. Init => TypeOK /\ IntentAwaited
  BY TypeInit, AwaitedInit
<1>2. TypeOK /\ IntentAwaited /\ [Next]_vars => TypeOK' /\ IntentAwaited'
  BY NextTypeAwaited, StutterTypeAwaited
<1> QED
  BY <1>1, <1>2, PTL DEF Spec

\* Only the callback of the running intent lets the next one start, and only
\* the loss of the node loses it: whatever is fetched, queued, retried, switched
\* off or reset, no callback of another intent comes, and the running one waits
\* for one.
THEOREM CurrentAwaited == Spec => []CurrentIsAwaited
<1>1. TypeOK /\ IntentAwaited => CurrentIsAwaited
  <2> SUFFICES ASSUME TypeOK, IntentAwaited PROVE CurrentIsAwaited
    OBVIOUS
  <2>1. \A y : IntentOf(y) # NoIntent
    BY DEF IntentOf, NoIntent
  <2>2. ASSUME NEW x \in Awaited
        PROVE  x = current /\ current # NoIntent
    <3>1. CASE \E f \in fetches : f.live /\ x = [op |-> "add", token |-> f.token]
      BY <3>1 DEF IntentAwaited, AwaitedOnce, NoIntent
    <3>2. CASE \E k \in DOMAIN jobs : jobs[k].live /\ x = IntentOf(jobs[k])
      BY <3>2, <2>1 DEF IntentAwaited, AwaitedOnce, AwaitedInLine
    <3>3. CASE job.what.live /\ x = IntentOf(job.what)
      BY <3>3, <2>1 DEF IntentAwaited, AwaitedOnce, AwaitedInLine
    <3> QED
      BY <3>1, <3>2, <3>3 DEF Awaited
  <2>3. ASSUME current # NoIntent, met \cap {"stop", "renew"} = {}
        PROVE  Awaited # {}
    <3>1. LiveInLine(job.what, jobs) \/ LiveFetch(fetches)
      BY <2>3 DEF IntentAwaited, StillAwaited
    <3>2. CASE \E f \in fetches : f.live
      <4>1. PICK f \in fetches : f.live
        BY <3>2
      <4>2. [op |-> "add", token |-> f.token] \in Awaited
        BY <4>1 DEF Awaited
      <4> QED
        BY <4>2
    <3>3. CASE \E k \in DOMAIN jobs : jobs[k].live
      <4>1. PICK k \in DOMAIN jobs : jobs[k].live
        BY <3>3
      <4>2. IntentOf(jobs[k]) \in Awaited
        BY <4>1 DEF Awaited
      <4> QED
        BY <4>2
    <3>4. CASE job.what.live
      <4>1. IntentOf(job.what) \in Awaited
        BY <3>4 DEF Awaited
      <4> QED
        BY <4>1
    <3> QED
      BY <3>1, <3>2, <3>3, <3>4 DEF LiveInLine, LiveFetch
  <2>4. queue # <<>> => current # NoIntent
    BY DEF IntentAwaited
  <2> HIDE DEF IntentAwaited
  <2> QED
    BY <2>2, <2>3, <2>4 DEF CurrentIsAwaited
<1> QED
  BY <1>1, AlwaysAwaited, PTL

=============================================================================
