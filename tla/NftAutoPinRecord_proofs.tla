---------------------- MODULE NftAutoPinRecord_proofs ----------------------
(***************************************************************************)
(* A token that NftAutoPin shows as pinned is recorded, for every finite   *)
(* set of tokens and whatever goes wrong however often, as long as         *)
(* automatic pinning is not switched off and the wallet is not reset.      *)
(***************************************************************************)
EXTENDS NftAutoPin_proofs

-----------------------------------------------------------------------------
(* What the queue of intents starts *)

\* The intents with nothing to do that are dropped are all those at the front:
\* the first that stays has something to do.
LEMMA HeadIsNotMoot ==
  ASSUME NEW q \in Seq(Intents), NEW st, AfterMoot(q, st) # <<>>
  PROVE  ~IsMoot(Head(AfterMoot(q, st)), st)
<1> DEFINE moot == {k \in DOMAIN q : \A m \in 1 .. k : IsMoot(q[m], st)}
           n == Cardinality(moot)
<1>1. Len(q) \in Nat /\ DOMAIN q = 1 .. Len(q) /\ moot \in SUBSET (1 .. Len(q))
  BY LenProperties
<1>2. IsFiniteSet(moot) /\ n \in 0 .. Len(q)
  BY <1>1, IndicesFinite
<1>3. AfterMoot(q, st) = SubSeq(q, n + 1, Len(q))
  BY DEF AfterMoot
<1>4. \A k \in moot : \A m \in 1 .. k : m \in moot
  BY <1>1
<1>5. ASSUME NEW k \in 1 .. Len(q), k \notin moot,
             \A m \in 1 .. k - 1 : m \in moot
      PROVE  ~IsMoot(q[k], st)
  <2>1. PICK m \in 1 .. k : ~IsMoot(q[m], st)
    BY <1>1, <1>5
  <2>2. CASE m \in 1 .. k - 1
    <3>1. m \in moot
      BY <1>5, <2>2
    <3>2. m \in 1 .. m
      BY <2>2
    <3> QED
      BY <2>1, <3>1, <3>2
  <2>3. CASE m = k
    BY <2>1, <2>3
  <2> QED
    BY <2>2, <2>3
<1> HIDE DEF moot
<1>6. ~(Len(q) < n + 1)
  BY <1>1, <1>2, <1>3, SubSeqEmpty
<1>7. n + 1 \in 1 .. Len(q) /\ Len(q) \in n + 1 .. Len(q)
  BY <1>1, <1>2, <1>6
<1>8. Head(AfterMoot(q, st)) = q[n + 1]
  BY <1>3, <1>7, HeadTailOfSubSeq
<1>9. n + 1 \notin moot
  <2> SUFFICES ASSUME n + 1 \in moot PROVE FALSE
    OBVIOUS
  <2>1. 1 .. n + 1 \subseteq moot
    BY <1>4
  <2>2. Cardinality(1 .. n + 1) = n + 1
    <3>1. n + 1 \in Int /\ 1 \in Int /\ n + 1 >= 1
      BY <1>2
    <3>2. Cardinality(1 .. n + 1) = IF 1 > n + 1 THEN 0 ELSE (n + 1) - 1 + 1
      BY <3>1, FS_Interval
    <3> QED
      BY <3>1, <3>2
  <2>3. Cardinality(1 .. n + 1) <= n
    BY <1>2, <2>1, FS_Subset
  <2> QED
    BY <1>2, <2>2, <2>3
<1>10. ASSUME NEW k \in 1 .. n
       PROVE  k \in moot
  <2> SUFFICES ASSUME k \notin moot PROVE FALSE
    OBVIOUS
  <2>1. moot \in SUBSET (1 .. k - 1)
    <3>1. \A m \in moot : m \in Nat /\ m >= 1 /\ ~(k \in 1 .. m)
      BY <1>1, <1>4
    <3> QED
      BY <1>2, <3>1
  <2>2. k - 1 \in Nat
    BY <1>2
  <2>3. Cardinality(moot) \in 0 .. k - 1
    BY <2>1, <2>2, IndicesFinite
  <2> QED
    BY <1>2, <2>2, <2>3
<1>11. \A m \in 1 .. (n + 1) - 1 : m \in moot
  BY <1>2, <1>10
<1> QED
  BY <1>5, <1>7, <1>8, <1>9, <1>11

\* What is started is awaited, a token is validated only when it is pinned, and
\* no token becomes pinned by starting something.
IsFaithful(d, st) ==
  /\ \A f \in d.fetch : f.live
  /\ d.work # <<>> =>
       /\ Head(d.work).live
       /\ Len(d.work) = 1
       /\ Head(d.work).kind = "verify" => st[Head(d.work).token] = "pinned"
  /\ \A t \in Tokens : d.status[t] = "pinned" => st[t] = "pinned"

LEMMA CheckQueueFaithful ==
  ASSUME NEW c, NEW q \in Seq(Intents), NEW st \in [Tokens -> Statuses]
  PROVE  IsFaithful(CheckQueue(c, q, st), st)
<1> DEFINE rest == AfterMoot(q, st)
           i == Head(rest)
           d == CheckQueue(c, q, st)
<1>1. CASE c # NoIntent \/ rest = <<>>
  <2>1. d.fetch = {} /\ d.work = <<>> /\ d.status = st
    BY <1>1 DEF CheckQueue
  <2> HIDE DEF d
  <2>2. IsFaithful(d, st)
    BY <2>1 DEF IsFaithful
  <2> QED
    BY <2>2 DEF d
<1>2. CASE c = NoIntent /\ rest # <<>>
  <2>1. ~IsMoot(i, st)
    BY <1>2, HeadIsNotMoot
  <2>2. rest \in Seq(Intents)
    <3>1. PICK n \in 0 .. Len(q) : rest = SubSeq(q, n + 1, Len(q))
      BY AfterMootEffect
    <3> QED
      BY <3>1, EndOfSeq
  <2>3. i.op \in {"add", "delete", "validate"} /\ i.token \in Tokens
    <3> HIDE DEF rest
    <3>1. i \in Intents
      BY <1>2, <2>2, HeadTailProperties
    <3> QED
      BY <3>1 DEF Intents
  <2> HIDE DEF rest
  <2>4. d = StartedFrom(i, Tail(rest), st)
    <3>1. AfterMoot(q, st) = rest
      BY DEF rest
    <3> HIDE DEF i
    <3>2. Head(rest) = i
      BY DEF i
    <3> QED
      BY <1>2, <3>1, <3>2 DEF CheckQueue, StartedFrom
  <2> HIDE DEF i, d
  <2>5. /\ \A f \in d.fetch : f.live
        /\ \A t \in Tokens : d.status[t] = "pinned" => st[t] = "pinned"
    BY <2>3, <2>4 DEF StartedFrom
  <2>6. ASSUME i.op = "add"
        PROVE  IsFaithful(d, st)
    <3>1. d.work = <<>>
      BY <2>4, <2>6 DEF StartedFrom
    <3> QED
      BY <2>5, <3>1 DEF IsFaithful
  <2>7. ASSUME i.op # "add"
        PROVE  IsFaithful(d, st)
    <3> DEFINE w == [kind |-> IF i.op = "delete" THEN "remove" ELSE "verify",
                     token |-> i.token, live |-> TRUE]
    <3>1. d.work = <<w>>
      BY <2>4, <2>7 DEF StartedFrom
    <3>2. w.live /\ (w.kind = "verify" => st[w.token] = "pinned")
      BY <2>1, <2>3, <2>7 DEF IsMoot
    <3> HIDE DEF w
    <3>3. Head(d.work) = w /\ Len(d.work) = 1
      BY <3>1
    <3> QED
      BY <2>5, <3>2, <3>3 DEF IsFaithful
  <2> QED
    BY <2>6, <2>7 DEF d
<1> QED
  BY <1>1, <1>2

\* Marking a token for what is to be done with it never shows it as pinned.
LEMMA AddOrExecuteFaithful ==
  ASSUME NEW i \in Intents, NEW c, NEW q \in Seq(Intents),
         NEW st \in [Tokens -> Statuses], NEW toks
  PROVE  IsFaithful(AddOrExecute(i, c, q, st, toks), st)
<1>1. CASE ~IsAccepted(i, c, q, toks)
  BY <1>1, CheckQueueFaithful DEF AddOrExecute
<1>2. CASE IsAccepted(i, c, q, toks)
  <2> DEFINE a == Append(q, i)
             m == Marked(i, st)
             d == CheckQueue(c, a, m)
  <2>1. a \in Seq(Intents)
    BY AppendProperties
  <2>2. m \in [Tokens -> Statuses]
    BY DEF Marked, Intents, Statuses
  <2>3. \A t \in Tokens : m[t] = "pinned" => st[t] = "pinned"
    BY DEF Marked, Intents
  <2> HIDE DEF a, m
  <2>4. IsFaithful(d, m)
    BY <2>1, <2>2, CheckQueueFaithful
  <2>5. IsDispatch(d) \/ c \notin Intents \cup {NoIntent}
    BY <2>1, <2>2, CheckQueueType
  <2>6. AddOrExecute(i, c, q, st, toks) = d
    BY <1>2 DEF AddOrExecute, a, m
  <2>7. d.work # <<>> /\ Head(d.work).kind = "verify" => Head(d.work).token \in Tokens
    <3>1. c = NoIntent => IsDispatch(d)
      BY <2>5
    <3>2. c # NoIntent => d.work = <<>>
      BY DEF CheckQueue
    <3>3. IsDispatch(d) /\ d.work # <<>> => Head(d.work) \in Work
      BY HeadTailProperties DEF IsDispatch
    <3> HIDE DEF d
    <3> QED
      BY <3>1, <3>2, <3>3 DEF Work
  <2> HIDE DEF d
  <2>8. IsFaithful(d, st)
    BY <2>3, <2>4, <2>7 DEF IsFaithful
  <2> QED
    BY <2>6, <2>8
<1> QED
  BY <1>1, <1>2

\* Restoring marks tokens, but not as pinned.
LEMMA RestoredFaithful ==
  ASSUME NEW st \in [Tokens -> Statuses], wallet \subseteq Tokens,
         NEW d \in Restored(st)
  PROVE  IsFaithful(d, st)
<1> DEFINE marked == [t \in Tokens |->
        IF t \in wallet
        THEN IF st[t] \in {"pinned", "refused"} THEN st[t] ELSE "pinning_pending"
        ELSE IF st[t] = "none" THEN "none" ELSE "unpinning_pending"]
<1>1. PICK due \in SUBSET {t \in wallet : st[t] = "pinned"} :
        \E ws \in Orders(Wishes(due, st)), us \in Orders(Unwanted(st)) :
          d = CheckQueue(NoIntent, ws \o us, marked)
  BY DEF Restored
<1>2. PICK ws \in Orders(Wishes(due, st)), us \in Orders(Unwanted(st)) :
        d = CheckQueue(NoIntent, ws \o us, marked)
  BY <1>1
<1>3. ws \in Seq(Intents) /\ us \in Seq(Intents)
  BY WishesType, OrdersType, SeqMonotonic
<1>4. ws \o us \in Seq(Intents)
  BY <1>3, ConcatProperties
<1>5. marked \in [Tokens -> Statuses]
  BY DEF Statuses
<1>6. \A t \in Tokens : marked[t] = "pinned" => st[t] = "pinned"
  OBVIOUS
<1>7. IsDispatch(d)
  BY RestoredType
<1>8. d.work # <<>> => Head(d.work) \in Work
  BY <1>7, HeadTailProperties DEF IsDispatch
<1> HIDE DEF marked
<1>9. IsFaithful(d, marked)
  BY <1>2, <1>4, <1>5, CheckQueueFaithful
<1> QED
  BY <1>6, <1>8, <1>9 DEF IsFaithful, Work

-----------------------------------------------------------------------------
(* The record and the status of a token: the argument of PinnedIsRecorded *)

IsRecorded(t, rec) == \A p \in PinsOf[t] : t \in rec[p]

\* A job whose callback is awaited, and which validates only what is recorded.
IsHonest(w, rec) ==
  /\ w \in Work => w.live
  /\ w.kind = "verify" => IsRecorded(w.token, rec)

HonestLine(w, js, rec) ==
  /\ IsHonest(w, rec)
  /\ \A k \in DOMAIN js : IsHonest(js[k], rec)

Undisturbed == met \cap {"off", "reset"} = {}

\* Only switching off leaves callbacks that nobody waits for, and only a reset
\* starts the client that forgets the record.  Without them the one work job
\* there is belongs to the running intent, so that nothing takes a token off the
\* record while it is validated.
RecordTrue ==
  Undisturbed =>
    /\ ~resetNews
    /\ cli.step = "never" /\ cli.left = {}
    /\ \A f \in fetches : f.live
    /\ \A t \in Tokens : status[t] = "pinned" => IsRecorded(t, recorded)
    /\ HonestLine(job.what, jobs, recorded)

\* What has gone wrong is not forgotten.
LEMMA StaysUndisturbed ==
  ASSUME Calm \/ (\E kind : Upset(kind)), Undisturbed'
  PROVE  Undisturbed
BY DEF Calm, Upset, Undisturbed

LEMMA NothingIsHonest ==
  ASSUME NEW rec
  PROVE  IsHonest(Nothing, rec) /\ IsHonest(GcJob, rec)
BY DEF IsHonest, Nothing, GcJob, Work

\* A job that was queued goes on being what it was.
LEMMA DoNextJobHonest ==
  ASSUME NEW rec, NEW js \in Seq(Work \cup {GcJob}), NEW isReady,
         DoNextJob(js, isReady), \A k \in DOMAIN js : IsHonest(js[k], rec)
  PROVE  HonestLine(job'.what, jobs', rec)
<1>1. CASE js # <<>> /\ isReady
  <2>1. job'.what = Head(js) /\ jobs' = Tail(js)
    BY <1>1 DEF DoNextJob, Started
  <2>2. /\ Len(js) \in Nat /\ DOMAIN js = 1 .. Len(js) /\ 1 \in DOMAIN js
        /\ Head(js) = js[1]
        /\ DOMAIN Tail(js) = 1 .. Len(js) - 1
        /\ \A k \in 1 .. Len(js) - 1 : Tail(js)[k] = js[k + 1]
    BY <1>1, HeadTailProperties, LenProperties, EmptySeq
  <2>3. \A k \in DOMAIN Tail(js) : k + 1 \in DOMAIN js
    BY <2>2
  <2> QED
    BY <2>1, <2>2, <2>3 DEF HonestLine
<1>2. CASE ~(js # <<>> /\ isReady)
  <2>1. job'.what = Nothing /\ jobs' = js
    BY <1>2 DEF DoNextJob, NoJob
  <2> QED
    BY <2>1, NothingIsHonest DEF HonestLine
<1> QED
  BY <1>1, <1>2

LEMMA AppendHonest ==
  ASSUME NEW rec, NEW js \in Seq(Work \cup {GcJob}), NEW w \in Work \cup {GcJob},
         IsHonest(w, rec), \A k \in DOMAIN js : IsHonest(js[k], rec)
  PROVE  /\ Append(js, w) \in Seq(Work \cup {GcJob})
         /\ \A k \in DOMAIN Append(js, w) : IsHonest(Append(js, w)[k], rec)
<1>1. /\ Append(js, w) \in Seq(Work \cup {GcJob})
      /\ Len(Append(js, w)) = Len(js) + 1
      /\ \A k \in 1 .. Len(js) : Append(js, w)[k] = js[k]
      /\ Append(js, w)[Len(js) + 1] = w
  BY AppendProperties
<1>2. /\ Len(js) \in Nat /\ DOMAIN js = 1 .. Len(js)
      /\ DOMAIN Append(js, w) = 1 .. Len(js) + 1
  BY <1>1, LenProperties
<1> QED
  BY <1>1, <1>2

LEMMA AddJobHonest ==
  ASSUME TypeOK, NEW rec, NEW w \in Work \cup {GcJob}, IsHonest(w, rec),
         HonestLine(job.what, jobs, rec), AddJob(w)
  PROVE  HonestLine(job'.what, jobs', rec)
<1>1. jobs \in Seq(Work \cup {GcJob})
  BY DEF TypeOK, PinJobTypeOK
<1>2. /\ Append(jobs, w) \in Seq(Work \cup {GcJob})
      /\ \A k \in DOMAIN Append(jobs, w) : IsHonest(Append(jobs, w)[k], rec)
  BY <1>1, AppendHonest DEF HonestLine
<1> QED
  BY <1>2, DoNextJobHonest DEF AddJob, HonestLine

\* The job of an intent that was started.
LEMMA HeadHonest ==
  ASSUME NEW rec, NEW st, NEW d, IsDispatch(d), IsFaithful(d, st), d.work # <<>>,
         \A t \in Tokens : st[t] = "pinned" => IsRecorded(t, rec)
  PROVE  Head(d.work) \in Work /\ IsHonest(Head(d.work), rec)
<1>1. Head(d.work) \in Work
  BY HeadTailProperties DEF IsDispatch
<1> QED
  BY <1>1 DEF IsFaithful, IsHonest, Work

LEMMA EnqueuedHonest ==
  ASSUME TypeOK, NEW rec, NEW st, NEW d, IsDispatch(d), IsFaithful(d, st),
         \A t \in Tokens : st[t] = "pinned" => IsRecorded(t, rec),
         HonestLine(job.what, jobs, rec), Enqueued(d)
  PROVE  HonestLine(job'.what, jobs', rec)
<1>1. CASE d.work = <<>>
  BY <1>1 DEF Enqueued
<1>2. CASE d.work # <<>>
  BY <1>2, HeadHonest, AddJobHonest DEF Enqueued
<1> QED
  BY <1>1, <1>2

\* A step that starts intents while no job ends.
LEMMA RecordTrueDispatch ==
  ASSUME TypeOK, RecordTrue, NEW st, NEW d, IsDispatch(d), IsFaithful(d, st),
         \A t \in Tokens : st[t] = "pinned" => status[t] = "pinned",
         NEW fs \in SUBSET fetches, Dispatched(d, fs), Enqueued(d),
         UNCHANGED <<recorded, resetNews, cli>>,
         Calm \/ (\E kind : Upset(kind))
  PROVE  RecordTrue'
<1> SUFFICES ASSUME Undisturbed' PROVE RecordTrue'
  BY DEF RecordTrue
<1>1. /\ ~resetNews /\ cli.step = "never" /\ cli.left = {}
      /\ \A f \in fetches : f.live
      /\ \A t \in Tokens : status[t] = "pinned" => IsRecorded(t, recorded)
      /\ HonestLine(job.what, jobs, recorded)
  BY StaysUndisturbed DEF RecordTrue
<1>2. HonestLine(job'.what, jobs', recorded)
  BY <1>1, EnqueuedHonest
<1>3. \A f \in fetches' : f.live
  BY <1>1 DEF Dispatched, IsFaithful
<1>4. \A t \in Tokens : status'[t] = "pinned" => IsRecorded(t, recorded)
  BY <1>1 DEF Dispatched, IsFaithful
<1> QED
  BY <1>1, <1>2, <1>3, <1>4 DEF RecordTrue, IsRecorded

\* A step that starts nothing.
LEMMA RecordTrueSame ==
  ASSUME RecordTrue, UNCHANGED <<recorded, resetNews, cli, fetches, status>>,
         job'.what = job.what \/ job' = NoJob, jobs' = jobs,
         Calm \/ (\E kind : Upset(kind))
  PROVE  RecordTrue'
<1> SUFFICES ASSUME Undisturbed' PROVE RecordTrue'
  BY DEF RecordTrue
<1>1. /\ ~resetNews /\ cli.step = "never" /\ cli.left = {}
      /\ \A f \in fetches : f.live
      /\ \A t \in Tokens : status[t] = "pinned" => IsRecorded(t, recorded)
      /\ HonestLine(job.what, jobs, recorded)
  BY StaysUndisturbed DEF RecordTrue
<1>2. HonestLine(job'.what, jobs', recorded)
  BY <1>1, NothingIsHonest DEF HonestLine, NoJob
<1> QED
  BY <1>1, <1>2 DEF RecordTrue, IsRecorded

\* A step of the queue of jobs with nothing else.
LEMMA RecordTrueLine ==
  ASSUME RecordTrue, UNCHANGED <<recorded, resetNews, cli, fetches, status>>,
         Undisturbed => HonestLine(job'.what, jobs', recorded),
         Calm \/ (\E kind : Upset(kind))
  PROVE  RecordTrue'
<1> SUFFICES ASSUME Undisturbed' PROVE RecordTrue'
  BY DEF RecordTrue
<1>1. Undisturbed
  BY StaysUndisturbed
<1> QED
  BY <1>1 DEF RecordTrue, IsRecorded

LEMMA UserChangesRecords ==
  ASSUME TypeOK, IntentAwaited, RecordTrue, NEW t \in Tokens, UserChanges(t)
  PROVE  RecordTrue'
<1>1. UNCHANGED <<recorded, resetNews, cli, fetches, status, job, jobs>>
  BY DEF UserChanges, pinJobVars, autoPinVars
<1>2. Calm \/ (\E kind : Upset(kind))
  BY DEF UserChanges
<1> QED
  BY <1>1, <1>2, RecordTrueSame

LEMMA TokenNewsArrivesRecords ==
  ASSUME TypeOK, IntentAwaited, RecordTrue, TokenNewsArrives
  PROVE  RecordTrue'
<1> DEFINE t == Head(news).token
           added == Head(news).added
           toks == IF added THEN tokens \cup {t} ELSE tokens \ {t}
           i == [op |-> IF added THEN "add" ELSE "delete", token |-> t]
           q == Without(t, queue)
           d == AddOrExecute(i, current, q, status, toks)
<1>1. UNCHANGED <<recorded, resetNews, cli>> /\ Calm
  BY DEF TokenNewsArrives
<1>2. CASE ~enabled
  <2>1. UNCHANGED <<fetches, status, job, jobs>>
    BY <1>2 DEF TokenNewsArrives
  <2> QED
    BY <1>1, <2>1, RecordTrueSame
<1>3. CASE enabled
  <2>1. news \in Seq([added: BOOLEAN, token: Tokens]) /\ news # <<>>
    BY DEF TypeOK, TokenNewsArrives
  <2>2. Head(news) \in [added: BOOLEAN, token: Tokens]
    BY <2>1, HeadTailProperties
  <2>3. i \in Intents
    BY <2>2 DEF Intents
  <2>4. queue \in Seq(Intents) /\ current \in Intents \cup {NoIntent}
        /\ status \in [Tokens -> Statuses]
    BY DEF TypeOK
  <2>5. q \in Seq(Intents)
    BY <2>4, WithoutEffect
  <2>6. Dispatched(d, fetches) /\ Enqueued(d)
    BY <1>3 DEF TokenNewsArrives
  <2> HIDE DEF t, added, toks, i, q
  <2>7. IsDispatch(d) /\ IsFaithful(d, status)
    BY <2>3, <2>4, <2>5, AddOrExecuteType, AddOrExecuteFaithful
  <2> HIDE DEF d
  <2> QED
    BY <1>1, <2>6, <2>7, RecordTrueDispatch
<1> QED
  BY <1>2, <1>3

LEMMA RetryFiresRecords ==
  ASSUME TypeOK, IntentAwaited, RecordTrue, NEW i \in Intents, RetryFires(i)
  PROVE  RecordTrue'
<1> DEFINE d == AddOrExecute(i, current, queue, status, tokens)
<1>1. queue \in Seq(Intents) /\ current \in Intents \cup {NoIntent}
      /\ status \in [Tokens -> Statuses]
  BY DEF TypeOK
<1>2. IsDispatch(d) /\ IsFaithful(d, status)
  BY <1>1, AddOrExecuteType, AddOrExecuteFaithful
<1>3. /\ Dispatched(d, fetches) /\ Enqueued(d)
      /\ UNCHANGED <<recorded, resetNews, cli>> /\ Calm
  BY DEF RetryFires
<1> HIDE DEF d
<1> QED
  BY <1>2, <1>3, RecordTrueDispatch

LEMMA SwitchOnRecords ==
  ASSUME TypeOK, IntentAwaited, RecordTrue, SwitchOn
  PROVE  RecordTrue'
<1>1. PICK d \in Restored(status) : Dispatched(d, fetches) /\ Enqueued(d)
  BY DEF SwitchOn
<1>2. UNCHANGED <<recorded, resetNews, cli>> /\ Calm
  BY DEF SwitchOn
<1>3. IsDispatch(d) /\ IsFaithful(d, status)
  BY RestoredType, RestoredFaithful DEF TypeOK
<1> QED
  BY <1>1, <1>2, <1>3, RecordTrueDispatch

LEMMA SwitchOffRecords ==
  ASSUME TypeOK, IntentAwaited, RecordTrue, SwitchOff
  PROVE  RecordTrue'
<1>1. "off" \in met'
  BY DEF SwitchOff, Upset
<1> QED
  BY <1>1 DEF RecordTrue, Undisturbed

LEMMA MetadataArrivesRecords ==
  ASSUME TypeOK, IntentAwaited, RecordTrue, NEW f \in Fetches, MetadataArrives(f)
  PROVE  RecordTrue'
<1> SUFFICES ASSUME Undisturbed' PROVE RecordTrue'
  BY DEF RecordTrue
<1> DEFINE w == [kind |-> "add", token |-> f.token, live |-> f.live]
<1>1. /\ f \in fetches /\ fetches' = fetches \ {f}
      /\ status' = [status EXCEPT ![f.token] = "pinning"]
      /\ AddJob(w) /\ UNCHANGED <<recorded, resetNews, cli>> /\ Calm
  BY DEF MetadataArrives
<1>2. /\ ~resetNews /\ cli.step = "never" /\ cli.left = {}
      /\ \A g \in fetches : g.live
      /\ \A t \in Tokens : status[t] = "pinned" => IsRecorded(t, recorded)
      /\ HonestLine(job.what, jobs, recorded)
  BY <1>1, StaysUndisturbed DEF RecordTrue
<1>3. w \in Work /\ IsHonest(w, recorded)
  BY <1>1, <1>2 DEF Fetches, Work, IsHonest
<1> HIDE DEF w
<1>4. HonestLine(job'.what, jobs', recorded)
  BY <1>1, <1>2, <1>3, AddJobHonest
<1>5. \A t \in Tokens : status'[t] = "pinned" => status[t] = "pinned"
  BY <1>1 DEF Fetches, TypeOK
<1> QED
  BY <1>1, <1>2, <1>4, <1>5 DEF RecordTrue, IsRecorded

LEMMA MetadataFailsRecords ==
  ASSUME TypeOK, IntentAwaited, RecordTrue, NEW f \in Fetches, NEW why \in {"failed", "refused"}, MetadataFails(f, why)
  PROVE  RecordTrue'
<1> DEFINE st == [status EXCEPT ![f.token] = why]
           d == CheckQueue(NoIntent, queue, st)
<1>1. queue \in Seq(Intents) /\ status \in [Tokens -> Statuses]
      /\ NoIntent \in Intents \cup {NoIntent}
  BY DEF TypeOK
<1>2. /\ st \in [Tokens -> Statuses]
      /\ \A t \in Tokens : st[t] = "pinned" => status[t] = "pinned"
  BY <1>1 DEF Fetches, Statuses
<1>3. /\ UNCHANGED <<recorded, resetNews, cli>>
      /\ \E kind : Upset(kind)
      /\ IF f.live
         THEN Dispatched(d, fetches \ {f}) /\ Enqueued(d)
         ELSE status' = st /\ fetches' = fetches \ {f} /\ UNCHANGED <<job, jobs>>
  BY DEF MetadataFails
<1> HIDE DEF st
<1>4. IsDispatch(d) /\ IsFaithful(d, st)
  BY <1>1, <1>2, CheckQueueType, CheckQueueFaithful
<1> HIDE DEF d
<1>5. CASE f.live
  BY <1>2, <1>3, <1>4, <1>5, RecordTrueDispatch
<1>6. CASE ~f.live
  <2> SUFFICES ASSUME Undisturbed' PROVE RecordTrue'
    BY DEF RecordTrue
  <2>1. Undisturbed
    BY <1>3, StaysUndisturbed
  <2> QED
    BY <1>2, <1>3, <1>6, <2>1 DEF RecordTrue, IsRecorded
<1> QED
  BY <1>5, <1>6

LEMMA NodeAnswersRecords ==
  ASSUME TypeOK, IntentAwaited, RecordTrue, NEW r \in Requests, NodeAnswers(r)
  PROVE  RecordTrue'
<1>1. job \in Running
  BY DEF NodeAnswers, Returning, NoJob, TypeOK, PinJobTypeOK
<1>2. /\ UNCHANGED <<recorded, resetNews, cli, fetches, status, jobs>>
      /\ job'.what = job.what
  BY <1>1 DEF NodeAnswers, autoPinVars, Running
<1>3. Calm \/ (\E kind : Upset(kind))
  BY DEF NodeAnswers
<1> QED
  BY <1>2, <1>3, RecordTrueSame

LEMMA NodeFailsRecords ==
  ASSUME TypeOK, IntentAwaited, RecordTrue, NEW r \in Requests, NodeFails(r)
  PROVE  RecordTrue'
<1>1. job \in Running
  BY DEF NodeFails, Returning, NoJob, TypeOK, PinJobTypeOK
<1>2. /\ UNCHANGED <<recorded, resetNews, cli, fetches, status, jobs>>
      /\ job'.what = job.what
  BY <1>1 DEF NodeFails, autoPinVars, Running
<1>3. Calm \/ (\E kind : Upset(kind))
  BY DEF NodeFails
<1> QED
  BY <1>2, <1>3, RecordTrueSame

LEMMA GcSweepsRecords ==
  ASSUME TypeOK, IntentAwaited, RecordTrue, GcSweeps
  PROVE  RecordTrue'
<1>1. job \in Running
  BY DEF GcSweeps, Returning, NoJob, TypeOK, PinJobTypeOK
<1>2. /\ UNCHANGED <<recorded, resetNews, cli, fetches, status, jobs>>
      /\ job'.what = job.what
  BY <1>1 DEF GcSweeps, autoPinVars, Running
<1>3. Calm \/ (\E kind : Upset(kind))
  BY DEF GcSweeps
<1> QED
  BY <1>2, <1>3, RecordTrueSame

LEMMA JobFinishesRecords ==
  ASSUME TypeOK, IntentAwaited, RecordTrue, JobFinishes
  PROVE  RecordTrue'
<1> SUFFICES ASSUME Undisturbed' PROVE RecordTrue'
  BY DEF RecordTrue
<1> DEFINE w == job.what
           st == CASE w.kind = "add" ->
                      [status EXCEPT ![w.token] =
                         IF job.ok THEN "pinned" ELSE "failed"]
                 [] w.kind = "remove" -> [status EXCEPT ![w.token] = "none"]
                 [] w.kind = "verify" ->
                      [status EXCEPT ![w.token] =
                         IF job.ok THEN "pinned" ELSE "pinning"]
                 [] w.kind = "gc" -> status
           i == [op |-> "add", token |-> w.token]
           d == IF ~w.live
               THEN [current |-> current, queue |-> queue, status |-> st,
                     fetch |-> {}, work |-> <<>>]
               ELSE IF w.kind = "verify" /\ ~job.ok
               THEN AddOrExecute(i, NoIntent, queue, st, tokens)
               ELSE CheckQueue(NoIntent, queue, st)
           rec == RecordAfter(w, job.ok)
<1>1. /\ Dispatched(d, fetches)
      /\ DoNextJob(jobs \o d.work, ready)
      /\ recorded' = rec
      /\ UNCHANGED <<resetNews, cli>> /\ Calm
  BY DEF JobFinishes
<1>2. /\ ~resetNews /\ cli.step = "never" /\ cli.left = {}
      /\ \A f \in fetches : f.live
      /\ \A t \in Tokens : status[t] = "pinned" => IsRecorded(t, recorded)
      /\ HonestLine(w, jobs, recorded)
  BY <1>1, StaysUndisturbed DEF RecordTrue
<1>3. w \in Work \cup {GcJob} /\ job.ok \in BOOLEAN
  BY DEF JobFinishes, Returning, TypeOK, PinJobTypeOK, Running
<1>4. /\ jobs \in Seq(Work \cup {GcJob}) /\ queue \in Seq(Intents)
      /\ status \in [Tokens -> Statuses] /\ tokens \subseteq Tokens
      /\ recorded \in [Pins -> SUBSET Tokens]
  BY DEF TypeOK, PinJobTypeOK
<1>5. AwaitedInLine(current, w, jobs)
  BY DEF IntentAwaited, AwaitedOnce
<1>6. w \in Work \/ w = GcJob
  BY <1>3
<1>7. w \in Work => /\ w.kind \in {"add", "remove", "verify"}
                    /\ w.token \in Tokens /\ w.live
  BY <1>2 DEF Work, HonestLine, IsHonest
<1>8. w = GcJob => w.kind = "gc" /\ ~w.live
  BY DEF GcJob
<1>9. PinsOf \in [Tokens -> SUBSET Pins]
  BY PinJobsAssumption
<1> HIDE DEF w
<1>10. st \in [Tokens -> Statuses]
  BY <1>4, <1>6, <1>7, <1>8 DEF Statuses
<1>11. ASSUME NEW t \in Tokens, IsRecorded(t, recorded),
              w \in Work /\ w.kind = "remove" => t # w.token
       PROVE  IsRecorded(t, rec)
  BY <1>4, <1>6, <1>7, <1>8, <1>9, <1>11 DEF RecordAfter, IsRecorded
<1>12. ASSUME NEW t \in Tokens, st[t] = "pinned"
       PROVE  IsRecorded(t, rec)
  <2>1. CASE w = GcJob
    BY <1>2, <1>8, <1>11, <1>12, <2>1
  <2>2. CASE w \in Work /\ w.kind = "add"
    <3>1. CASE t = w.token
      <4>1. job.ok
        BY <1>4, <1>12, <2>2, <3>1
      <4> QED
        BY <1>4, <1>9, <2>2, <3>1, <4>1 DEF RecordAfter, IsRecorded
    <3>2. CASE t # w.token
      BY <1>2, <1>4, <1>7, <1>11, <1>12, <2>2, <3>2
    <3> QED
      BY <3>1, <3>2
  <2>3. CASE w \in Work /\ w.kind = "remove"
    BY <1>2, <1>4, <1>7, <1>11, <1>12, <2>3
  <2>4. CASE w \in Work /\ w.kind = "verify"
    <3>1. CASE t = w.token
      BY <1>2, <1>11, <2>4, <3>1 DEF HonestLine, IsHonest
    <3>2. CASE t # w.token
      BY <1>2, <1>4, <1>7, <1>11, <1>12, <2>4, <3>2
    <3> QED
      BY <3>1, <3>2
  <2> QED
    BY <1>6, <1>7, <2>1, <2>2, <2>3, <2>4
<1>13. ASSUME NEW k \in DOMAIN jobs
       PROVE  IsHonest(jobs[k], rec)
  <2>1. jobs[k] \in Work \cup {GcJob}
    BY <1>4, ElementOfSeq, LenProperties
  <2>2. CASE jobs[k] = GcJob
    BY <2>2, NothingIsHonest
  <2>3. CASE jobs[k] \in Work
    <3>1. IsHonest(jobs[k], recorded)
      BY <1>2 DEF HonestLine
    <3>2. jobs[k].live
      BY <2>3, <3>1 DEF IsHonest
    <3>3. w = GcJob
      BY <1>5, <1>6, <1>7, <3>2 DEF AwaitedInLine
    <3>4. rec = recorded
      BY <1>8, <3>3 DEF RecordAfter
    <3> QED
      BY <3>1, <3>4
  <2> QED
    BY <2>1, <2>2, <2>3
<1>14. IsDispatch(d) /\ IsFaithful(d, st)
  <2> HIDE DEF st
  <2>1. CASE w = GcJob
    <3> DEFINE e == [current |-> current, queue |-> queue, status |-> st,
                     fetch |-> {}, work |-> <<>>]
    <3>1. d = e
      BY <1>8, <2>1
    <3>2. IsDispatch(e) /\ IsFaithful(e, st)
      BY <1>4, <1>10, EmptySeq DEF IsDispatch, IsFaithful, TypeOK
    <3> HIDE DEF d, e
    <3> QED
      BY <3>1, <3>2
  <2>2. CASE w \in Work
    <3>1. w.live /\ NoIntent \in Intents \cup {NoIntent}
      BY <1>7, <2>2
    <3>2. i \in Intents
      BY <1>7, <2>2 DEF Intents
    <3> HIDE DEF i
    <3>3. /\ IsDispatch(AddOrExecute(i, NoIntent, queue, st, tokens))
          /\ IsFaithful(AddOrExecute(i, NoIntent, queue, st, tokens), st)
      BY <1>4, <1>10, <3>1, <3>2, AddOrExecuteType, AddOrExecuteFaithful
    <3>4. /\ IsDispatch(CheckQueue(NoIntent, queue, st))
          /\ IsFaithful(CheckQueue(NoIntent, queue, st), st)
      BY <1>4, <1>10, <3>1, CheckQueueType, CheckQueueFaithful
    <3> QED
      BY <3>1, <3>3, <3>4
  <2> QED
    BY <1>6, <2>1, <2>2
<1> HIDE DEF st, d, rec
<1>15. /\ jobs \o d.work \in Seq(Work \cup {GcJob})
       /\ \A k \in DOMAIN (jobs \o d.work) : IsHonest((jobs \o d.work)[k], rec)
  <2>1. CASE d.work = <<>>
    <3>1. jobs \o d.work = jobs
      BY <1>4, <2>1, ConcatEmptySeq
    <3> QED
      BY <1>4, <1>13, <3>1
  <2>2. CASE d.work # <<>>
    <3>1. Head(d.work) \in Work /\ IsHonest(Head(d.work), rec)
      BY <1>12, <1>14, <2>2, HeadHonest
    <3>2. d.work \in Seq(Work) /\ Len(d.work) = 1 /\ Head(d.work) = d.work[1]
      BY <1>14, <2>2, HeadTailProperties DEF IsFaithful, IsDispatch
    <3>3. d.work \in Seq(Work \cup {GcJob})
      BY <3>2, SeqMonotonic
    <3>4. /\ jobs \o d.work \in Seq(Work \cup {GcJob})
          /\ Len(jobs \o d.work) = Len(jobs) + Len(d.work)
          /\ \A k \in 1 .. Len(jobs) : (jobs \o d.work)[k] = jobs[k]
          /\ \A k \in 1 .. Len(d.work) :
               (jobs \o d.work)[Len(jobs) + k] = d.work[k]
      BY <1>4, <3>3, ConcatProperties
    <3>5. /\ Len(jobs) \in Nat /\ DOMAIN jobs = 1 .. Len(jobs)
          /\ DOMAIN (jobs \o d.work) = 1 .. Len(jobs) + 1
      BY <1>4, <3>2, <3>4, LenProperties
    <3>6. (jobs \o d.work)[Len(jobs) + 1] = Head(d.work)
      BY <3>2, <3>4
    <3> DEFINE new == jobs \o d.work
    <3> HIDE DEF new
    <3>7. \A k \in DOMAIN new : k \in DOMAIN jobs \/ k = Len(jobs) + 1
      BY <3>5 DEF new
    <3>8. \A k \in DOMAIN new : IsHonest(new[k], rec)
      BY <1>13, <3>1, <3>4, <3>5, <3>6, <3>7 DEF new
    <3> QED
      BY <3>4, <3>8 DEF new
  <2> QED
    BY <2>1, <2>2
<1>16. HonestLine(job'.what, jobs', rec)
  BY <1>1, <1>15, DoNextJobHonest
<1>17. \A f \in fetches' : f.live
  BY <1>1, <1>2, <1>14 DEF Dispatched, IsFaithful
<1>18. \A t \in Tokens : status'[t] = "pinned" => IsRecorded(t, rec)
  BY <1>1, <1>12, <1>14 DEF Dispatched, IsFaithful
<1> QED
  BY <1>1, <1>2, <1>16, <1>17, <1>18 DEF RecordTrue, IsRecorded

LEMMA GcTimerFiresRecords ==
  ASSUME TypeOK, IntentAwaited, RecordTrue, GcTimerFires
  PROVE  RecordTrue'
<1>1. UNCHANGED <<recorded, resetNews, cli, fetches, status>> /\ Calm
  BY DEF GcTimerFires, autoPinVars
<1>2. AddJob(GcJob) \/ UNCHANGED <<job, jobs>>
  BY DEF GcTimerFires
<1>3. Undisturbed => HonestLine(job.what, jobs, recorded)
  BY DEF RecordTrue
<1>4. Undisturbed => HonestLine(job'.what, jobs', recorded)
  BY <1>2, <1>3, AddJobHonest, NothingIsHonest
<1> QED
  BY <1>1, <1>4, RecordTrueLine

LEMMA NodeLaunchesRecords ==
  ASSUME TypeOK, IntentAwaited, RecordTrue, NodeLaunches
  PROVE  RecordTrue'
<1>1. UNCHANGED <<recorded, resetNews, cli, fetches, status, job, jobs>>
  BY DEF NodeLaunches, pinJobVars, autoPinVars
<1>2. Calm \/ (\E kind : Upset(kind))
  BY DEF NodeLaunches
<1> QED
  BY <1>1, <1>2, RecordTrueSame

LEMMA NodeFailsToLaunchRecords ==
  ASSUME TypeOK, IntentAwaited, RecordTrue, NodeFailsToLaunch
  PROVE  RecordTrue'
<1>1. UNCHANGED <<recorded, resetNews, cli, fetches, status, job, jobs>>
  BY DEF NodeFailsToLaunch, pinJobVars, autoPinVars
<1>2. Calm \/ (\E kind : Upset(kind))
  BY DEF NodeFailsToLaunch
<1> QED
  BY <1>1, <1>2, RecordTrueSame

LEMMA OnExecutableReadyRecords ==
  ASSUME TypeOK, IntentAwaited, RecordTrue, OnExecutableReady
  PROVE  RecordTrue'
<1>1. UNCHANGED <<recorded, resetNews, cli, fetches, status, job, jobs>>
  BY DEF OnExecutableReady, pinJobVars, autoPinVars
<1>2. Calm \/ (\E kind : Upset(kind))
  BY DEF OnExecutableReady
<1> QED
  BY <1>1, <1>2, RecordTrueSame

LEMMA OthersLaunchRecords ==
  ASSUME TypeOK, IntentAwaited, RecordTrue, OthersLaunch
  PROVE  RecordTrue'
<1>1. UNCHANGED <<recorded, resetNews, cli, fetches, status, job, jobs>>
  BY DEF OthersLaunch, pinJobVars, autoPinVars
<1>2. Calm \/ (\E kind : Upset(kind))
  BY DEF OthersLaunch
<1> QED
  BY <1>1, <1>2, RecordTrueSame

LEMMA UserStopsNodeRecords ==
  ASSUME TypeOK, IntentAwaited, RecordTrue, UserStopsNode
  PROVE  RecordTrue'
<1>1. UNCHANGED <<recorded, resetNews, cli, fetches, status, jobs>> /\ job' = NoJob
  BY DEF UserStopsNode, OnIpfsShutdown, autoPinVars
<1>2. Calm \/ (\E kind : Upset(kind))
  BY DEF UserStopsNode
<1> QED
  BY <1>1, <1>2, RecordTrueSame

LEMMA RestartDaemonRecords ==
  ASSUME TypeOK, IntentAwaited, RecordTrue, RestartDaemon
  PROVE  RecordTrue'
<1>1. UNCHANGED <<recorded, resetNews, cli, fetches, status, jobs>> /\ job' = NoJob
  BY DEF RestartDaemon, OnIpfsShutdown, autoPinVars
<1>2. Calm \/ (\E kind : Upset(kind))
  BY DEF RestartDaemon
<1> QED
  BY <1>1, <1>2, RecordTrueSame

LEMMA NodeCrashesRecords ==
  ASSUME TypeOK, IntentAwaited, RecordTrue, NodeCrashes
  PROVE  RecordTrue'
<1>1. UNCHANGED <<recorded, resetNews, cli, fetches, status, job, jobs>>
  BY DEF NodeCrashes, pinJobVars, autoPinVars
<1>2. Calm \/ (\E kind : Upset(kind))
  BY DEF NodeCrashes
<1> QED
  BY <1>1, <1>2, RecordTrueSame

LEMMA PollTimerRecords ==
  ASSUME TypeOK, IntentAwaited, RecordTrue, PollTimer
  PROVE  RecordTrue'
<1>1. UNCHANGED <<recorded, resetNews, cli, fetches, status, job, jobs>> /\ Calm
  BY DEF PollTimer, PollTimerFires, autoPinVars, Calm
<1> QED
  BY <1>1, RecordTrueSame

LEMMA PeersAnswerRecords ==
  ASSUME TypeOK, IntentAwaited, RecordTrue, NEW success \in BOOLEAN, PeersAnswer(success)
  PROVE  RecordTrue'
<1>1. UNCHANGED <<recorded, resetNews, cli, fetches, status>>
  BY DEF PeersAnswer, OnGetConnectedPeersResult, autoPinVars
<1>2. Calm \/ (\E kind : Upset(kind))
  BY DEF PeersAnswer
<1>3. DoNextJob(jobs, TRUE) \/ UNCHANGED <<job, jobs>>
  BY DEF PeersAnswer, OnGetConnectedPeersResult
<1>4. jobs \in Seq(Work \cup {GcJob})
  BY DEF TypeOK, PinJobTypeOK
<1>5. Undisturbed => HonestLine(job.what, jobs, recorded)
  BY DEF RecordTrue
<1>6. Undisturbed => HonestLine(job'.what, jobs', recorded)
  BY <1>3, <1>4, <1>5, DoNextJobHonest DEF HonestLine
<1> QED
  BY <1>1, <1>2, <1>6, RecordTrueLine

LEMMA UserResetsWalletRecords ==
  ASSUME TypeOK, IntentAwaited, RecordTrue, UserResetsWallet
  PROVE  RecordTrue'
<1>1. "reset" \in met'
  BY DEF UserResetsWallet, Upset
<1> QED
  BY <1>1 DEF RecordTrue, Undisturbed

LEMMA ResetNewsArrivesRecords ==
  ASSUME TypeOK, IntentAwaited, RecordTrue, ResetNewsArrives
  PROVE  RecordTrue'
<1>1. resetNews /\ (Calm \/ (\E kind : Upset(kind)))
  BY DEF ResetNewsArrives
<1> QED
  BY <1>1, StaysUndisturbed DEF RecordTrue

LEMMA CliListsRecords ==
  ASSUME TypeOK, IntentAwaited, RecordTrue, CliLists
  PROVE  RecordTrue'
<1>1. cli.step # "never" /\ (Calm \/ (\E kind : Upset(kind)))
  BY DEF CliLists
<1> QED
  BY <1>1, StaysUndisturbed DEF RecordTrue

LEMMA CliRemovesRecords ==
  ASSUME TypeOK, IntentAwaited, RecordTrue, NEW c \in Cids, CliRemoves(c)
  PROVE  RecordTrue'
<1>1. cli.left # {}
  BY DEF CliRemoves
<1>2. Calm
  BY DEF CliRemoves
<1> QED
  BY <1>1, <1>2, StaysUndisturbed DEF RecordTrue

LEMMA CliFailsRecords ==
  ASSUME TypeOK, IntentAwaited, RecordTrue, CliFails
  PROVE  RecordTrue'
<1>1. cli.step # "never" /\ (Calm \/ (\E kind : Upset(kind)))
  BY DEF CliFails
<1> QED
  BY <1>1, StaysUndisturbed DEF RecordTrue

LEMMA BrowserRestartsRecords ==
  ASSUME TypeOK, IntentAwaited, RecordTrue, BrowserRestarts
  PROVE  RecordTrue'
<1> SUFFICES ASSUME Undisturbed' PROVE RecordTrue'
  BY DEF RecordTrue
<1>1. Undisturbed
  <2>1. Upset("restart")
    BY DEF BrowserRestarts
  <2> QED
    BY <2>1, StaysUndisturbed
<1>2. \A t \in Tokens : status[t] = "pinned" => IsRecorded(t, recorded)
  BY <1>1 DEF RecordTrue
<1>3. /\ cli'.step = "never" /\ cli'.left = {} /\ ~resetNews' /\ job' = NoJob
      /\ recorded' = recorded
  BY <1>1 DEF BrowserRestarts, RecordTrue, TypeOK, PinJobTypeOK
<1>4. \E d : /\ Dispatched(d, {}) /\ jobs' = d.work
             /\ IsDispatch(d) /\ IsFaithful(d, status)
  <2>1. PICK d \in IF enabled THEN Restored(status)
                   ELSE {CheckQueue(NoIntent, <<>>, status)} :
          Dispatched(d, {}) /\ jobs' = d.work
    BY DEF BrowserRestarts
  <2>2. status \in [Tokens -> Statuses] /\ wallet \subseteq Tokens
    BY DEF TypeOK
  <2>3. IsDispatch(d) /\ IsFaithful(d, status)
    <3>1. CASE enabled
      BY <2>1, <2>2, <3>1, RestoredType, RestoredFaithful
    <3>2. CASE ~enabled
      <4>1. d = CheckQueue(NoIntent, <<>>, status)
        BY <2>1, <3>2
      <4>2. <<>> \in Seq(Intents) /\ NoIntent \in Intents \cup {NoIntent}
        BY EmptySeq
      <4> QED
        BY <2>2, <4>1, <4>2, CheckQueueType, CheckQueueFaithful
    <3> QED
      BY <3>1, <3>2
  <2> QED
    BY <2>1, <2>3
<1>5. PICK d : /\ Dispatched(d, {}) /\ jobs' = d.work
               /\ IsDispatch(d) /\ IsFaithful(d, status)
  BY <1>4
<1>6. \A k \in DOMAIN jobs' : IsHonest(jobs'[k], recorded)
  <2>1. CASE d.work = <<>>
    BY <1>5, <2>1
  <2>2. CASE d.work # <<>>
    <3>1. IsHonest(Head(d.work), recorded)
      BY <1>2, <1>5, <2>2, HeadHonest
    <3>2. DOMAIN d.work = 1 .. 1 /\ Head(d.work) = d.work[1]
      BY <1>5, <2>2, HeadTailProperties, LenProperties DEF IsFaithful, IsDispatch
    <3>3. \A k \in 1 .. 1 : k = 1
      OBVIOUS
    <3> QED
      BY <1>5, <3>1, <3>2, <3>3
  <2> QED
    BY <2>1, <2>2
<1>7. HonestLine(job'.what, jobs', recorded)
  BY <1>3, <1>6, NothingIsHonest DEF HonestLine, NoJob
<1>8. /\ \A f \in fetches' : f.live
      /\ \A t \in Tokens : status'[t] = "pinned" => status[t] = "pinned"
  BY <1>5 DEF Dispatched, IsFaithful
<1> QED
  BY <1>2, <1>3, <1>7, <1>8 DEF RecordTrue, IsRecorded

LEMMA NextRecords ==
  ASSUME TypeOK, IntentAwaited, RecordTrue, Next
  PROVE  RecordTrue'
<1>1. CASE \E t \in Tokens : UserChanges(t)
  BY <1>1, UserChangesRecords
<1>2. CASE TokenNewsArrives
  BY <1>2, TokenNewsArrivesRecords
<1>3. CASE \E i \in Intents : RetryFires(i)
  BY <1>3, RetryFiresRecords
<1>4. CASE SwitchOn
  BY <1>4, SwitchOnRecords
<1>5. CASE SwitchOff
  BY <1>5, SwitchOffRecords
<1>6. CASE \E f \in Fetches : MetadataArrives(f)
  BY <1>6, MetadataArrivesRecords
<1>7. CASE \E f \in Fetches, why \in {"failed", "refused"} : MetadataFails(f, why)
  BY <1>7, MetadataFailsRecords
<1>8. CASE \E r \in Requests : NodeAnswers(r)
  BY <1>8, NodeAnswersRecords
<1>9. CASE \E r \in Requests : NodeFails(r)
  BY <1>9, NodeFailsRecords
<1>10. CASE GcSweeps
  BY <1>10, GcSweepsRecords
<1>11. CASE JobFinishes
  BY <1>11, JobFinishesRecords
<1>12. CASE GcTimerFires
  BY <1>12, GcTimerFiresRecords
<1>13. CASE NodeLaunches
  BY <1>13, NodeLaunchesRecords
<1>14. CASE NodeFailsToLaunch
  BY <1>14, NodeFailsToLaunchRecords
<1>15. CASE OnExecutableReady
  BY <1>15, OnExecutableReadyRecords
<1>16. CASE OthersLaunch
  BY <1>16, OthersLaunchRecords
<1>17. CASE UserStopsNode
  BY <1>17, UserStopsNodeRecords
<1>18. CASE RestartDaemon
  BY <1>18, RestartDaemonRecords
<1>19. CASE NodeCrashes
  BY <1>19, NodeCrashesRecords
<1>20. CASE PollTimer
  BY <1>20, PollTimerRecords
<1>21. CASE \E success \in BOOLEAN : PeersAnswer(success)
  BY <1>21, PeersAnswerRecords
<1>22. CASE UserResetsWallet
  BY <1>22, UserResetsWalletRecords
<1>23. CASE ResetNewsArrives
  BY <1>23, ResetNewsArrivesRecords
<1>24. CASE CliLists
  BY <1>24, CliListsRecords
<1>25. CASE \E c \in Cids : CliRemoves(c)
  BY <1>25, CliRemovesRecords
<1>26. CASE CliFails
  BY <1>26, CliFailsRecords
<1>27. CASE BrowserRestarts
  BY <1>27, BrowserRestartsRecords
<1> QED
  BY <1>1, <1>2, <1>3, <1>4, <1>5, <1>6, <1>7, <1>8, <1>9, <1>10, <1>11,
     <1>12, <1>13, <1>14, <1>15, <1>16, <1>17, <1>18, <1>19, <1>20, <1>21,
     <1>22, <1>23, <1>24, <1>25, <1>26, <1>27
     DEF Next

LEMMA RecordTrueInit == Init => RecordTrue
BY NothingIsHonest
DEF Init, DaemonInit, PinJobInit, RecordTrue, HonestLine, NoJob, IsRecorded

LEMMA AlwaysRecordTrue == Spec => []RecordTrue
<1>1. Init => RecordTrue
  BY RecordTrueInit
<1>2. TypeOK /\ IntentAwaited /\ RecordTrue /\ [Next]_vars => RecordTrue'
  <2>1. CASE UNCHANGED vars
    BY <2>1, RecordTrueSame
    DEF vars, pinJobVars, autoPinVars, Calm
  <2>2. CASE Next
    BY <2>2, NextRecords
  <2> QED
    BY <2>1, <2>2
<1> QED
  BY <1>1, <1>2, AlwaysAwaited, PTL DEF Spec

\* Unless automatic pinning is switched off or the wallet reset, a token shown
\* as pinned is recorded for every one of its pins, whatever fails, is lost,
\* removed, validated or restarted.
THEOREM PinnedRecorded == Spec => []PinnedIsRecorded
<1>1. RecordTrue => PinnedIsRecorded
  BY DEF RecordTrue, PinnedIsRecorded, Undisturbed, IsRecorded
<1> QED
  BY <1>1, AlwaysRecordTrue, PTL

=============================================================================
