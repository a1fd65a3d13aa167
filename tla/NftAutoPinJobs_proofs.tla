----------------------- MODULE NftAutoPinJobs_proofs -----------------------
(***************************************************************************)
(* What NftAutoPin promises of the two queues and of the record of pins,   *)
(* for every finite set of tokens, whatever goes wrong however often.      *)
(***************************************************************************)
EXTENDS NftAutoPin_proofs

-----------------------------------------------------------------------------
(* The record of pins: the argument of RecordedIsPresent *)

\* While no client removes all pins: what is recorded is there, an "add" that
\* has gone well so far has pinned what the node answered for, and what is being
\* swept is recorded for no token.
RecordSafe ==
  cli.step = "never" =>
    /\ \A p \in Pins : recorded[p] # {} => p \in present
    /\ job.what.kind = "add" /\ job.ok =>
         \A p \in PinsOf[job.what.token] : p[2] \notin job.wait => p \in present
    /\ \A p \in Pins : recorded[p] # {} => p[1] \notin job.sweep

\* No job, or one that begins.
Begins ==
  \/ job' = NoJob
  \/ \E w \in Work \cup {GcJob} : job' = Started(w)

LEMMA DoNextJobBegins ==
  ASSUME NEW js \in Seq(Work \cup {GcJob}), NEW isReady,
         DoNextJob(js, isReady)
  PROVE  Begins
<1>1. js # <<>> => Head(js) \in Work \cup {GcJob}
  BY HeadTailProperties
<1> QED
  BY <1>1 DEF DoNextJob, Begins

LEMMA AddJobBegins ==
  ASSUME TypeOK, NEW w \in Work \cup {GcJob}, AddJob(w)
  PROVE  job' = job \/ Begins
<1>1. Append(jobs, w) \in Seq(Work \cup {GcJob})
  BY AppendProperties DEF TypeOK, PinJobTypeOK
<1> QED
  BY <1>1, DoNextJobBegins DEF AddJob

LEMMA EnqueuedBegins ==
  ASSUME TypeOK, NEW d, IsDispatch(d), Enqueued(d)
  PROVE  job' = job \/ Begins
<1>1. d.work # <<>> => Head(d.work) \in Work
  BY HeadTailProperties DEF IsDispatch
<1> QED
  BY <1>1, AddJobBegins DEF Enqueued

\* A job that begins has pinned nothing and sweeps nothing.
LEMMA BegunIsSafe ==
  ASSUME Begins, up \in BOOLEAN, PinsOf \in [Tokens -> SUBSET Pins]
  PROVE  /\ job'.sweep = {}
         /\ job'.what.kind = "add" /\ job'.ok =>
              \A p \in PinsOf[job'.what.token] : p[2] \in job'.wait
<1>1. CASE job' = NoJob
  BY <1>1 DEF NoJob, Nothing
<1>2. CASE \E w \in Work \cup {GcJob} : job' = Started(w)
  <2>1. PICK w \in Work \cup {GcJob} : job' = Started(w)
    BY <1>2
  <2>2. /\ job'.what = w /\ job'.sweep = {}
        /\ job'.wait = IF up THEN Asked(w) ELSE {}
        /\ job'.ok = (up \/ w.kind = "remove")
    BY <2>1 DEF Started
  <2>3. w.kind = "add" => Asked(w) = {p[2] : p \in PinsOf[w.token]}
    BY DEF Asked
  <2> QED
    BY <2>2, <2>3
<1> QED
  BY <1>1, <1>2 DEF Begins

\* A step that starts jobs at most.
LEMMA RecordSafeBegins ==
  ASSUME TypeOK, RecordSafe, job' = job \/ Begins,
         UNCHANGED <<recorded, present, cli>>
  PROVE  RecordSafe'
<1>1. CASE job' = job
  BY <1>1 DEF RecordSafe
<1>2. CASE Begins
  <2>1. /\ job'.sweep = {}
        /\ job'.what.kind = "add" /\ job'.ok =>
             \A p \in PinsOf[job'.what.token] : p[2] \in job'.wait
    BY <1>2, BegunIsSafe, PinJobsAssumption DEF TypeOK, DaemonTypeOK
  <2> QED
    BY <2>1 DEF RecordSafe
<1> QED
  BY <1>1, <1>2

\* The requests of a job that is destroyed, done or not, spare what is recorded.
LEMMA DestroyedIsSafe ==
  ASSUME RecordSafe, JobDestroyed, cli.step = "never",
         NEW p \in Pins, recorded[p] # {}
  PROVE  p \in present'
<1>1. p \in present /\ p[1] \notin job.sweep
  BY DEF RecordSafe
<1>2. \A R : p \in Effect(R)
  BY <1>1 DEF Effect
<1> QED
  BY <1>2 DEF JobDestroyed

LEMMA NodeAnswersRecordSafe ==
  ASSUME TypeOK, RecordSafe, NEW r \in Requests, NodeAnswers(r)
  PROVE  RecordSafe'
<1> SUFFICES ASSUME cli.step = "never" PROVE RecordSafe'
  BY DEF RecordSafe, NodeAnswers
<1>1. job \in Running
  BY DEF NodeAnswers, TypeOK, PinJobTypeOK, NoJob
<1>2. /\ present' = Effect({r}) /\ recorded' = recorded /\ cli' = cli
      /\ job'.what = job.what /\ job'.wait = job.wait \ {r}
      /\ job'.sweep = job.sweep /\ (job'.ok => job.ok)
  BY <1>1 DEF NodeAnswers, Running
<1>3. ASSUME NEW p \in Pins, recorded[p] # {}
      PROVE  p \in present' /\ p[1] \notin job'.sweep
  BY <1>2, <1>3 DEF RecordSafe, Effect
<1>4. ASSUME job'.what.kind = "add", job'.ok, NEW p \in PinsOf[job'.what.token],
             p[2] \notin job'.wait
      PROVE  p \in present'
  BY <1>2, <1>4 DEF RecordSafe, Effect
<1> QED
  BY <1>2, <1>3, <1>4 DEF RecordSafe

LEMMA NodeFailsRecordSafe ==
  ASSUME TypeOK, RecordSafe, NEW r \in Requests, NodeFails(r)
  PROVE  RecordSafe'
<1> SUFFICES ASSUME cli.step = "never" PROVE RecordSafe'
  BY DEF RecordSafe, NodeFails
<1>1. job \in Running
  BY DEF NodeFails, TypeOK, PinJobTypeOK, NoJob
<1>2. /\ present' \in {present, Effect({r})} /\ recorded' = recorded
      /\ cli' = cli /\ job'.sweep = job.sweep /\ ~job'.ok
  BY <1>1 DEF NodeFails, Running
<1>3. ASSUME NEW p \in Pins, recorded[p] # {}
      PROVE  p \in present' /\ p[1] \notin job'.sweep
  BY <1>2, <1>3 DEF RecordSafe, Effect
<1> QED
  BY <1>2, <1>3 DEF RecordSafe

LEMMA GcSweepsRecordSafe ==
  ASSUME TypeOK, RecordSafe, GcSweeps
  PROVE  RecordSafe'
<1>1. job \in Running
  BY DEF GcSweeps, Returning, TypeOK, PinJobTypeOK
<1>2. /\ UNCHANGED <<recorded, present, cli>>
      /\ job'.sweep = Unrecorded(job.seen)
      /\ job'.what.kind = "gc"
  BY <1>1 DEF GcSweeps, MustSweep, Running, daemonVars
<1>3. ASSUME NEW p \in Pins, recorded[p] # {}
      PROVE  p[1] \notin Unrecorded(job.seen)
  <2>1. p[2] \in Modes /\ p = <<p[1], p[2]>>
    BY DEF Pins
  <2> QED
    BY <1>3, <2>1 DEF Unrecorded
<1> QED
  BY <1>2, <1>3 DEF RecordSafe

\* The job after one that ends begins.
LEMMA JobFinishesBegins ==
  ASSUME TypeOK, IntentAwaited, JobFinishes
  PROVE  Begins
<1>1. TypeOK'
  BY JobFinishesType
<1>2. PICK d : DoNextJob(jobs \o d.work, ready)
  BY DEF JobFinishes
<1>3. CASE job' = NoJob
  BY <1>3 DEF Begins
<1>4. CASE job' # NoJob
  <2>1. job' = Started(Head(jobs \o d.work))
    BY <1>2, <1>4 DEF DoNextJob
  <2>2. job'.what = Head(jobs \o d.work)
    BY <2>1 DEF Started
  <2>3. job'.what \in Work \cup {GcJob}
    BY <1>1, <1>4 DEF TypeOK, PinJobTypeOK, Running
  <2> QED
    BY <2>1, <2>2, <2>3 DEF Begins
<1> QED
  BY <1>3, <1>4

LEMMA JobFinishesRecordSafe ==
  ASSUME TypeOK, RecordSafe, IntentAwaited, JobFinishes
  PROVE  RecordSafe'
<1> SUFFICES ASSUME cli.step = "never" PROVE RecordSafe'
  BY DEF RecordSafe, JobFinishes
<1>1. /\ recorded' = RecordAfter(job.what, job.ok)
      /\ UNCHANGED <<present, cli>>
      /\ job.wait = {}
  BY DEF JobFinishes, Returning
<1>2. Begins
  BY JobFinishesBegins
<1>3. /\ job'.sweep = {}
      /\ job'.what.kind = "add" /\ job'.ok =>
           \A p \in PinsOf[job'.what.token] : p[2] \in job'.wait
  BY <1>2, BegunIsSafe, PinJobsAssumption DEF TypeOK, DaemonTypeOK
<1>4. ASSUME NEW p \in Pins, recorded'[p] # {}
      PROVE  p \in present
  <2>1. recorded \in [Pins -> SUBSET Tokens]
    BY DEF TypeOK, PinJobTypeOK
  <2>2. CASE recorded[p] # {}
    BY <2>2 DEF RecordSafe
  <2>3. CASE recorded[p] = {}
    <3>1. job.what.kind = "add" /\ job.ok /\ p \in PinsOf[job.what.token]
      BY <1>1, <1>4, <2>1, <2>3 DEF RecordAfter
    <3> QED
      BY <1>1, <3>1 DEF RecordSafe
  <2> QED
    BY <2>2, <2>3
<1> QED
  BY <1>1, <1>3, <1>4 DEF RecordSafe

LEMMA TokenNewsBegins ==
  ASSUME TypeOK, TokenNewsArrives
  PROVE  job' = job \/ Begins
<1> DEFINE t == Head(news).token
           added == Head(news).added
           toks == IF added THEN tokens \cup {t} ELSE tokens \ {t}
           i == [op |-> IF added THEN "add" ELSE "delete", token |-> t]
           d == AddOrExecute(i, current, Without(t, queue), status, toks)
<1>1. i \in Intents
  <2>1. Head(news) \in [added: BOOLEAN, token: Tokens]
    BY HeadTailProperties DEF TokenNewsArrives, TypeOK
  <2> QED
    BY <2>1 DEF Intents
<1>2. IsDispatch(d)
  <2>1. Without(t, queue) \in Seq(Intents)
    BY WithoutEffect DEF TypeOK
  <2> HIDE DEF i, t, added, toks
  <2> QED
    BY <1>1, <2>1, AddOrExecuteType DEF TypeOK
<1>3. Enqueued(d) \/ job' = job
  BY DEF TokenNewsArrives
<1> HIDE DEF d
<1> QED
  BY <1>2, <1>3, EnqueuedBegins

LEMMA UserChangesRecordSafe ==
  ASSUME TypeOK, RecordSafe, NEW t \in Tokens, UserChanges(t)
  PROVE  RecordSafe'
BY RecordSafeBegins DEF UserChanges, daemonVars, pinJobVars

LEMMA TokenNewsArrivesRecordSafe ==
  ASSUME TypeOK, RecordSafe, TokenNewsArrives
  PROVE  RecordSafe'
<1>1. UNCHANGED <<recorded, present, cli>>
  BY DEF TokenNewsArrives
<1>2. job' = job \/ Begins
  BY TokenNewsBegins
<1> QED
  BY <1>1, <1>2, RecordSafeBegins

LEMMA RetryFiresRecordSafe ==
  ASSUME TypeOK, RecordSafe, NEW i \in Intents, RetryFires(i)
  PROVE  RecordSafe'
<1> DEFINE d == AddOrExecute(i, current, queue, status, tokens)
<1>1. IsDispatch(d)
  BY AddOrExecuteType DEF TypeOK
<1>2. Enqueued(d) /\ UNCHANGED <<recorded, present, cli>>
  BY DEF RetryFires
<1> HIDE DEF d
<1>3. job' = job \/ Begins
  BY <1>1, <1>2, EnqueuedBegins
<1> QED
  BY <1>2, <1>3, RecordSafeBegins

LEMMA SwitchOnRecordSafe ==
  ASSUME TypeOK, RecordSafe, SwitchOn
  PROVE  RecordSafe'
<1>1. PICK d \in Restored(status) : Enqueued(d)
  BY DEF SwitchOn
<1>2. UNCHANGED <<recorded, present, cli>>
  BY DEF SwitchOn
<1>3. IsDispatch(d)
  BY RestoredType DEF TypeOK
<1>4. job' = job \/ Begins
  BY <1>1, <1>3, EnqueuedBegins
<1> QED
  BY <1>2, <1>4, RecordSafeBegins

LEMMA SwitchOffRecordSafe ==
  ASSUME TypeOK, RecordSafe, SwitchOff
  PROVE  RecordSafe'
<1>1. UNCHANGED <<recorded, present, cli>>
  BY DEF SwitchOff, daemonVars
<1>2. CASE job = NoJob
  BY <1>1, <1>2, OrphanedNoJob DEF SwitchOff, RecordSafe
<1>3. CASE job \in Running
  <2>1. /\ job'.what = Orphaned(job.what) /\ job'.wait = job.wait
        /\ job'.ok = job.ok /\ job'.sweep = job.sweep
    BY <1>3 DEF SwitchOff, Running
  <2>2. job'.what.kind = job.what.kind
        /\ (job.what.kind = "add" => job'.what.token = job.what.token)
    BY <1>3, <2>1 DEF Orphaned, Running, Work, GcJob
  <2> QED
    BY <1>1, <2>1, <2>2 DEF RecordSafe
<1> QED
  BY <1>2, <1>3 DEF TypeOK, PinJobTypeOK

LEMMA MetadataArrivesRecordSafe ==
  ASSUME TypeOK, RecordSafe, NEW f \in Fetches, MetadataArrives(f)
  PROVE  RecordSafe'
<1> DEFINE w == [kind |-> "add", token |-> f.token, live |-> f.live]
<1>1. w \in Work
  BY DEF Fetches, Work
<1>2. AddJob(w) /\ UNCHANGED <<recorded, present, cli>>
  BY DEF MetadataArrives
<1> HIDE DEF w
<1>3. job' = job \/ Begins
  BY <1>1, <1>2, AddJobBegins
<1> QED
  BY <1>2, <1>3, RecordSafeBegins

LEMMA MetadataFailsRecordSafe ==
  ASSUME TypeOK, RecordSafe, NEW f \in Fetches, NEW why \in {"failed", "refused"}, MetadataFails(f, why)
  PROVE  RecordSafe'
<1> DEFINE st == [status EXCEPT ![f.token] = why]
           d == CheckQueue(NoIntent, queue, st)
<1>1. IsDispatch(d)
  <2>1. st \in [Tokens -> Statuses]
    BY DEF TypeOK, Fetches, Statuses
  <2> HIDE DEF st
  <2> QED
    BY <2>1, CheckQueueType DEF TypeOK
<1>2. (Enqueued(d) \/ job' = job) /\ UNCHANGED <<recorded, present, cli>>
  BY DEF MetadataFails
<1> HIDE DEF d
<1>3. job' = job \/ Begins
  BY <1>1, <1>2, EnqueuedBegins
<1> QED
  BY <1>2, <1>3, RecordSafeBegins

LEMMA GcTimerFiresRecordSafe ==
  ASSUME TypeOK, RecordSafe, GcTimerFires
  PROVE  RecordSafe'
<1>1. (AddJob(GcJob) \/ job' = job) /\ UNCHANGED <<recorded, present, cli>>
  BY DEF GcTimerFires
<1>2. job' = job \/ Begins
  BY <1>1, AddJobBegins
<1> QED
  BY <1>1, <1>2, RecordSafeBegins

LEMMA NodeLaunchesRecordSafe ==
  ASSUME TypeOK, RecordSafe, NodeLaunches
  PROVE  RecordSafe'
BY RecordSafeBegins DEF NodeLaunches, daemonVars, pinJobVars

LEMMA NodeFailsToLaunchRecordSafe ==
  ASSUME TypeOK, RecordSafe, NodeFailsToLaunch
  PROVE  RecordSafe'
BY RecordSafeBegins DEF NodeFailsToLaunch, daemonVars, pinJobVars

LEMMA OnExecutableReadyRecordSafe ==
  ASSUME TypeOK, RecordSafe, OnExecutableReady
  PROVE  RecordSafe'
BY RecordSafeBegins DEF OnExecutableReady, daemonVars, pinJobVars

LEMMA OthersLaunchRecordSafe ==
  ASSUME TypeOK, RecordSafe, OthersLaunch
  PROVE  RecordSafe'
BY RecordSafeBegins DEF OthersLaunch, daemonVars, pinJobVars

LEMMA UserStopsNodeRecordSafe ==
  ASSUME TypeOK, RecordSafe, UserStopsNode
  PROVE  RecordSafe'
<1> SUFFICES ASSUME cli'.step = "never" PROVE RecordSafe'
  BY DEF RecordSafe
<1>1. cli.step = "never"
  BY DEF UserStopsNode, TypeOK, PinJobTypeOK
<1>2. recorded' = recorded /\ job' = NoJob /\ JobDestroyed
  BY DEF UserStopsNode, OnIpfsShutdown
<1>3. \A p \in Pins : recorded[p] # {} => p \in present'
  BY <1>1, <1>2, DestroyedIsSafe
<1> QED
  BY <1>2, <1>3 DEF RecordSafe, NoJob, Nothing

LEMMA RestartDaemonRecordSafe ==
  ASSUME TypeOK, RecordSafe, RestartDaemon
  PROVE  RecordSafe'
<1> SUFFICES ASSUME cli'.step = "never" PROVE RecordSafe'
  BY DEF RecordSafe
<1>1. cli.step = "never"
  BY DEF RestartDaemon, TypeOK, PinJobTypeOK
<1>2. recorded' = recorded /\ job' = NoJob /\ JobDestroyed
  BY DEF RestartDaemon, OnIpfsShutdown
<1>3. \A p \in Pins : recorded[p] # {} => p \in present'
  BY <1>1, <1>2, DestroyedIsSafe
<1> QED
  BY <1>2, <1>3 DEF RecordSafe, NoJob, Nothing

LEMMA NodeCrashesRecordSafe ==
  ASSUME TypeOK, RecordSafe, NodeCrashes
  PROVE  RecordSafe'
BY RecordSafeBegins DEF NodeCrashes, daemonVars, pinJobVars

LEMMA PollTimerRecordSafe ==
  ASSUME TypeOK, RecordSafe, PollTimer
  PROVE  RecordSafe'
BY RecordSafeBegins DEF PollTimer, PollTimerFires, daemonVars

LEMMA PeersAnswerRecordSafe ==
  ASSUME TypeOK, RecordSafe, NEW success \in BOOLEAN, PeersAnswer(success)
  PROVE  RecordSafe'
<1>1. /\ DoNextJob(jobs, TRUE) \/ job' = job
      /\ UNCHANGED <<recorded, present, cli>>
  BY DEF PeersAnswer, OnGetConnectedPeersResult
<1>2. job' = job \/ Begins
  BY <1>1, DoNextJobBegins DEF TypeOK, PinJobTypeOK
<1> QED
  BY <1>1, <1>2, RecordSafeBegins

LEMMA UserResetsWalletRecordSafe ==
  ASSUME TypeOK, RecordSafe, UserResetsWallet
  PROVE  RecordSafe'
BY RecordSafeBegins DEF UserResetsWallet, daemonVars, pinJobVars

LEMMA ResetNewsArrivesRecordSafe ==
  ASSUME TypeOK, RecordSafe, ResetNewsArrives
  PROVE  RecordSafe'
BY DEF ResetNewsArrives, CliGoesOn, RecordSafe

LEMMA CliListsRecordSafe ==
  ASSUME TypeOK, RecordSafe, CliLists
  PROVE  RecordSafe'
BY DEF CliLists, CliGoesOn, RecordSafe

LEMMA CliRemovesRecordSafe ==
  ASSUME TypeOK, RecordSafe, NEW c \in Cids, CliRemoves(c)
  PROVE  RecordSafe'
BY DEF CliRemoves, CliGoesOn, RecordSafe

LEMMA CliFailsRecordSafe ==
  ASSUME TypeOK, RecordSafe, CliFails
  PROVE  RecordSafe'
BY DEF CliFails, RecordSafe

LEMMA BrowserRestartsRecordSafe ==
  ASSUME TypeOK, RecordSafe, BrowserRestarts
  PROVE  RecordSafe'
<1> SUFFICES ASSUME cli'.step = "never" PROVE RecordSafe'
  BY DEF RecordSafe
<1>1. cli.step = "never"
  BY DEF BrowserRestarts, TypeOK, PinJobTypeOK
<1>2. recorded' = recorded /\ job' = NoJob /\ JobDestroyed
  BY DEF BrowserRestarts, OnIpfsShutdown
<1>3. \A p \in Pins : recorded[p] # {} => p \in present'
  BY <1>1, <1>2, DestroyedIsSafe
<1> QED
  BY <1>2, <1>3 DEF RecordSafe, NoJob, Nothing

LEMMA NextRecordSafe ==
  ASSUME TypeOK, IntentAwaited, RecordSafe, Next
  PROVE  RecordSafe'
<1>1. CASE \E t \in Tokens : UserChanges(t)
  BY <1>1, UserChangesRecordSafe
<1>2. CASE TokenNewsArrives
  BY <1>2, TokenNewsArrivesRecordSafe
<1>3. CASE \E i \in Intents : RetryFires(i)
  BY <1>3, RetryFiresRecordSafe
<1>4. CASE SwitchOn
  BY <1>4, SwitchOnRecordSafe
<1>5. CASE SwitchOff
  BY <1>5, SwitchOffRecordSafe
<1>6. CASE \E f \in Fetches : MetadataArrives(f)
  BY <1>6, MetadataArrivesRecordSafe
<1>7. CASE \E f \in Fetches, why \in {"failed", "refused"} : MetadataFails(f, why)
  BY <1>7, MetadataFailsRecordSafe
<1>8. CASE \E r \in Requests : NodeAnswers(r)
  BY <1>8, NodeAnswersRecordSafe
<1>9. CASE \E r \in Requests : NodeFails(r)
  BY <1>9, NodeFailsRecordSafe
<1>10. CASE GcSweeps
  BY <1>10, GcSweepsRecordSafe
<1>11. CASE JobFinishes
  BY <1>11, JobFinishesRecordSafe
<1>12. CASE GcTimerFires
  BY <1>12, GcTimerFiresRecordSafe
<1>13. CASE NodeLaunches
  BY <1>13, NodeLaunchesRecordSafe
<1>14. CASE NodeFailsToLaunch
  BY <1>14, NodeFailsToLaunchRecordSafe
<1>15. CASE OnExecutableReady
  BY <1>15, OnExecutableReadyRecordSafe
<1>16. CASE OthersLaunch
  BY <1>16, OthersLaunchRecordSafe
<1>17. CASE UserStopsNode
  BY <1>17, UserStopsNodeRecordSafe
<1>18. CASE RestartDaemon
  BY <1>18, RestartDaemonRecordSafe
<1>19. CASE NodeCrashes
  BY <1>19, NodeCrashesRecordSafe
<1>20. CASE PollTimer
  BY <1>20, PollTimerRecordSafe
<1>21. CASE \E success \in BOOLEAN : PeersAnswer(success)
  BY <1>21, PeersAnswerRecordSafe
<1>22. CASE UserResetsWallet
  BY <1>22, UserResetsWalletRecordSafe
<1>23. CASE ResetNewsArrives
  BY <1>23, ResetNewsArrivesRecordSafe
<1>24. CASE CliLists
  BY <1>24, CliListsRecordSafe
<1>25. CASE \E c \in Cids : CliRemoves(c)
  BY <1>25, CliRemovesRecordSafe
<1>26. CASE CliFails
  BY <1>26, CliFailsRecordSafe
<1>27. CASE BrowserRestarts
  BY <1>27, BrowserRestartsRecordSafe
<1> QED
  BY <1>1, <1>2, <1>3, <1>4, <1>5, <1>6, <1>7, <1>8, <1>9, <1>10, <1>11,
     <1>12, <1>13, <1>14, <1>15, <1>16, <1>17, <1>18, <1>19, <1>20, <1>21,
     <1>22, <1>23, <1>24, <1>25, <1>26, <1>27
     DEF Next

\* The collection of garbage never takes a pin that is recorded as needed: not
\* while a pin is being added or removed for another token, not when requests
\* are lost with their node, and not after a restart.
THEOREM RecordKept == Spec => []RecordedIsPresent
<1>1. Init => RecordSafe
  BY DEF Init, PinJobInit, RecordSafe, NoJob, Nothing
<1>2. TypeOK /\ IntentAwaited /\ RecordSafe /\ [Next]_vars => RecordSafe'
  <2>1. ASSUME RecordSafe, UNCHANGED vars
        PROVE  RecordSafe'
    BY <2>1 DEF vars, daemonVars, pinJobVars, RecordSafe
  <2> QED
    BY <2>1, NextRecordSafe
<1>3. RecordSafe => RecordedIsPresent
  BY DEF RecordSafe, RecordedIsPresent
<1> QED
  BY <1>1, <1>2, <1>3, AlwaysAwaited, PTL DEF Spec

-----------------------------------------------------------------------------
(* Waiting jobs: the argument of JobsAreServed *)

Lost == met \cap {"stop", "renew", "crash"} # {}

\* Polls go on only with a node that is up, unless it was lost.
Served ==
  /\ JobsAreServed
  /\ timers + asks > 0 => up \/ Lost

\* What a step of the job queue leaves, when the polls, the node and the queue's
\* belief in it stay as they are.
ServesOn ==
  /\ job' = NoJob /\ jobs' # <<>> =>
       \/ ~ready /\ (pending' = "pins" \/ timers' > 0)
       \/ UNCHANGED <<job, jobs, pending, timers>>
  /\ timers' = timers \/ (up /\ timers' \in Nat /\ timers' > 0)

LEMMA OneMoreIsSome ==
  ASSUME NEW n \in 0 .. MaxPolls
  PROVE  OneMore(n) \in Nat /\ OneMore(n) > 0
BY PinJobsAssumption DEF OneMore

LEMMA StartedIsJob ==
  ASSUME TypeOK, NEW w \in Work \cup {GcJob}
  PROVE  Started(w) # NoJob
<1>1. Started(w).what = w /\ NoJob.what = Nothing
  BY DEF Started, NoJob
<1>2. w # Nothing
  BY DEF Work, GcJob, Nothing
<1> QED
  BY <1>1, <1>2

LEMMA DoNextJobServes ==
  ASSUME TypeOK, NEW js \in Seq(Work \cup {GcJob}), DoNextJob(js, ready)
  PROVE  ServesOn
<1>1. timers \in 0 .. MaxPolls
  BY DEF TypeOK, PinJobTypeOK
<1>2. CASE js # <<>> /\ ready
  <2>1. Head(js) \in Work \cup {GcJob}
    BY <1>2, HeadTailProperties
  <2>2. job' = Started(Head(js)) /\ timers' = timers
    BY <1>2 DEF DoNextJob
  <2> QED
    BY <2>1, <2>2, StartedIsJob DEF ServesOn
<1>3. CASE js = <<>>
  BY <1>3 DEF DoNextJob, ServesOn
<1>4. CASE js # <<>> /\ ~ready
  <2>1. MaybeStartDaemon
    BY <1>4 DEF DoNextJob
  <2>2. CASE up
    <3>1. timers' = OneMore(timers)
      BY <2>1, <2>2 DEF MaybeStartDaemon
    <3> QED
      BY <1>1, <1>4, <2>2, <3>1, OneMoreIsSome DEF ServesOn
  <2>3. CASE ~up
    <3>1. timers' = timers /\ pending' = "pins"
      BY <2>1, <2>3 DEF MaybeStartDaemon, LaunchDaemon
    <3> QED
      BY <1>4, <3>1 DEF ServesOn
  <2> QED
    BY <2>2, <2>3
<1> QED
  BY <1>2, <1>3, <1>4

LEMMA AddJobServes ==
  ASSUME TypeOK, NEW w \in Work \cup {GcJob}, AddJob(w)
  PROVE  ServesOn
<1>1. Append(jobs, w) \in Seq(Work \cup {GcJob})
  BY AppendProperties DEF TypeOK, PinJobTypeOK
<1>2. CASE job = NoJob
  BY <1>1, <1>2, DoNextJobServes DEF AddJob
<1>3. CASE job # NoJob
  BY <1>3 DEF AddJob, ServesOn
<1> QED
  BY <1>2, <1>3

LEMMA EnqueuedServes ==
  ASSUME TypeOK, NEW d, IsDispatch(d), Enqueued(d)
  PROVE  ServesOn
<1>1. CASE d.work = <<>>
  BY <1>1 DEF Enqueued, ServesOn
<1>2. CASE d.work # <<>>
  <2>1. Head(d.work) \in Work
    BY <1>2, HeadTailProperties DEF IsDispatch
  <2> QED
    BY <1>2, <2>1, AddJobServes DEF Enqueued
<1> QED
  BY <1>1, <1>2

LEMMA ServedOn ==
  ASSUME TypeOK, Served, ServesOn, UNCHANGED <<ready, asks, up>>,
         met \subseteq met'
  PROVE  Served'
<1>1. timers \in Nat /\ asks \in Nat
  BY DEF TypeOK, PinJobTypeOK
<1>2. CASE timers' = timers
  <2>1. (timers' + asks' > 0 => up' \/ Lost')
    BY <1>2 DEF Served, Lost
  <2>2. JobsAreServed'
    BY <1>1, <1>2 DEF ServesOn, Served, JobsAreServed
  <2> QED
    BY <2>1, <2>2 DEF Served
<1>3. CASE /\ up
           /\ timers' \in Nat
           /\ timers' > 0
  <2>1. timers' + asks' > 0
    <3>1. asks' = asks /\ timers' \in Nat /\ timers' > 0
      BY <1>3
    <3>2. \A m, n \in Nat : m > 0 => m + n > 0
      OBVIOUS
    <3> QED
      BY <1>1, <3>1, <3>2
  <2>2. up'
    BY <1>3
  <2>3. job' = NoJob /\ jobs' # <<>> => ~ready'
    BY DEF ServesOn, Served, JobsAreServed
  <2>4. JobsAreServed'
    BY <2>1, <2>3 DEF JobsAreServed
  <2> QED
    BY <2>2, <2>4 DEF Served
<1> QED
  BY <1>2, <1>3 DEF ServesOn

\* A step after the node was lost needs no argument, but for the belief that it
\* is ready.
LEMMA ServedLost ==
  ASSUME Lost', job' = NoJob /\ jobs' # <<>> => ~ready'
  PROVE  Served'
<1>1. met' \cap {"stop", "renew", "crash"} # {}
  BY DEF Lost
<1> QED
  BY <1>1 DEF Served, JobsAreServed, Lost

LEMMA TokenNewsServes ==
  ASSUME TypeOK, TokenNewsArrives
  PROVE  ServesOn
<1> DEFINE t == Head(news).token
           added == Head(news).added
           toks == IF added THEN tokens \cup {t} ELSE tokens \ {t}
           i == [op |-> IF added THEN "add" ELSE "delete", token |-> t]
           d == AddOrExecute(i, current, Without(t, queue), status, toks)
<1>1. i \in Intents
  <2>1. Head(news) \in [added: BOOLEAN, token: Tokens]
    BY HeadTailProperties DEF TokenNewsArrives, TypeOK
  <2> QED
    BY <2>1 DEF Intents
<1>2. IsDispatch(d)
  <2>1. Without(t, queue) \in Seq(Intents)
    BY WithoutEffect DEF TypeOK
  <2> HIDE DEF i, t, added, toks
  <2> QED
    BY <1>1, <2>1, AddOrExecuteType DEF TypeOK
<1>3. Enqueued(d) \/ UNCHANGED <<jobs, job, timers, bound, pending>>
  BY DEF TokenNewsArrives
<1> HIDE DEF d
<1> QED
  BY <1>2, <1>3, EnqueuedServes DEF ServesOn

LEMMA JobFinishesNext ==
  ASSUME TypeOK, JobFinishes
  PROVE  \E js \in Seq(Work \cup {GcJob}) : DoNextJob(js, ready)
<1>1. QueueTypeOK /\ IntentTypeOK /\ UpsetTypeOK /\ OtherTypeOK
  BY TypeParts
<1> DEFINE w == job.what
           st == CASE w.kind = "add" ->
                      [status EXCEPT ![w.token] =
                         IF job.ok THEN "pinned" ELSE "failed"]
                 [] w.kind = "remove" -> [status EXCEPT ![w.token] = "none"]
                 [] w.kind = "verify" ->
                      [status EXCEPT ![w.token] =
                         IF job.ok THEN "pinned" ELSE "pinning"]
                 [] w.kind = "gc" -> status
           d == IF ~w.live
               THEN [current |-> current, queue |-> queue, status |-> st,
                     fetch |-> {}, work |-> <<>>]
               ELSE IF w.kind = "verify" /\ ~job.ok
               THEN AddOrExecute([op |-> "add", token |-> w.token], NoIntent,
                                 queue, st, tokens)
               ELSE CheckQueue(NoIntent, queue, st)
<1>6. /\ job \in Running
      /\ w \in Work \cup {GcJob}
  BY <1>1 DEF JobFinishes, Returning, QueueTypeOK, Running
<1>7. st \in [Tokens -> Statuses]
  <2>1. CASE w = GcJob
    BY <1>1, <2>1 DEF GcJob, IntentTypeOK
  <2>2. CASE w \in Work
    <3>1. w.kind \in {"add", "remove", "verify"} /\ w.token \in Tokens
      BY <2>2 DEF Work
    <3> QED
      BY <1>1, <3>1 DEF IntentTypeOK, Statuses
  <2> QED
    BY <1>6, <2>1, <2>2
<1>8. IsDispatch(d)
  <2> HIDE DEF st
  <2>1. CASE ~w.live
    BY <1>1, <1>7, <2>1, EmptySeq DEF IsDispatch, IntentTypeOK
  <2>2. CASE w.live /\ w.kind = "verify" /\ ~job.ok
    <3>1. [op |-> "add", token |-> w.token] \in Intents
      BY <1>6, <2>2 DEF GcJob, Work, Intents
    <3>2. IsDispatch(AddOrExecute([op |-> "add", token |-> w.token], NoIntent,
                                  queue, st, tokens))
      BY <1>1, <1>7, <3>1, AddOrExecuteType DEF IntentTypeOK
    <3> QED
      BY <2>2, <3>2
  <2>3. CASE w.live /\ ~(w.kind = "verify" /\ ~job.ok)
    <3>1. IsDispatch(CheckQueue(NoIntent, queue, st))
      BY <1>1, <1>7, CheckQueueType DEF IntentTypeOK
    <3> QED
      BY <2>3, <3>1
  <2> QED
    BY <2>1, <2>2, <2>3
<1>9. /\ Dispatched(d, fetches)
      /\ recorded' = RecordAfter(w, job.ok)
      /\ PostRetry(w.live /\ w.kind = "add" /\ ~job.ok)
      /\ gcTimers' = IF w.kind = "remove" THEN OneMore(gcTimers) ELSE gcTimers
      /\ gcPosted' = (gcPosted /\ w.kind # "gc")
      /\ DoNextJob(jobs \o d.work, ready)
  BY DEF JobFinishes
<1> HIDE DEF d, st
<1>10. jobs \o d.work \in Seq(Work \cup {GcJob})
  BY <1>1, <1>8, SeqMonotonic, ConcatProperties DEF QueueTypeOK, IsDispatch
<1> QED
  BY <1>9, <1>10

LEMMA UserChangesServed ==
  ASSUME TypeOK, Served, NEW t \in Tokens, UserChanges(t)
  PROVE  Served'
BY ServedOn DEF UserChanges, ServesOn, Calm, Upset, daemonVars, pinJobVars

LEMMA TokenNewsArrivesServed ==
  ASSUME TypeOK, Served, TokenNewsArrives
  PROVE  Served'
<1>1. ServesOn
  BY TokenNewsServes
<1> QED
  BY <1>1, ServedOn DEF TokenNewsArrives, Calm

LEMMA RetryFiresServed ==
  ASSUME TypeOK, Served, NEW i \in Intents, RetryFires(i)
  PROVE  Served'
<1> DEFINE d == AddOrExecute(i, current, queue, status, tokens)
<1>1. IsDispatch(d)
  BY AddOrExecuteType DEF TypeOK
<1>2. Enqueued(d)
  BY DEF RetryFires
<1> HIDE DEF d
<1>3. ServesOn
  BY <1>1, <1>2, EnqueuedServes
<1> QED
  BY <1>3, ServedOn DEF RetryFires, Calm

LEMMA SwitchOnServed ==
  ASSUME TypeOK, Served, SwitchOn
  PROVE  Served'
<1>1. PICK d \in Restored(status) : Enqueued(d)
  BY DEF SwitchOn
<1>2. IsDispatch(d)
  BY RestoredType DEF TypeOK
<1>3. ServesOn
  BY <1>1, <1>2, EnqueuedServes
<1> QED
  BY <1>3, ServedOn DEF SwitchOn, Calm

LEMMA SwitchOffServed ==
  ASSUME TypeOK, Served, SwitchOff
  PROVE  Served'
<1>1. UNCHANGED <<ready, asks, up, timers, pending>> /\ met \subseteq met'
  BY DEF SwitchOff, daemonVars, Upset
<1>2. job' = NoJob => job = NoJob
  <2>1. ASSUME job \in Running
        PROVE  job' # NoJob
    <3>1. job'.what = Orphaned(job.what)
      BY <2>1 DEF SwitchOff, Running
    <3>2. job.what \in Work \cup {GcJob}
      BY <2>1 DEF Running
    <3>3. Orphaned(job.what) \in Work \cup {GcJob}
      BY <3>2, OrphanedType
    <3> QED
      BY <3>1, <3>3 DEF NoJob, Nothing, Work, GcJob
  <2> QED
    BY <2>1 DEF TypeOK, PinJobTypeOK
<1>3. jobs' # <<>> => jobs # <<>>
  <2>1. ASSUME jobs = <<>>
        PROVE  jobs' = <<>>
    BY <2>1 DEF SwitchOff
  <2> QED
    BY <2>1
<1> QED
  BY <1>1, <1>2, <1>3 DEF Served, JobsAreServed, Lost

LEMMA MetadataArrivesServed ==
  ASSUME TypeOK, Served, NEW f \in Fetches, MetadataArrives(f)
  PROVE  Served'
<1> DEFINE w == [kind |-> "add", token |-> f.token, live |-> f.live]
<1>1. w \in Work
  BY DEF Fetches, Work
<1>2. AddJob(w)
  BY DEF MetadataArrives
<1> HIDE DEF w
<1>3. ServesOn
  BY <1>1, <1>2, AddJobServes
<1> QED
  BY <1>3, ServedOn DEF MetadataArrives, Calm

LEMMA MetadataFailsServed ==
  ASSUME TypeOK, Served, NEW f \in Fetches, NEW why \in {"failed", "refused"}, MetadataFails(f, why)
  PROVE  Served'
<1> DEFINE st == [status EXCEPT ![f.token] = why]
           d == CheckQueue(NoIntent, queue, st)
<1>1. IsDispatch(d)
  <2>1. st \in [Tokens -> Statuses]
    BY DEF TypeOK, Fetches, Statuses
  <2> HIDE DEF st
  <2> QED
    BY <2>1, CheckQueueType DEF TypeOK
<1>2. Enqueued(d) \/ UNCHANGED <<jobs, job, timers, bound, pending>>
  BY DEF MetadataFails
<1> HIDE DEF d
<1>3. ServesOn
  BY <1>1, <1>2, EnqueuedServes DEF ServesOn
<1> QED
  BY <1>3, ServedOn DEF MetadataFails, Upset

LEMMA NodeAnswersServed ==
  ASSUME TypeOK, Served, NEW r \in Requests, NodeAnswers(r)
  PROVE  Served'
<1>1. job # NoJob
  BY DEF NodeAnswers, Returning, NoJob
<1>2. job' # NoJob
  <2>1. job \in Running
    BY <1>1 DEF TypeOK, PinJobTypeOK
  <2>2. job'.what = job.what
    BY <2>1 DEF NodeAnswers, Running
  <2> QED
    BY <2>1, <2>2 DEF Running, NoJob, Work, GcJob, Nothing
<1> QED
  BY <1>2, ServedOn DEF NodeAnswers, ServesOn, Calm, Upset, daemonVars

LEMMA NodeFailsServed ==
  ASSUME TypeOK, Served, NEW r \in Requests, NodeFails(r)
  PROVE  Served'
<1>1. job # NoJob
  BY DEF NodeFails, Returning, NoJob
<1>2. job' # NoJob
  <2>1. job \in Running
    BY <1>1 DEF TypeOK, PinJobTypeOK
  <2>2. job'.what = job.what
    BY <2>1 DEF NodeFails, Running
  <2> QED
    BY <2>1, <2>2 DEF Running, NoJob, Work, GcJob, Nothing
<1> QED
  BY <1>2, ServedOn DEF NodeFails, ServesOn, Calm, Upset, daemonVars

LEMMA GcSweepsServed ==
  ASSUME TypeOK, Served, GcSweeps
  PROVE  Served'
<1>1. job # NoJob
  BY DEF GcSweeps, Returning, NoJob
<1>2. job' # NoJob
  <2>1. job \in Running
    BY <1>1 DEF TypeOK, PinJobTypeOK
  <2>2. job'.what = job.what
    BY <2>1 DEF GcSweeps, Running
  <2> QED
    BY <2>1, <2>2 DEF Running, NoJob, Work, GcJob, Nothing
<1> QED
  BY <1>2, ServedOn DEF GcSweeps, ServesOn, Calm, Upset, daemonVars

LEMMA JobFinishesServed ==
  ASSUME TypeOK, Served, JobFinishes
  PROVE  Served'
<1>1. PICK js \in Seq(Work \cup {GcJob}) : DoNextJob(js, ready)
  BY JobFinishesNext
<1>2. ServesOn
  BY <1>1, DoNextJobServes
<1> QED
  BY <1>2, ServedOn DEF JobFinishes, Calm

LEMMA GcTimerFiresServed ==
  ASSUME TypeOK, Served, GcTimerFires
  PROVE  Served'
<1>1. AddJob(GcJob) \/ UNCHANGED <<jobs, job, timers, bound, pending>>
  BY DEF GcTimerFires
<1>2. ServesOn
  BY <1>1, AddJobServes DEF ServesOn
<1> QED
  BY <1>2, ServedOn DEF GcTimerFires, Calm

LEMMA NodeLaunchesServed ==
  ASSUME TypeOK, Served, NodeLaunches
  PROVE  Served'
<1>1. timers \in 0 .. MaxPolls /\ asks \in 0 .. MaxPolls /\ MaxPolls \in Nat
  BY PinJobsAssumption DEF TypeOK, PinJobTypeOK
<1>2. UNCHANGED <<job, jobs, ready, asks, met>> /\ up'
  BY DEF NodeLaunches, Calm
<1>3. JobsAreServed'
  <2> SUFFICES ASSUME job' = NoJob, jobs' # <<>>
               PROVE  /\ ~ready'
                      /\ \/ timers' + asks' > 0
                         \/ met' \cap {"stop", "renew", "crash", "launch"} # {}
    BY DEF JobsAreServed
  <2>1. ~ready /\ jobs # <<>>
    BY <1>2 DEF Served, JobsAreServed
  <2>2. CASE pending = "pins"
    <3>1. timers' = OneMore(timers)
      BY <2>1, <2>2 DEF NodeLaunches, PostGetConnectedPeers
    <3> QED
      BY <1>1, <1>2, <2>1, <3>1, OneMoreIsSome
  <2>3. CASE pending # "pins"
    <3>1. timers' = timers
      BY <2>3 DEF NodeLaunches
    <3> QED
      BY <1>2, <2>3, <3>1 DEF Served, JobsAreServed
  <2> QED
    BY <2>2, <2>3
<1> QED
  BY <1>2, <1>3 DEF Served

LEMMA NodeFailsToLaunchServed ==
  ASSUME TypeOK, Served, NodeFailsToLaunch
  PROVE  Served'
<1>1. UNCHANGED <<job, jobs, ready, timers, asks>>
  BY DEF NodeFailsToLaunch, pinJobVars
<1>2. up' = FALSE /\ ~up
  BY DEF NodeFailsToLaunch, Shutdown
<1>3. met \subseteq met' /\ "launch" \in met'
  BY DEF NodeFailsToLaunch, Upset
<1> QED
  BY <1>1, <1>2, <1>3 DEF Served, JobsAreServed, Lost

LEMMA OnExecutableReadyServed ==
  ASSUME TypeOK, Served, OnExecutableReady
  PROVE  Served'
BY ServedOn DEF OnExecutableReady, ServesOn, Calm, Upset, daemonVars, pinJobVars

LEMMA OthersLaunchServed ==
  ASSUME TypeOK, Served, OthersLaunch
  PROVE  Served'
<1>1. UNCHANGED <<job, jobs, ready, timers, asks, up, met>>
  BY DEF OthersLaunch, pinJobVars, Calm
<1>2. pending = "pins" => pending' = "pins"
  BY DEF OthersLaunch, LaunchDaemon
<1> QED
  BY <1>1, <1>2 DEF Served, JobsAreServed, Lost

LEMMA UserStopsNodeServed ==
  ASSUME TypeOK, Served, UserStopsNode
  PROVE  Served'
BY ServedLost DEF UserStopsNode, OnIpfsShutdown, Upset, Lost

LEMMA RestartDaemonServed ==
  ASSUME TypeOK, Served, RestartDaemon
  PROVE  Served'
BY ServedLost DEF RestartDaemon, OnIpfsShutdown, Upset, Lost

LEMMA NodeCrashesServed ==
  ASSUME TypeOK, Served, NodeCrashes
  PROVE  Served'
<1>1. Lost'
  BY DEF NodeCrashes, Upset, Lost
<1>2. UNCHANGED <<job, jobs, ready>>
  BY DEF NodeCrashes, pinJobVars
<1> QED
  BY <1>1, <1>2, ServedLost DEF Served, JobsAreServed

LEMMA PollTimerServed ==
  ASSUME TypeOK, Served, PollTimer
  PROVE  Served'
<1>1. timers \in Nat /\ asks \in 0 .. MaxPolls
  BY DEF TypeOK, PinJobTypeOK
<1>2. /\ UNCHANGED <<job, jobs, ready, pending, up, met>>
      /\ timers > 0 /\ timers' = timers - 1
      /\ asks' = IF up THEN OneMore(asks) ELSE asks
  BY DEF PollTimer, PollTimerFires, daemonVars
<1>3. CASE up
  <2>1. asks' \in Nat /\ asks' > 0
    BY <1>1, <1>2, <1>3, OneMoreIsSome
  <2> QED
    BY <1>1, <1>2, <1>3, <2>1 DEF Served, JobsAreServed
<1>4. CASE ~up
  <2>1. timers + asks > 0
    BY <1>1, <1>2
  <2>2. Lost
    BY <1>4, <2>1 DEF Served
  <2>3. Lost'
    BY <1>2, <2>2 DEF Lost
  <2> QED
    BY <1>2, <2>3, ServedLost DEF Served, JobsAreServed
<1> QED
  BY <1>3, <1>4

LEMMA PeersAnswerServed ==
  ASSUME TypeOK, Served, NEW success \in BOOLEAN, PeersAnswer(success)
  PROVE  Served'
<1>1. timers \in 0 .. MaxPolls /\ asks \in 0 .. MaxPolls /\ MaxPolls \in Nat
      /\ jobs \in Seq(Work \cup {GcJob})
  BY PinJobsAssumption DEF TypeOK, PinJobTypeOK
<1>2. /\ asks > 0 /\ asks' = asks - 1 /\ up' = up
      /\ ready' = (ready \/ success) /\ met \subseteq met'
  BY DEF PeersAnswer, OnGetConnectedPeersResult, Calm, Upset
<1>3. timers + asks > 0
  BY <1>1, <1>2
<1>4. CASE ~ready /\ success
  <2>1. DoNextJob(jobs, TRUE)
    BY <1>4 DEF PeersAnswer, OnGetConnectedPeersResult
  <2>2. timers' = timers /\ ~(job' = NoJob /\ jobs' # <<>>)
    <3>1. CASE jobs = <<>>
      BY <2>1, <3>1 DEF DoNextJob
    <3>2. CASE jobs # <<>>
      <4>1. Head(jobs) \in Work \cup {GcJob}
        BY <1>1, <3>2, HeadTailProperties
      <4>2. job' = Started(Head(jobs)) /\ timers' = timers
        BY <2>1, <3>2 DEF DoNextJob
      <4> QED
        BY <4>1, <4>2, StartedIsJob
    <3> QED
      BY <3>1, <3>2
  <2>3. up' \/ Lost'
    BY <1>2, <1>3 DEF Served, Lost
  <2> QED
    BY <2>2, <2>3 DEF Served, JobsAreServed
<1>5. CASE ~(~ready /\ success)
  <2>1. UNCHANGED <<job, jobs, pending>> /\ PostGetConnectedPeers(ready, up)
        /\ (ready' <=> ready)
    BY <1>5 DEF PeersAnswer, OnGetConnectedPeersResult
  <2>2. CASE Lost
    <3>1. Lost'
      BY <1>2, <2>2 DEF Lost
    <3> QED
      BY <2>1, <3>1, ServedLost DEF Served, JobsAreServed
  <2>3. CASE up
    <3>1. ~ready /\ jobs # <<>> => timers' \in Nat /\ timers' > 0
      BY <1>1, <2>1, <2>3, OneMoreIsSome DEF PostGetConnectedPeers
    <3>2. up'
      BY <1>2, <2>3
    <3>3. JobsAreServed'
      BY <1>1, <1>2, <2>1, <3>1 DEF Served, JobsAreServed
    <3> QED
      BY <3>2, <3>3 DEF Served
  <2> QED
    BY <1>3, <2>2, <2>3 DEF Served
<1> QED
  BY <1>4, <1>5

LEMMA UserResetsWalletServed ==
  ASSUME TypeOK, Served, UserResetsWallet
  PROVE  Served'
BY ServedOn DEF UserResetsWallet, ServesOn, Calm, Upset, daemonVars, pinJobVars

LEMMA ResetNewsArrivesServed ==
  ASSUME TypeOK, Served, ResetNewsArrives
  PROVE  Served'
<1>1. jobs' = <<>> /\ timers' = 0 /\ asks' = 0
  BY DEF ResetNewsArrives
<1> QED
  BY <1>1 DEF Served, JobsAreServed

LEMMA CliListsServed ==
  ASSUME TypeOK, Served, CliLists
  PROVE  Served'
BY ServedOn DEF CliLists, ServesOn, Calm, Upset, daemonVars, pinJobVars

LEMMA CliRemovesServed ==
  ASSUME TypeOK, Served, NEW c \in Cids, CliRemoves(c)
  PROVE  Served'
BY ServedOn DEF CliRemoves, ServesOn, Calm, Upset, daemonVars, pinJobVars

LEMMA CliFailsServed ==
  ASSUME TypeOK, Served, CliFails
  PROVE  Served'
BY ServedOn DEF CliFails, ServesOn, Calm, Upset, daemonVars, pinJobVars

LEMMA BrowserRestartsServed ==
  ASSUME TypeOK, Served, BrowserRestarts
  PROVE  Served'
<1>1. ready' = FALSE /\ timers' = 0 /\ asks' = 0
  BY DEF BrowserRestarts
<1>2. jobs' # <<>> => pending' = "pins"
  BY DEF BrowserRestarts
<1> QED
  BY <1>1, <1>2 DEF Served, JobsAreServed

LEMMA NextServed ==
  ASSUME TypeOK, Served, Next
  PROVE  Served'
<1>1. CASE \E t \in Tokens : UserChanges(t)
  BY <1>1, UserChangesServed
<1>2. CASE TokenNewsArrives
  BY <1>2, TokenNewsArrivesServed
<1>3. CASE \E i \in Intents : RetryFires(i)
  BY <1>3, RetryFiresServed
<1>4. CASE SwitchOn
  BY <1>4, SwitchOnServed
<1>5. CASE SwitchOff
  BY <1>5, SwitchOffServed
<1>6. CASE \E f \in Fetches : MetadataArrives(f)
  BY <1>6, MetadataArrivesServed
<1>7. CASE \E f \in Fetches, why \in {"failed", "refused"} : MetadataFails(f, why)
  BY <1>7, MetadataFailsServed
<1>8. CASE \E r \in Requests : NodeAnswers(r)
  BY <1>8, NodeAnswersServed
<1>9. CASE \E r \in Requests : NodeFails(r)
  BY <1>9, NodeFailsServed
<1>10. CASE GcSweeps
  BY <1>10, GcSweepsServed
<1>11. CASE JobFinishes
  BY <1>11, JobFinishesServed
<1>12. CASE GcTimerFires
  BY <1>12, GcTimerFiresServed
<1>13. CASE NodeLaunches
  BY <1>13, NodeLaunchesServed
<1>14. CASE NodeFailsToLaunch
  BY <1>14, NodeFailsToLaunchServed
<1>15. CASE OnExecutableReady
  BY <1>15, OnExecutableReadyServed
<1>16. CASE OthersLaunch
  BY <1>16, OthersLaunchServed
<1>17. CASE UserStopsNode
  BY <1>17, UserStopsNodeServed
<1>18. CASE RestartDaemon
  BY <1>18, RestartDaemonServed
<1>19. CASE NodeCrashes
  BY <1>19, NodeCrashesServed
<1>20. CASE PollTimer
  BY <1>20, PollTimerServed
<1>21. CASE \E success \in BOOLEAN : PeersAnswer(success)
  BY <1>21, PeersAnswerServed
<1>22. CASE UserResetsWallet
  BY <1>22, UserResetsWalletServed
<1>23. CASE ResetNewsArrives
  BY <1>23, ResetNewsArrivesServed
<1>24. CASE CliLists
  BY <1>24, CliListsServed
<1>25. CASE \E c \in Cids : CliRemoves(c)
  BY <1>25, CliRemovesServed
<1>26. CASE CliFails
  BY <1>26, CliFailsServed
<1>27. CASE BrowserRestarts
  BY <1>27, BrowserRestartsServed
<1> QED
  BY <1>1, <1>2, <1>3, <1>4, <1>5, <1>6, <1>7, <1>8, <1>9, <1>10, <1>11,
     <1>12, <1>13, <1>14, <1>15, <1>16, <1>17, <1>18, <1>19, <1>20, <1>21,
     <1>22, <1>23, <1>24, <1>25, <1>26, <1>27
     DEF Next

\* As long as the node is not lost, a job never waits without something under
\* way that will get it served: the launch that calls the queue back or a poll.
THEOREM WaitingJobsServed == Spec => []JobsAreServed
<1>1. Init => Served
  BY DEF Init, PinJobInit, Served, JobsAreServed
<1>2. TypeOK /\ Served /\ [Next]_vars => Served'
  <2>1. ASSUME Served, UNCHANGED vars
        PROVE  Served'
    BY <2>1 DEF vars, daemonVars, pinJobVars, Served, JobsAreServed, Lost
  <2> QED
    BY <2>1, NextServed
<1>3. Served => JobsAreServed
  BY DEF Served
<1> QED
  BY <1>1, <1>2, <1>3, TypeCorrect, PTL DEF Spec

-----------------------------------------------------------------------------
(* The queue and the tokens: the argument of QueueAgrees *)

Agree(q, c, toks) ==
  \A k \in DOMAIN q :
    /\ (q[k].op = "delete") <=> (q[k].token \notin toks)
    /\ q[k] # c
    /\ \A m \in DOMAIN q : q[m] = q[k] => m = k

\* With nothing running there is nothing for the queue to repeat.
LEMMA AgreeIdle ==
  ASSUME NEW q \in Seq(Intents), NEW c, NEW toks, Agree(q, c, toks)
  PROVE  Agree(q, NoIntent, toks)
<1>1. \A k \in DOMAIN q : q[k] \in Intents
  BY ElementOfSeq, LenProperties
<1> QED
  BY <1>1, NoIntentIsNone DEF Agree

\* The intent that CheckQueue starts is not among the later ones.
LEMMA CheckQueueAgrees ==
  ASSUME NEW c, NEW q \in Seq(Intents), NEW st, NEW toks, Agree(q, c, toks)
  PROVE  Agree(CheckQueue(c, q, st).queue, CheckQueue(c, q, st).current, toks)
<1> DEFINE d == CheckQueue(c, q, st)
<1>1. CASE d = NotStarted(c, q, st)
  BY <1>1 DEF NotStarted
<1>2. CASE d = NotStarted(c, <<>>, st)
  <2>1. d.queue = <<>>
    BY <1>2 DEF NotStarted
  <2> HIDE DEF d
  <2>2. Agree(<<>>, d.current, toks)
    BY DEF Agree
  <2> QED
    BY <2>1, <2>2 DEF d
<1>3. ASSUME NEW n \in 1 .. Len(q),
             d = StartedFrom(q[n], SubSeq(q, n + 1, Len(q)), st)
      PROVE  Agree(d.queue, d.current, toks)
  <2> DEFINE r == SubSeq(q, n + 1, Len(q))
  <2>1. Len(q) \in Nat /\ n \in 0 .. Len(q) /\ DOMAIN q = 1 .. Len(q)
    BY LenProperties
  <2>2. /\ r \in Seq(Intents)
        /\ Len(r) = Len(q) - n
        /\ \A k \in 1 .. Len(q) - n : r[k] = q[n + k]
    BY <2>1, EndOfSeq
  <2>3. d.queue = r /\ d.current = q[n]
    BY <1>3 DEF StartedFrom
  <2> HIDE DEF d, r
  <2>4. DOMAIN r = 1 .. Len(q) - n
    BY <2>2, LenProperties
  <2>5. ASSUME NEW k \in DOMAIN r
        PROVE  /\ (r[k].op = "delete") <=> (r[k].token \notin toks)
               /\ r[k] # q[n]
               /\ \A m \in DOMAIN r : r[m] = r[k] => m = k
    <3>1. n + k \in DOMAIN q /\ n \in DOMAIN q /\ n + k # n /\ r[k] = q[n + k]
      BY <2>1, <2>2, <2>4
    <3>2. ASSUME NEW m \in DOMAIN r, r[m] = r[k]
          PROVE  m = k
      <4>1. n + m \in DOMAIN q /\ r[m] = q[n + m]
        BY <2>1, <2>2, <2>4
      <4>2. n + m = n + k
        BY <3>1, <3>2, <4>1 DEF Agree
      <4> QED
        BY <2>1, <2>4, <4>2
    <3> QED
      BY <3>1, <3>2 DEF Agree
  <2> QED
    BY <2>3, <2>5 DEF Agree
<1> HIDE DEF d
<1> QED
  BY <1>1, <1>2, <1>3, CheckQueueEffect DEF d

\* AddOrExecute lets in what the queue does not hold and the tokens ask for.
LEMMA AcceptedAgrees ==
  ASSUME NEW i \in Intents, NEW c, NEW q \in Seq(Intents), NEW toks,
         Agree(q, c, toks), IsAccepted(i, c, q, toks)
  PROVE  Agree(Append(q, i), c, toks)
<1> DEFINE a == Append(q, i)
<1>1. Len(q) \in Nat /\ DOMAIN q = 1 .. Len(q)
  BY LenProperties
<1>2. /\ a \in Seq(Intents)
      /\ Len(a) = Len(q) + 1
      /\ \A k \in 1 .. Len(q) : a[k] = q[k]
      /\ a[Len(q) + 1] = i
  BY AppendProperties
<1> HIDE DEF a
<1>3. DOMAIN a = 1 .. Len(q) + 1
  BY <1>2, LenProperties
<1>4. ASSUME NEW k \in DOMAIN a
      PROVE  \/ k \in DOMAIN q /\ a[k] = q[k]
             \/ k = Len(q) + 1 /\ a[k] = i
  BY <1>1, <1>2, <1>3
<1>5. Len(q) + 1 \notin DOMAIN q
  BY <1>1
<1>6. /\ \A k \in DOMAIN q : q[k] # i
      /\ c # i
      /\ (i.op = "delete") <=> (i.token \notin toks)
  BY DEF IsAccepted
<1>7. Agree(a, c, toks)
  BY <1>4, <1>5, <1>6 DEF Agree
<1> QED
  BY <1>7 DEF a

\* AddOrExecute leaves the queue and the tokens agreeing.
LEMMA AddOrExecuteAgrees ==
  ASSUME NEW i \in Intents, NEW c, NEW q \in Seq(Intents), NEW st, NEW toks,
         Agree(q, c, toks)
  PROVE  LET d == AddOrExecute(i, c, q, st, toks)
         IN  Agree(d.queue, d.current, toks)
<1>1. CASE ~IsAccepted(i, c, q, toks)
  BY <1>1, CheckQueueAgrees DEF AddOrExecute
<1>2. CASE IsAccepted(i, c, q, toks)
  <2>1. Append(q, i) \in Seq(Intents) /\ Agree(Append(q, i), c, toks)
    BY <1>2, AcceptedAgrees, AppendProperties
  <2> QED
    BY <1>2, <2>1, CheckQueueAgrees DEF AddOrExecute
<1> QED
  BY <1>1, <1>2

\* The intents of other tokens are as good as they were when t comes or goes.
LEMMA WithoutAgrees ==
  ASSUME NEW t, NEW q \in Seq(Intents), NEW c, NEW old, NEW new,
         old \ {t} = new \ {t}, Agree(q, c, old)
  PROVE  Agree(Without(t, q), c, new)
<1> DEFINE w == Without(t, q)
<1>1. PICK f \in [DOMAIN w -> DOMAIN q] :
        /\ \A n \in DOMAIN w : w[n] = q[f[n]] /\ q[f[n]].token # t
        /\ \A m, n \in DOMAIN w : f[m] = f[n] => m = n
  BY WithoutEffect
<1> HIDE DEF w
<1>2. ASSUME NEW n \in DOMAIN w
      PROVE  /\ (w[n].op = "delete") <=> (w[n].token \notin new)
             /\ w[n] # c
             /\ \A m \in DOMAIN w : w[m] = w[n] => m = n
  <2>1. f[n] \in DOMAIN q /\ w[n] = q[f[n]] /\ q[f[n]].token # t
    BY <1>1
  <2>2. (w[n].token \in new) <=> (w[n].token \in old)
    BY <2>1
  <2>3. ASSUME NEW m \in DOMAIN w, w[m] = w[n]
        PROVE  m = n
    <3>1. f[m] \in DOMAIN q /\ w[m] = q[f[m]]
      BY <1>1
    <3>2. f[m] = f[n]
      BY <2>1, <2>3, <3>1 DEF Agree
    <3> QED
      BY <1>1, <3>2
  <2> QED
    BY <2>1, <2>2, <2>3 DEF Agree
<1>3. Agree(w, c, new)
  BY <1>2 DEF Agree
<1> QED
  BY <1>3 DEF w

\* A list of a set names no element twice.
LEMMA OrderOnce ==
  ASSUME NEW S, IsFiniteSet(S), NEW s \in Orders(S)
  PROVE  /\ DOMAIN s = 1 .. Cardinality(S)
         /\ \A k \in DOMAIN s : s[k] \in S
         /\ \A m, k \in DOMAIN s : s[m] = s[k] => m = k
<1> DEFINE n == Cardinality(S)
<1>1. n \in Nat
  BY FS_CardinalityType
<1>2. IsFiniteSet(1 .. n) /\ Cardinality(1 .. n) = n
  <2> HIDE DEF n
  <2> QED
    BY <1>1, FS_Interval, 0 \in Int, 1 \in Int, n \in Int
<1>3. s \in [1 .. n -> S] /\ \A x \in S : \E k \in 1 .. n : s[k] = x
  BY DEF Orders
<1>4. s \in Surjection(1 .. n, S)
  BY <1>3 DEF Surjection
<1>5. s \in Injection(1 .. n, S)
  BY <1>2, <1>4, FS_SurjSameCardinalityImpliesInj
<1> HIDE DEF n
<1>6. DOMAIN s = 1 .. n /\ (\A k \in 1 .. n : s[k] \in S)
      /\ \A m, k \in 1 .. n : s[m] = s[k] => m = k
  BY <1>3, <1>5 DEF Injection, IsInjective
<1> QED
  BY <1>6 DEF n

\* What Restore queues agrees with the wallet it has read.
LEMMA ListsAgree ==
  ASSUME NEW st, wallet \subseteq Tokens,
         NEW due \in SUBSET {t \in wallet : st[t] = "pinned"},
         NEW ws \in Orders(Wishes(due, st)), NEW us \in Orders(Unwanted(st))
  PROVE  ws \o us \in Seq(Intents) /\ Agree(ws \o us, NoIntent, wallet)
<1>1. /\ ws \in Seq(Intents) /\ us \in Seq(Intents)
      /\ Wishes(due, st) \subseteq Intents /\ Unwanted(st) \subseteq Intents
      /\ IsFiniteSet(Wishes(due, st)) /\ IsFiniteSet(Unwanted(st))
  BY WishesType, OrdersType, SeqMonotonic
<1> DEFINE q == ws \o us
<1>2. /\ q \in Seq(Intents)
      /\ Len(ws) \in Nat /\ Len(us) \in Nat
      /\ Len(q) = Len(ws) + Len(us)
      /\ \A k \in 1 .. Len(ws) + Len(us) :
           q[k] = IF k <= Len(ws) THEN ws[k] ELSE us[k - Len(ws)]
  BY <1>1, ConcatProperties, LenProperties
<1> HIDE DEF q
<1>3. DOMAIN q = 1 .. Len(ws) + Len(us) /\ DOMAIN ws = 1 .. Len(ws)
      /\ DOMAIN us = 1 .. Len(us)
  BY <1>1, <1>2, LenProperties
<1>4. ASSUME NEW k \in DOMAIN q
      PROVE  \/ k \in DOMAIN ws /\ q[k] = ws[k]
             \/ /\ k - Len(ws) \in DOMAIN us /\ q[k] = us[k - Len(ws)]
                /\ k \notin DOMAIN ws
  BY <1>2, <1>3
<1>5. \A k \in DOMAIN ws : ws[k].op # "delete" /\ ws[k].token \in wallet
  <2>1. \A i \in Wishes(due, st) : i.op # "delete" /\ i.token \in wallet
    BY DEF Wishes
  <2> QED
    BY <1>1, <2>1, OrderOnce
<1>6. \A k \in DOMAIN us : us[k].op = "delete" /\ us[k].token \notin wallet
  <2>1. \A i \in Unwanted(st) : i.op = "delete" /\ i.token \notin wallet
    BY DEF Unwanted
  <2> QED
    BY <1>1, <2>1, OrderOnce
<1>7. /\ \A m, k \in DOMAIN ws : ws[m] = ws[k] => m = k
      /\ \A m, k \in DOMAIN us : us[m] = us[k] => m = k
  BY <1>1, OrderOnce
<1>8. ASSUME NEW k \in DOMAIN q
       PROVE  /\ (q[k].op = "delete") <=> (q[k].token \notin wallet)
              /\ q[k] # NoIntent
              /\ \A m \in DOMAIN q : q[m] = q[k] => m = k
  <2>1. (q[k].op = "delete") <=> (q[k].token \notin wallet)
    BY <1>4, <1>5, <1>6
  <2>2. q[k] # NoIntent
    BY <1>2, <1>3, ElementOfSeq, NoIntentIsNone
  <2>3. ASSUME NEW m \in DOMAIN q, q[m] = q[k]
        PROVE  m = k
    <3>1. CASE k \in DOMAIN ws /\ q[k] = ws[k]
      BY <1>4, <1>5, <1>6, <1>7, <2>3, <3>1
    <3>2. CASE /\ k - Len(ws) \in DOMAIN us /\ q[k] = us[k - Len(ws)]
               /\ k \notin DOMAIN ws
      <4>1. m - Len(ws) \in DOMAIN us /\ q[m] = us[m - Len(ws)]
        BY <1>4, <1>5, <1>6, <2>3, <3>2
      <4>2. m - Len(ws) = k - Len(ws)
        BY <1>7, <2>3, <3>2, <4>1
      <4> QED
        BY <1>2, <1>3, <4>2
    <3> QED
      BY <1>4, <3>1, <3>2
  <2> QED
    BY <2>1, <2>2, <2>3
<1>9. Agree(q, NoIntent, wallet)
  BY <1>8 DEF Agree
<1> QED
  BY <1>2, <1>9 DEF q

\* Starting the first of it leaves the queue agreeing with the wallet.
LEMMA RestoredAgrees ==
  ASSUME NEW st, wallet \subseteq Tokens, NEW d \in Restored(st)
  PROVE  Agree(d.queue, d.current, wallet)
<1> DEFINE marked == [t \in Tokens |->
        IF t \in wallet
        THEN IF st[t] \in {"pinned", "refused"} THEN st[t] ELSE "pinning_pending"
        ELSE IF st[t] = "none" THEN "none" ELSE "unpinning_pending"]
<1>1. PICK due \in SUBSET {t \in wallet : st[t] = "pinned"} :
        \E ws \in Orders(Wishes(due, st)), us \in Orders(Unwanted(st)) :
          d = CheckQueue(NoIntent, ws \o us, marked)
  BY DEF Restored
<1>2. PICK ws \in Orders(Wishes(due, st)), us \in Orders(Unwanted(st)) :
        d = CheckQueue(NoIntent, ws \o us, marked)
  BY <1>1
<1>3. ws \o us \in Seq(Intents) /\ Agree(ws \o us, NoIntent, wallet)
  BY ListsAgree
<1> HIDE DEF marked
<1> QED
  BY <1>2, <1>3, CheckQueueAgrees

LEMMA AgreeSame ==
  ASSUME QueueAgrees, UNCHANGED <<queue, current, tokens>>
  PROVE  QueueAgrees'
BY DEF QueueAgrees

LEMMA UserChangesAgrees ==
  ASSUME TypeOK, QueueAgrees, NEW t \in Tokens, UserChanges(t)
  PROVE  QueueAgrees'
BY AgreeSame DEF UserChanges, autoPinVars

LEMMA TokenNewsArrivesAgrees ==
  ASSUME TypeOK, QueueAgrees, TokenNewsArrives
  PROVE  QueueAgrees'
<1> DEFINE t == Head(news).token
           added == Head(news).added
           toks == IF added THEN tokens \cup {t} ELSE tokens \ {t}
           i == [op |-> IF added THEN "add" ELSE "delete", token |-> t]
           w == Without(t, queue)
           d == AddOrExecute(i, current, w, status, toks)
<1>1. queue \in Seq(Intents) /\ Agree(queue, current, tokens)
  BY DEF TypeOK, QueueAgrees, Agree
<1>2. CASE ~enabled
  BY <1>2, AgreeSame DEF TokenNewsArrives
<1>3. CASE enabled
  <2>1. news \in Seq([added: BOOLEAN, token: Tokens]) /\ news # <<>>
    BY DEF TypeOK, TokenNewsArrives
  <2>2. Head(news) \in [added: BOOLEAN, token: Tokens]
    BY <2>1, HeadTailProperties
  <2>3. i \in Intents
    BY <2>2 DEF Intents
  <2>4. w \in Seq(Intents)
    BY <1>1, WithoutEffect
  <2>5. tokens \ {t} = toks \ {t}
    OBVIOUS
  <2>6. tokens' = toks /\ Dispatched(d, fetches)
    BY <1>3 DEF TokenNewsArrives
  <2> HIDE DEF t, added, toks, i
  <2>7. Agree(w, current, toks)
    BY <1>1, <2>5, WithoutAgrees
  <2>8. Agree(d.queue, d.current, toks)
    <3> HIDE DEF w
    <3> QED
      BY <2>3, <2>4, <2>7, AddOrExecuteAgrees
  <2> HIDE DEF d
  <2> QED
    BY <2>6, <2>8 DEF Dispatched, QueueAgrees, Agree
<1> QED
  BY <1>2, <1>3

LEMMA RetryFiresAgrees ==
  ASSUME TypeOK, QueueAgrees, NEW i \in Intents, RetryFires(i)
  PROVE  QueueAgrees'
<1> DEFINE d == AddOrExecute(i, current, queue, status, tokens)
<1>1. queue \in Seq(Intents) /\ Agree(queue, current, tokens)
  BY DEF TypeOK, QueueAgrees, Agree
<1>2. Agree(d.queue, d.current, tokens)
  BY <1>1, AddOrExecuteAgrees
<1>3. Dispatched(d, fetches) /\ tokens' = tokens
  BY DEF RetryFires
<1> HIDE DEF d
<1> QED
  BY <1>2, <1>3 DEF Dispatched, QueueAgrees, Agree

LEMMA SwitchOnAgrees ==
  ASSUME TypeOK, QueueAgrees, SwitchOn
  PROVE  QueueAgrees'
<1>1. PICK d \in Restored(status) : Dispatched(d, fetches)
  BY DEF SwitchOn
<1>2. tokens' = wallet
  BY DEF SwitchOn
<1>3. Agree(d.queue, d.current, wallet)
  BY RestoredAgrees DEF TypeOK
<1> QED
  BY <1>1, <1>2, <1>3 DEF Dispatched, QueueAgrees, Agree

LEMMA SwitchOffAgrees ==
  ASSUME TypeOK, QueueAgrees, SwitchOff
  PROVE  QueueAgrees'
<1>1. queue' = <<>>
  BY DEF SwitchOff, ForgetIntents
<1> QED
  BY <1>1 DEF QueueAgrees

LEMMA MetadataArrivesAgrees ==
  ASSUME TypeOK, QueueAgrees, NEW f \in Fetches, MetadataArrives(f)
  PROVE  QueueAgrees'
BY AgreeSame DEF MetadataArrives, autoPinVars

LEMMA MetadataFailsAgrees ==
  ASSUME TypeOK, QueueAgrees, NEW f \in Fetches, NEW why \in {"failed", "refused"}, MetadataFails(f, why)
  PROVE  QueueAgrees'
<1> DEFINE st == [status EXCEPT ![f.token] = why]
           d == CheckQueue(NoIntent, queue, st)
<1>1. queue \in Seq(Intents) /\ Agree(queue, current, tokens)
  BY DEF TypeOK, QueueAgrees, Agree
<1>2. Agree(d.queue, d.current, tokens)
  <2> HIDE DEF st
  <2> QED
    BY <1>1, AgreeIdle, CheckQueueAgrees
<1>3. tokens' = tokens
      /\ (Dispatched(d, fetches \ {f}) \/ UNCHANGED <<queue, current>>)
  BY DEF MetadataFails
<1> HIDE DEF d
<1>4. CASE UNCHANGED <<queue, current>>
  BY <1>3, <1>4, AgreeSame
<1>5. CASE Dispatched(d, fetches \ {f})
  BY <1>2, <1>3, <1>5 DEF Dispatched, QueueAgrees, Agree
<1> QED
  BY <1>3, <1>4, <1>5

LEMMA NodeAnswersAgrees ==
  ASSUME TypeOK, QueueAgrees, NEW r \in Requests, NodeAnswers(r)
  PROVE  QueueAgrees'
BY AgreeSame DEF NodeAnswers, autoPinVars

LEMMA NodeFailsAgrees ==
  ASSUME TypeOK, QueueAgrees, NEW r \in Requests, NodeFails(r)
  PROVE  QueueAgrees'
BY AgreeSame DEF NodeFails, autoPinVars

LEMMA GcSweepsAgrees ==
  ASSUME TypeOK, QueueAgrees, GcSweeps
  PROVE  QueueAgrees'
BY AgreeSame DEF GcSweeps, autoPinVars

LEMMA JobFinishesAgrees ==
  ASSUME TypeOK, QueueAgrees, JobFinishes
  PROVE  QueueAgrees'
<1> DEFINE w == job.what
           st == CASE w.kind = "add" ->
                      [status EXCEPT ![w.token] =
                         IF job.ok THEN "pinned" ELSE "failed"]
                 [] w.kind = "remove" -> [status EXCEPT ![w.token] = "none"]
                 [] w.kind = "verify" ->
                      [status EXCEPT ![w.token] =
                         IF job.ok THEN "pinned" ELSE "pinning"]
                 [] w.kind = "gc" -> status
           d == IF ~w.live
               THEN [current |-> current, queue |-> queue, status |-> st,
                     fetch |-> {}, work |-> <<>>]
               ELSE IF w.kind = "verify" /\ ~job.ok
               THEN AddOrExecute([op |-> "add", token |-> w.token], NoIntent,
                                 queue, st, tokens)
               ELSE CheckQueue(NoIntent, queue, st)
<1>1. queue \in Seq(Intents) /\ Agree(queue, current, tokens)
  BY DEF TypeOK, QueueAgrees, Agree
<1>2. Agree(queue, NoIntent, tokens)
  BY <1>1, AgreeIdle
<1>3. Dispatched(d, fetches) /\ tokens' = tokens
  BY DEF JobFinishes
<1>4. Agree(d.queue, d.current, tokens)
  <2> HIDE DEF st
  <2>1. CASE ~w.live
    BY <1>1, <2>1
  <2>2. CASE w.live /\ w.kind = "verify" /\ ~job.ok
    <3>1. [op |-> "add", token |-> w.token] \in Intents
      BY <2>2 DEF TypeOK, PinJobTypeOK, Running, NoJob, Nothing, GcJob, Work,
                  Intents
    <3>2. LET e == AddOrExecute([op |-> "add", token |-> w.token], NoIntent,
                                queue, st, tokens)
          IN  Agree(e.queue, e.current, tokens)
      BY <1>1, <1>2, <3>1, AddOrExecuteAgrees
    <3> QED
      BY <2>2, <3>2
  <2>3. CASE w.live /\ ~(w.kind = "verify" /\ ~job.ok)
    BY <1>1, <1>2, <2>3, CheckQueueAgrees
  <2> QED
    BY <2>1, <2>2, <2>3
<1> HIDE DEF d, st
<1> QED
  BY <1>3, <1>4 DEF Dispatched, QueueAgrees, Agree

LEMMA GcTimerFiresAgrees ==
  ASSUME TypeOK, QueueAgrees, GcTimerFires
  PROVE  QueueAgrees'
BY AgreeSame DEF GcTimerFires, autoPinVars

LEMMA NodeLaunchesAgrees ==
  ASSUME TypeOK, QueueAgrees, NodeLaunches
  PROVE  QueueAgrees'
BY AgreeSame DEF NodeLaunches, autoPinVars

LEMMA NodeFailsToLaunchAgrees ==
  ASSUME TypeOK, QueueAgrees, NodeFailsToLaunch
  PROVE  QueueAgrees'
BY AgreeSame DEF NodeFailsToLaunch, autoPinVars

LEMMA OnExecutableReadyAgrees ==
  ASSUME TypeOK, QueueAgrees, OnExecutableReady
  PROVE  QueueAgrees'
BY AgreeSame DEF OnExecutableReady, autoPinVars

LEMMA OthersLaunchAgrees ==
  ASSUME TypeOK, QueueAgrees, OthersLaunch
  PROVE  QueueAgrees'
BY AgreeSame DEF OthersLaunch, autoPinVars

LEMMA UserStopsNodeAgrees ==
  ASSUME TypeOK, QueueAgrees, UserStopsNode
  PROVE  QueueAgrees'
BY AgreeSame DEF UserStopsNode, autoPinVars

LEMMA RestartDaemonAgrees ==
  ASSUME TypeOK, QueueAgrees, RestartDaemon
  PROVE  QueueAgrees'
BY AgreeSame DEF RestartDaemon, autoPinVars

LEMMA NodeCrashesAgrees ==
  ASSUME TypeOK, QueueAgrees, NodeCrashes
  PROVE  QueueAgrees'
BY AgreeSame DEF NodeCrashes, autoPinVars

LEMMA PollTimerAgrees ==
  ASSUME TypeOK, QueueAgrees, PollTimer
  PROVE  QueueAgrees'
BY AgreeSame DEF PollTimer, autoPinVars

LEMMA PeersAnswerAgrees ==
  ASSUME TypeOK, QueueAgrees, NEW success \in BOOLEAN, PeersAnswer(success)
  PROVE  QueueAgrees'
BY AgreeSame DEF PeersAnswer, autoPinVars

LEMMA UserResetsWalletAgrees ==
  ASSUME TypeOK, QueueAgrees, UserResetsWallet
  PROVE  QueueAgrees'
BY AgreeSame DEF UserResetsWallet, autoPinVars

LEMMA ResetNewsArrivesAgrees ==
  ASSUME TypeOK, QueueAgrees, ResetNewsArrives
  PROVE  QueueAgrees'
<1>1. queue' = <<>>
  BY DEF ResetNewsArrives, ForgetIntents
<1> QED
  BY <1>1 DEF QueueAgrees

LEMMA CliListsAgrees ==
  ASSUME TypeOK, QueueAgrees, CliLists
  PROVE  QueueAgrees'
BY AgreeSame DEF CliLists, autoPinVars

LEMMA CliRemovesAgrees ==
  ASSUME TypeOK, QueueAgrees, NEW c \in Cids, CliRemoves(c)
  PROVE  QueueAgrees'
BY AgreeSame DEF CliRemoves, autoPinVars

LEMMA CliFailsAgrees ==
  ASSUME TypeOK, QueueAgrees, CliFails
  PROVE  QueueAgrees'
BY AgreeSame DEF CliFails, autoPinVars

LEMMA BrowserRestartsAgrees ==
  ASSUME TypeOK, QueueAgrees, BrowserRestarts
  PROVE  QueueAgrees'
<1>1. CASE enabled
  <2>1. PICK d \in Restored(status) : Dispatched(d, {})
    BY <1>1 DEF BrowserRestarts
  <2>2. tokens' = wallet
    BY <1>1 DEF BrowserRestarts
  <2>3. Agree(d.queue, d.current, wallet)
    BY RestoredAgrees DEF TypeOK
  <2> QED
    BY <2>1, <2>2, <2>3 DEF Dispatched, QueueAgrees, Agree
<1>2. CASE ~enabled
  <2> DEFINE d == CheckQueue(NoIntent, <<>>, status)
  <2>1. Dispatched(d, {})
    BY <1>2 DEF BrowserRestarts
  <2>2. Agree(d.queue, d.current, tokens')
    <3>1. <<>> \in Seq(Intents) /\ Agree(<<>>, NoIntent, tokens')
      BY EmptySeq DEF Agree
    <3> QED
      BY <3>1, CheckQueueAgrees
  <2> HIDE DEF d
  <2> QED
    BY <2>1, <2>2 DEF Dispatched, QueueAgrees, Agree
<1> QED
  BY <1>1, <1>2

LEMMA NextAgrees ==
  ASSUME TypeOK, QueueAgrees, Next
  PROVE  QueueAgrees'
<1>1. CASE \E t \in Tokens : UserChanges(t)
  BY <1>1, UserChangesAgrees
<1>2. CASE TokenNewsArrives
  BY <1>2, TokenNewsArrivesAgrees
<1>3. CASE \E i \in Intents : RetryFires(i)
  BY <1>3, RetryFiresAgrees
<1>4. CASE SwitchOn
  BY <1>4, SwitchOnAgrees
<1>5. CASE SwitchOff
  BY <1>5, SwitchOffAgrees
<1>6. CASE \E f \in Fetches : MetadataArrives(f)
  BY <1>6, MetadataArrivesAgrees
<1>7. CASE \E f \in Fetches, why \in {"failed", "refused"} : MetadataFails(f, why)
  BY <1>7, MetadataFailsAgrees
<1>8. CASE \E r \in Requests : NodeAnswers(r)
  BY <1>8, NodeAnswersAgrees
<1>9. CASE \E r \in Requests : NodeFails(r)
  BY <1>9, NodeFailsAgrees
<1>10. CASE GcSweeps
  BY <1>10, GcSweepsAgrees
<1>11. CASE JobFinishes
  BY <1>11, JobFinishesAgrees
<1>12. CASE GcTimerFires
  BY <1>12, GcTimerFiresAgrees
<1>13. CASE NodeLaunches
  BY <1>13, NodeLaunchesAgrees
<1>14. CASE NodeFailsToLaunch
  BY <1>14, NodeFailsToLaunchAgrees
<1>15. CASE OnExecutableReady
  BY <1>15, OnExecutableReadyAgrees
<1>16. CASE OthersLaunch
  BY <1>16, OthersLaunchAgrees
<1>17. CASE UserStopsNode
  BY <1>17, UserStopsNodeAgrees
<1>18. CASE RestartDaemon
  BY <1>18, RestartDaemonAgrees
<1>19. CASE NodeCrashes
  BY <1>19, NodeCrashesAgrees
<1>20. CASE PollTimer
  BY <1>20, PollTimerAgrees
<1>21. CASE \E success \in BOOLEAN : PeersAnswer(success)
  BY <1>21, PeersAnswerAgrees
<1>22. CASE UserResetsWallet
  BY <1>22, UserResetsWalletAgrees
<1>23. CASE ResetNewsArrives
  BY <1>23, ResetNewsArrivesAgrees
<1>24. CASE CliLists
  BY <1>24, CliListsAgrees
<1>25. CASE \E c \in Cids : CliRemoves(c)
  BY <1>25, CliRemovesAgrees
<1>26. CASE CliFails
  BY <1>26, CliFailsAgrees
<1>27. CASE BrowserRestarts
  BY <1>27, BrowserRestartsAgrees
<1> QED
  BY <1>1, <1>2, <1>3, <1>4, <1>5, <1>6, <1>7, <1>8, <1>9, <1>10, <1>11,
     <1>12, <1>13, <1>14, <1>15, <1>16, <1>17, <1>18, <1>19, <1>20, <1>21,
     <1>22, <1>23, <1>24, <1>25, <1>26, <1>27
     DEF Next

\* The queue agrees with the tokens the service knows: for each of them it holds
\* no wish that was taken back, and no intent twice or while it is running.
THEOREM QueueAgreesAlways == Spec => []QueueAgrees
<1>1. Init => QueueAgrees
  BY DEF Init, QueueAgrees
<1>2. TypeOK /\ QueueAgrees /\ [Next]_vars => QueueAgrees'
  BY NextAgrees, AgreeSame DEF vars, autoPinVars
<1> QED
  BY <1>1, <1>2, TypeCorrect, PTL DEF Spec

=============================================================================
