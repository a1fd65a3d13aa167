---------------------------- MODULE IpfsPinJobs -----------------------------
(***************************************************************************)
(* IpfsLocalPinService and the IpfsBasePinService it queues its jobs with. *)
(* A job runs only while the queue believes the node is ready; jobs run    *)
(* one at a time.                                                          *)
(*                                                                         *)
(* Some jobs end inside Start(): a removal touches only the record, and a  *)
(* request to a node that is not up is refused before AddPin, GetPins or   *)
(* RemovePin return.  Such a job, and one whose last answer has come, is   *)
(* Returning: its callbacks run in the task that brought it there.  Every  *)
(* action but the ones that finish it is disabled meanwhile, so that a     *)
(* chain of nested callbacks is a run of steps nothing can interrupt.      *)
(*                                                                         *)
(* A definition marked FAULT is not part of the model: it is a way its     *)
(* neighbour could be wrong, kept to show that a property would notice.    *)
(***************************************************************************)
EXTENDS IpfsDaemon

CONSTANTS
  Tokens,    \* NFTs
  PinsOf,    \* the pins of the metadata and the image of each
  MaxPolls   \* bound: polls of one kind outstanding; one more is the same

ASSUME PinJobsAssumption ==
  /\ IsFiniteSet(Tokens)
  /\ PinsOf \in [Tokens -> SUBSET Pins]
  /\ MaxPolls \in Nat \ {0}

VARIABLES
  ready,      \* daemon_ready_
  timers,     \* delayed GetConnectedPeers tasks
  asks,       \* GetConnectedPeers requests in flight
  jobs,       \* jobs_
  job,        \* current_job_ and what it waits for
  recorded,   \* kIPFSPinnedCids: which tokens need a pin
  gcPosted,   \* gc_task_posted_
  gcTimers,   \* delayed AddGcTask tasks
  cli         \* the removal of all pins with the command line client

pinJobVars ==
  <<ready, timers, asks, jobs, job, recorded, gcPosted, gcTimers, cli>>

\* live: the auto-pin service still waits for the callback
Work  == [kind: {"add", "remove", "verify"}, token: Tokens, live: BOOLEAN]
GcJob == [kind |-> "gc", live |-> FALSE]
Nothing == [kind |-> "none", live |-> FALSE]

Requests == Modes \cup {"pins", "sweep"}

\* seen: what the node listed; sweep: what the job asked it to unpin
NoJob == [what |-> Nothing, wait |-> {}, ok |-> TRUE, seen |-> {}, sweep |-> {}]

Running ==
  [what: Work \cup {GcJob}, wait: SUBSET Requests, ok: BOOLEAN,
   seen: SUBSET Cids, sweep: SUBSET Cids]

PinJobTypeOK ==
  /\ ready \in BOOLEAN
  /\ timers \in 0 .. MaxPolls
  /\ asks \in 0 .. MaxPolls
  /\ jobs \in Seq(Work \cup {GcJob})
  /\ job \in Running \cup {NoJob}
  /\ recorded \in [Pins -> SUBSET Tokens]
  /\ gcPosted \in BOOLEAN
  /\ gcTimers \in 0 .. MaxPolls
  /\ cli \in [step: {"never", "ls", "rm", "done", "failed"}, left: SUBSET Cids]

PinJobInit ==
  /\ ready = FALSE
  /\ timers = 0
  /\ asks = 0
  /\ jobs = <<>>
  /\ job = NoJob
  /\ recorded = [p \in Pins |-> {}]
  /\ gcPosted = FALSE
  /\ gcTimers = 0
  /\ cli = [step |-> "never", left |-> {}]

OneMore(n) == IF n < MaxPolls THEN n + 1 ELSE n

Returning == job # NoJob /\ job.wait = {}

-----------------------------------------------------------------------------
(* The queue. *)

\* What Start() asks the node.
Asked(w) ==
  CASE w.kind = "add"    -> {p[2] : p \in PinsOf[w.token]}
    [] w.kind = "verify" -> {"pins"}
    [] w.kind = "gc"     -> Modes
    [] w.kind = "remove" -> {}

Started(w) ==
  [what |-> w, wait |-> IF up THEN Asked(w) ELSE {},
   ok |-> up \/ w.kind = "remove", seen |-> {}, sweep |-> {}]

\* MaybeStartDaemon, for a queue that is not ready and holds a job.
MaybeStartDaemon ==
  IF up
  THEN timers' = OneMore(timers) /\ UNCHANGED <<bound, pending>>
  ELSE LaunchDaemon("pins") /\ UNCHANGED timers

DoNextJobIfReady(js, isReady) == \* FAULT: for DoNextJob, the node is not started
  IF js # <<>> /\ isReady
  THEN /\ job' = Started(Head(js))
       /\ jobs' = Tail(js)
       /\ UNCHANGED <<timers, bound, pending>>
  ELSE /\ job' = NoJob
       /\ jobs' = js
       /\ UNCHANGED <<timers, bound, pending>>

\* DoNextJob with the queue js, where isReady is what IsDaemonReady returns.
DoNextJob(js, isReady) ==
  IF js # <<>> /\ isReady
  THEN /\ job' = Started(Head(js))
       /\ jobs' = Tail(js)
       /\ UNCHANGED <<timers, bound, pending>>
  ELSE /\ job' = NoJob
       /\ jobs' = js
       /\ IF js # <<>> THEN MaybeStartDaemon
          ELSE UNCHANGED <<timers, bound, pending>>

AddJob(w) ==
  IF job = NoJob
  THEN DoNextJob(Append(jobs, w), ready)
  ELSE /\ jobs' = Append(jobs, w)
       /\ UNCHANGED <<job, timers, bound, pending>>

\* OnIpfsShutdown: the job is destroyed, its callback with it.
OnIpfsShutdown ==
  /\ ready' = FALSE
  /\ job' = NoJob

PostNoPoll(r, u) == UNCHANGED timers \* FAULT: for PostGetConnectedPeers

\* PostGetConnectedPeers when daemon_ready_ is r and the node is up iff u.  The
\* attempt number it is given never grows, so that its limit is never met.
PostGetConnectedPeers(r, u) ==
  timers' = IF ~r /\ u /\ jobs # <<>> THEN OneMore(timers) ELSE timers

\* The delayed task: GetConnectedPeers.  With the node down the answer comes at
\* once, and PostGetConnectedPeers then has nothing to do.
PollTimerFires ==
  /\ ~Returning
  /\ timers > 0
  /\ timers' = timers - 1
  /\ asks' = IF up THEN OneMore(asks) ELSE asks
  /\ UNCHANGED <<daemonVars, ready, jobs, job, recorded, gcPosted, gcTimers, cli>>

OnGetConnectedPeersResult(success) ==
  /\ ~Returning
  /\ asks > 0
  /\ asks' = asks - 1
  /\ ready' = (ready \/ success)
  /\ IF ~ready /\ success
     THEN DoNextJob(jobs, TRUE)
     ELSE /\ PostGetConnectedPeers(ready, up)
          /\ UNCHANGED <<jobs, job, bound, pending>>
  /\ UNCHANGED <<installed, up, present, recorded, gcPosted, gcTimers, cli>>

=============================================================================
