----------------------------- MODULE NftAutoPin -----------------------------
(***************************************************************************)
(* Automatic pinning of NFTs: BraveWalletAutoPinService, which turns the   *)
(* user's tokens into intents and runs them one after the other;           *)
(* BraveWalletPinService, which keeps the status of each token and fetches *)
(* its metadata; and, below them, the pin jobs and the IPFS node.          *)
(*                                                                         *)
(* All of it runs on one sequence.  What interleaves is the user, the      *)
(* messages that tell the service of a changed token, the requests for     *)
(* metadata, the delayed retries, the node and its answers, and the end of *)
(* the browser.  A token here is one that IsTokenSupportedForPinning       *)
(* accepts; the service argument, always null, is left out.                *)
(*                                                                         *)
(* A definition marked FAULT is not part of the model: it is a way its     *)
(* neighbour could be wrong, kept to show that a property would notice.    *)
(***************************************************************************)
EXTENDS IpfsPinJobs

CONSTANTS
  Upsets,      \* what may go wrong in this instance (see UpsetNames)
  MaxUpsets,   \* bound: how often something goes wrong
  MaxChanges   \* bound: tokens the user adds or removes

UpsetNames ==
  {"answer",    \* the node or the metadata server answers with an error
   "refused",   \* the metadata names something that is not on IPFS
   "launch",    \* the node does not start
   "stop",      \* the node is shut down
   "renew",     \* the node is shut down and started again
   "crash",     \* the node or its utility process crashes
   "off",       \* the user switches automatic pinning off
   "reset",     \* the user resets the wallet
   "restart"}   \* the browser ends and starts again

ASSUME AutoPinAssumption ==
  /\ Upsets \subseteq UpsetNames
  /\ MaxUpsets \in Nat
  /\ MaxChanges \in Nat

VARIABLES
  enabled,   \* kAutoPinEnabled
  wallet,    \* kBraveWalletUserAssets: the user's NFTs
  news,      \* OnTokenAdded and OnTokenRemoved messages under way
  resetNews, \* an OnResetWallet message is under way
  tokens,    \* tokens_
  queue,     \* queue_
  current,   \* current_
  retries,   \* the delayed AddOrExecute tasks
  status,    \* kPinnedNFTAssets: the status of each token
  fetches,   \* AddPin calls waiting for the metadata or the content type
  changes,   \* bound: how many tokens were added or removed
  upsets,    \* bound: how often something went wrong
  met        \* what has gone wrong

autoPinVars ==
  <<enabled, wallet, news, resetNews, tokens, queue, current, retries,
    status, fetches>>

vars == <<daemonVars, pinJobVars, autoPinVars, changes, upsets, met>>

Intents == [op: {"add", "delete", "validate"}, token: Tokens]

NoIntent == [op |-> "none"]

\* "refused" is PINNING_FAILED with ERR_NON_IPFS_TOKEN_URL; "failed" with any
\* other error or with none.  "none" is a token without a record.
Statuses ==
  {"none", "pinning_pending", "pinning", "pinned", "failed", "refused",
   "unpinning_pending", "unpinning"}

Fetches == [token: Tokens, live: BOOLEAN]

TypeOK ==
  /\ DaemonTypeOK
  /\ PinJobTypeOK
  /\ enabled \in BOOLEAN
  /\ wallet \subseteq Tokens
  /\ news \in Seq([added: BOOLEAN, token: Tokens])
  /\ resetNews \in BOOLEAN
  /\ tokens \subseteq Tokens
  /\ queue \in Seq(Intents)
  /\ current \in Intents \cup {NoIntent}
  /\ retries \subseteq Intents
  /\ status \in [Tokens -> Statuses]
  /\ fetches \subseteq Fetches
  /\ changes \in 0 .. MaxChanges
  /\ upsets \in 0 .. MaxUpsets
  /\ met \subseteq Upsets

\* A fresh profile; the user's tokens may predate the feature.
Init ==
  /\ DaemonInit
  /\ PinJobInit
  /\ enabled = FALSE
  /\ wallet \in SUBSET Tokens
  /\ news = <<>>
  /\ resetNews = FALSE
  /\ tokens = {}
  /\ queue = <<>>
  /\ current = NoIntent
  /\ retries = {}
  /\ status = [t \in Tokens |-> "none"]
  /\ fetches = {}
  /\ changes = 0
  /\ upsets = 0
  /\ met = {}

Upset(kind) ==
  /\ kind \in Upsets
  /\ upsets < MaxUpsets
  /\ upsets' = upsets + 1
  /\ met' = met \cup {kind}

Calm == UNCHANGED <<upsets, met>>

-----------------------------------------------------------------------------
(* The queue of intents.  The operators take the values the handler has    *)
(* given the variables so far.                                             *)

\* An intent the pin service answers before the call returns: a token that is
\* pinned already, or one to validate that is not.
IsMoot(i, st) ==
  \/ i.op = "add" /\ st[i.token] = "pinned"
  \/ i.op = "validate" /\ st[i.token] # "pinned"

\* What is left of q when the intents with nothing to do have been run.
AfterMoot(q, st) ==
  LET moot == {k \in DOMAIN q : \A m \in 1 .. k : IsMoot(q[m], st)}
  IN  SubSeq(q, Cardinality(moot) + 1, Len(q))

\* CheckQueue: the next intent runs unless one is running.  "fetch" and "work"
\* are what AddPin, RemovePin or Validate leaves to be done.
CheckQueue(c, q, st) ==
  LET rest == AfterMoot(q, st) IN
  IF c # NoIntent
  THEN [current |-> c, queue |-> q, status |-> st, fetch |-> {}, work |-> <<>>]
  ELSE IF rest = <<>>
  THEN [current |-> c, queue |-> rest, status |-> st, fetch |-> {}, work |-> <<>>]
  ELSE LET i == Head(rest) IN
       [current |-> i,
        queue   |-> Tail(rest),
        status  |-> IF i.op = "delete" THEN [st EXCEPT ![i.token] = "unpinning"]
                    ELSE st,
        fetch   |-> IF i.op = "add" THEN {[token |-> i.token, live |-> TRUE]}
                    ELSE {},
        work    |-> IF i.op = "add" THEN <<>>
                    ELSE <<[kind  |-> IF i.op = "delete" THEN "remove"
                                      ELSE "verify",
                            token |-> i.token, live |-> TRUE]>>]

Dispatched(d, otherFetches) ==
  /\ current' = d.current
  /\ queue' = d.queue
  /\ status' = d.status
  /\ fetches' = otherFetches \cup d.fetch

\* The job of an intent that was started, when no job is ending.
Enqueued(d) ==
  IF d.work = <<>> THEN UNCHANGED <<jobs, job, timers, bound, pending>>
  ELSE AddJob(Head(d.work))

\* AddOrExecute turns away what is queued or running, and what is no longer
\* wanted.
IsAcceptedUnwanted(i, c, q, toks) == \* FAULT: for IsAccepted, no look at tokens_
  c # i /\ \A k \in DOMAIN q : q[k] # i

IsAccepted(i, c, q, toks) ==
  /\ \A k \in DOMAIN q : q[k] # i
  /\ c # i
  /\ (i.op = "delete") <=> (i.token \notin toks)

MarkedAsFailed(i, st) == \* FAULT: for Marked, the wrong status
  IF i.op = "delete" THEN [st EXCEPT ![i.token] = "unpinning_failed"]
  ELSE [st EXCEPT ![i.token] = "pinning_pending"]

Marked(i, st) ==
  CASE i.op = "add"      -> [st EXCEPT ![i.token] = "pinning_pending"]
    [] i.op = "delete"   -> [st EXCEPT ![i.token] = "unpinning_pending"]
    [] i.op = "validate" -> st

\* AddOrExecute.  An intent that is turned away leaves the queue alone: without
\* a running intent there is none in it, but when a validation has failed, and
\* there CheckQueue is what the caller does next.
AddOrExecute(i, c, q, st, toks) ==
  IF IsAccepted(i, c, q, toks)
  THEN CheckQueue(c, Append(q, i), Marked(i, st))
  ELSE CheckQueue(c, q, st)

\* The intents of q that are not about t, in their order.
Without(t, q) ==
  LET kept == {k \in DOMAIN q : q[k].token # t}
  IN  [n \in 1 .. Cardinality(kept) |->
         q[CHOOSE k \in kept : Cardinality({m \in kept : m <= k}) = n]]

\* OnTaskFinished, or what OnValidateTaskFinished does after a validation that
\* passed: current is done with, and retried later if again holds.
PostNoRetry(again) == UNCHANGED retries \* FAULT: for PostRetry

PostRetry(again) ==
  retries' = IF again /\ enabled THEN retries \cup {current} ELSE retries

-----------------------------------------------------------------------------
(* The user's tokens. *)

UserChanges(t) ==
  /\ ~Returning
  /\ changes < MaxChanges
  /\ changes' = changes + 1
  /\ wallet' = IF t \in wallet THEN wallet \ {t} ELSE wallet \cup {t}
  /\ news' = Append(news, [added |-> t \notin wallet, token |-> t])
  /\ UNCHANGED <<daemonVars, pinJobVars, enabled, resetNews, tokens, queue,
                 current, retries, status, fetches>>
  /\ Calm

\* OnTokenAdded and OnTokenRemoved.
TokenNewsArrives ==
  /\ ~Returning
  /\ news # <<>>
  /\ news' = Tail(news)
  /\ LET t     == Head(news).token
         added == Head(news).added
         toks  == IF added THEN tokens \cup {t} ELSE tokens \ {t}
         d     == AddOrExecute([op |-> IF added THEN "add" ELSE "delete",
                                token |-> t],
                               current, Without(t, queue), status, toks)
     IN  IF enabled
         THEN /\ tokens' = toks
              /\ Dispatched(d, fetches)
              /\ Enqueued(d)
         ELSE UNCHANGED <<tokens, current, queue, status, fetches, jobs, job,
                          timers, bound, pending>>
  /\ UNCHANGED <<installed, up, present, ready, asks, recorded, gcPosted,
                 gcTimers, cli, enabled, wallet, resetNews, retries, changes>>
  /\ Calm

RetryFires(i) ==
  /\ ~Returning
  /\ i \in retries
  /\ retries' = retries \ {i}
  /\ LET d == AddOrExecute(i, current, queue, status, tokens) IN
     /\ Dispatched(d, fetches)
     /\ Enqueued(d)
  /\ UNCHANGED <<installed, up, present, ready, asks, recorded, gcPosted,
                 gcTimers, cli, enabled, wallet, news, resetNews, tokens,
                 changes>>
  /\ Calm

\* The orders in which a set may be listed.
Orders(S) ==
  {s \in [1 .. Cardinality(S) -> S] : \A x \in S : \E k \in DOMAIN s : s[k] = x}

\* What OnTokenListResolved asks for, in the order of the two lists; due are the
\* pinned tokens whose last validation is more than a day old.
Wishes(due, st) ==
  {[op |-> "validate", token |-> t] : t \in due} \cup
  {[op |-> "add", token |-> t] :
     t \in {u \in wallet : st[u] \notin {"pinned", "refused"}}}

Unwanted(st) ==
  {[op |-> "delete", token |-> t] : t \in {u \in Tokens \ wallet : st[u] # "none"}}

\* Restore on a service without tokens, intents or tasks: what it may lead to.
Restored(st) ==
  {CheckQueue(NoIntent, ws \o us,
     [t \in Tokens |->
        IF t \in wallet
        THEN IF st[t] \in {"pinned", "refused"} THEN st[t] ELSE "pinning_pending"
        ELSE IF st[t] = "none" THEN "none" ELSE "unpinning_pending"]) :
     ws \in UNION {Orders(Wishes(due, st)) :
                     due \in SUBSET {t \in wallet : st[t] = "pinned"}},
     us \in Orders(Unwanted(st))}

SwitchOn ==
  /\ ~Returning
  /\ ~enabled
  /\ enabled' = TRUE
  /\ gcTimers' = OneMore(gcTimers)
  /\ tokens' = wallet
  /\ \E d \in Restored(status) : Dispatched(d, fetches) /\ Enqueued(d)
  /\ UNCHANGED <<installed, up, present, ready, asks, recorded, gcPosted, cli,
                 wallet, news, resetNews, retries, changes>>
  /\ Calm

\* ResetLocalState, but for the callbacks it drops.
ForgetIntents ==
  /\ tokens' = {}
  /\ queue' = <<>>
  /\ current' = NoIntent
  /\ retries' = {}

StillLive(w) == w \* FAULT: for Orphaned, the callbacks stay valid

Orphaned(w) == [w EXCEPT !.live = FALSE]

SwitchOff ==
  /\ ~Returning
  /\ enabled
  /\ enabled' = FALSE
  /\ ForgetIntents
  /\ fetches' = {Orphaned(f) : f \in fetches}
  /\ jobs' = [k \in DOMAIN jobs |-> Orphaned(jobs[k])]
  /\ job' = [job EXCEPT !.what = Orphaned(@)]
  /\ UNCHANGED <<daemonVars, ready, timers, asks, recorded, gcPosted, gcTimers,
                 cli, wallet, news, resetNews, status, changes>>
  /\ Upset("off")

-----------------------------------------------------------------------------
(* The pin service. *)

\* The metadata request and the content type check of AddPin, taken together.
MetadataArrives(f) ==
  /\ ~Returning
  /\ f \in fetches
  /\ fetches' = fetches \ {f}
  /\ status' = [status EXCEPT ![f.token] = "pinning"]
  /\ AddJob([kind |-> "add", token |-> f.token, live |-> f.live])
  /\ UNCHANGED <<installed, up, present, ready, asks, recorded, gcPosted,
                 gcTimers, cli, enabled, wallet, news, resetNews, tokens,
                 queue, current, retries, changes>>
  /\ Calm

\* Only a token whose metadata is not on IPFS is not tried again.
MetadataFails(f, why) ==
  /\ ~Returning
  /\ f \in fetches
  /\ LET st == [status EXCEPT ![f.token] = why]
         d  == CheckQueue(NoIntent, queue, st)
     IN  IF f.live
         THEN /\ PostRetry(why = "failed")
              /\ Dispatched(d, fetches \ {f})
              /\ Enqueued(d)
         ELSE /\ status' = st
              /\ fetches' = fetches \ {f}
              /\ UNCHANGED <<retries, current, queue, jobs, job, timers, bound,
                             pending>>
  /\ UNCHANGED <<installed, up, present, ready, asks, recorded, gcPosted,
                 gcTimers, cli, enabled, wallet, news, resetNews, tokens,
                 changes>>
  /\ Upset(IF why = "failed" THEN "answer" ELSE "refused")

-----------------------------------------------------------------------------
(* The jobs. *)

\* What the requests R of the running job do to the node's pins.
Effect(R) ==
  IF job.what.kind = "add"
  THEN present \cup {p \in PinsOf[job.what.token] : p[2] \in R}
  ELSE IF "sweep" \in R THEN {p \in present : p[1] \notin job.sweep}
  ELSE present

\* GetPins for the cids of the token answers with all of them or with an error.
AllPresent(t) == CidsOf(PinsOf[t]) \subseteq CidsOf(present)

NodeAnswers(r) ==
  /\ r \in job.wait
  /\ up
  /\ present' = Effect({r})
  /\ job' = [job EXCEPT
       !.wait = @ \ {r},
       !.ok   = @ /\ (r = "pins" => AllPresent(job.what.token)),
       !.seen = IF job.what.kind = "gc" /\ r \in Modes
                THEN @ \cup {p[1] : p \in {q \in present : q[2] = r}} ELSE @]
  /\ UNCHANGED <<installed, bound, up, pending, ready, timers, asks, jobs,
                 recorded, gcPosted, gcTimers, cli, autoPinVars, changes>>
  /\ Calm

\* The answer is an error, or is lost with a node that went down: the request
\* may have been carried out.
NodeFails(r) ==
  /\ r \in job.wait
  /\ present' \in {present, Effect({r})}
  /\ job' = [job EXCEPT !.wait = @ \ {r}, !.ok = FALSE]
  /\ UNCHANGED <<installed, bound, up, pending, ready, timers, asks, jobs,
                 recorded, gcPosted, gcTimers, cli, autoPinVars, changes>>
  /\ IF up THEN Upset("answer") ELSE Calm

\* GcJob::OnGetPinsResult: what no token needs in either mode.
UnrecordedRecursively(cids) == \* FAULT: for Unrecorded, one mode is looked at
  {c \in cids : recorded[<<c, "recursive">>] = {}}

Unrecorded(cids) == {c \in cids : \A m \in Modes : recorded[<<c, m>>] = {}}

MustSweep ==
  /\ job.what.kind = "gc"
  /\ job.ok
  /\ job.sweep = {}
  /\ Unrecorded(job.seen) # {}

GcSweeps ==
  /\ Returning
  /\ MustSweep
  /\ job' = [job EXCEPT !.sweep = Unrecorded(job.seen),
                        !.wait = IF up THEN {"sweep"} ELSE {},
                        !.ok = up]
  /\ UNCHANGED <<daemonVars, ready, timers, asks, jobs, recorded, gcPosted,
                 gcTimers, cli, autoPinVars, changes>>
  /\ Calm

RecordDropped(w, ok) == \* FAULT: for RecordAfter, a removal forgets the cid
  [p \in Pins |->
     IF w.kind = "add" /\ ok /\ p \in PinsOf[w.token]
     THEN recorded[p] \cup {w.token}
     ELSE IF w.kind = "remove" /\ w.token \in recorded[p] THEN {}
     ELSE recorded[p]]

\* kIPFSPinnedCids when job w has ended with ok.
RecordAfter(w, ok) ==
  CASE w.kind = "add" /\ ok ->
         [p \in Pins |-> IF p \in PinsOf[w.token]
                         THEN recorded[p] \cup {w.token} ELSE recorded[p]]
    [] w.kind = "remove" -> [p \in Pins |-> recorded[p] \ {w.token}]
    [] OTHER -> recorded

\* The job's callback: its record, the status of the token, the intent it was
\* for and the next one; then OnJobDone.
JobFinishes ==
  /\ Returning
  /\ ~MustSweep
  /\ LET w  == job.what
         st == CASE w.kind = "add" ->
                      [status EXCEPT ![w.token] =
                         IF job.ok THEN "pinned" ELSE "failed"]
                 [] w.kind = "remove" -> [status EXCEPT ![w.token] = "none"]
                 [] w.kind = "verify" ->
                      [status EXCEPT ![w.token] =
                         IF job.ok THEN "pinned" ELSE "pinning"]
                 [] w.kind = "gc" -> status
         d  == IF ~w.live
               THEN [current |-> current, queue |-> queue, status |-> st,
                     fetch |-> {}, work |-> <<>>]
               ELSE IF w.kind = "verify" /\ ~job.ok
               THEN AddOrExecute([op |-> "add", token |-> w.token], NoIntent,
                                 queue, st, tokens)
               ELSE CheckQueue(NoIntent, queue, st)
     IN  /\ Dispatched(d, fetches)
         /\ recorded' = RecordAfter(w, job.ok)
         /\ PostRetry(w.live /\ w.kind = "add" /\ ~job.ok)
         /\ gcTimers' = IF w.kind = "remove" THEN OneMore(gcTimers) ELSE gcTimers
         /\ gcPosted' = (gcPosted /\ w.kind # "gc")
         /\ DoNextJob(jobs \o d.work, ready)
  /\ UNCHANGED <<installed, up, present, ready, asks, cli, enabled, wallet,
                 news, resetNews, tokens, changes>>
  /\ Calm

\* AddGcTask, from its timer.
GcTimerFires ==
  /\ ~Returning
  /\ gcTimers > 0
  /\ gcTimers' = gcTimers - 1
  /\ gcPosted' = TRUE
  /\ IF gcPosted THEN UNCHANGED <<jobs, job, timers, bound, pending>>
     ELSE AddJob(GcJob)
  /\ UNCHANGED <<installed, up, present, ready, asks, recorded, cli,
                 autoPinVars, changes>>
  /\ Calm

-----------------------------------------------------------------------------
(* The node. *)

\* OnIpfsLaunched(true): the callbacks that waited run.
NodeLaunches ==
  /\ ~Returning
  /\ bound
  /\ ~up
  /\ up' = TRUE
  /\ pending' = "none"
  /\ IF pending = "pins" THEN PostGetConnectedPeers(ready, TRUE)
     ELSE UNCHANGED timers
  /\ UNCHANGED <<installed, bound, present, ready, asks, jobs, job, recorded,
                 gcPosted, gcTimers, cli, autoPinVars, changes>>
  /\ Calm

\* OnIpfsLaunched(false): the callbacks run with false and do nothing.
NodeFailsToLaunch ==
  /\ ~Returning
  /\ bound
  /\ ~up
  /\ Shutdown
  /\ pending' = "none"
  /\ UNCHANGED <<installed, present, pinJobVars, autoPinVars, changes>>
  /\ Upset("launch")

\* The client is found at the start, and reported again when it is updated.
OnExecutableReady ==
  /\ ~Returning
  /\ installed' = TRUE
  /\ bound' = TRUE
  /\ UNCHANGED <<up, pending, present, pinJobVars, autoPinVars, changes>>
  /\ Calm

\* A navigation or an extension launches the node.
OthersLaunch ==
  /\ ~Returning
  /\ ~up
  /\ LaunchDaemon("others")
  /\ UNCHANGED <<installed, up, present, pinJobVars, autoPinVars, changes>>
  /\ Calm

\* The requests of a job that is destroyed were carried out or not.
JobDestroyed == present' \in {Effect(R) : R \in SUBSET job.wait}

UserStopsNode ==
  /\ ~Returning
  /\ up \/ ready
  /\ ShutdownDaemon
  /\ OnIpfsShutdown
  /\ JobDestroyed
  /\ UNCHANGED <<installed, pending, timers, asks, jobs, recorded, gcPosted,
                 gcTimers, cli, autoPinVars, changes>>
  /\ Upset("stop")

\* RestartDaemon: ShutdownDaemon and LaunchDaemon without a callback.
RestartDaemon ==
  /\ ~Returning
  /\ up
  /\ up' = FALSE
  /\ bound' = (pending = "none" /\ installed)
  /\ OnIpfsShutdown
  /\ JobDestroyed
  /\ UNCHANGED <<installed, pending, timers, asks, jobs, recorded, gcPosted,
                 gcTimers, cli, autoPinVars, changes>>
  /\ Upset("renew")

\* OnIpfsCrashed and OnIpfsDaemonCrashed tell no observer.
NodeCrashes ==
  /\ ~Returning
  /\ bound
  /\ Shutdown
  /\ UNCHANGED <<installed, pending, present, pinJobVars, autoPinVars, changes>>
  /\ Upset("crash")

\* A node that is up answers, one that is down does not; the answer of one that
\* went down since may have been on its way.
PeersAnswer(success) ==
  /\ OnGetConnectedPeersResult(success)
  /\ UNCHANGED <<autoPinVars, changes>>
  /\ IF success = up THEN Calm ELSE Upset("answer")

-----------------------------------------------------------------------------
(* The reset of the wallet and the end of the browser. *)

\* BraveWalletService::Reset; its observers hear of it later.
UserResetsWallet ==
  /\ ~Returning
  /\ ~resetNews
  /\ cli.step \notin {"ls", "rm"}
  /\ wallet' = {}
  /\ resetNews' = TRUE
  /\ UNCHANGED <<daemonVars, pinJobVars, enabled, news, tokens, queue, current,
                 retries, status, fetches, changes>>
  /\ Upset("reset")

\* OnResetWallet: the auto-pin service is switched off, the callbacks of the pin
\* services are dropped and the job queue is replaced by a new one.
ResetNewsArrives ==
  /\ ~Returning
  /\ resetNews
  /\ resetNews' = FALSE
  /\ enabled' = FALSE
  /\ ForgetIntents
  /\ fetches' = {}
  /\ ready' = FALSE
  /\ timers' = 0
  /\ asks' = 0
  /\ jobs' = <<>>
  /\ job' = NoJob
  /\ JobDestroyed
  /\ gcPosted' = FALSE
  /\ gcTimers' = 0
  /\ pending' = IF pending = "pins" THEN "others" ELSE pending
  /\ cli' = [step |-> IF installed THEN "ls" ELSE "failed", left |-> {}]
  /\ UNCHANGED <<installed, bound, up, recorded, wallet, news, status, changes>>
  /\ Calm

\* What the client still has to remove; with nothing left both records of what
\* was pinned are cleared, whatever was added to them since.
CliGoesOn(left) ==
  /\ cli' = [step |-> IF left = {} THEN "done" ELSE "rm", left |-> left]
  /\ IF left = {}
     THEN /\ recorded' = [p \in Pins |-> {}]
          /\ status' = [t \in Tokens |-> "none"]
     ELSE UNCHANGED <<recorded, status>>

\* LsPinCli lists the recursive pins only.
CliLists ==
  /\ ~Returning
  /\ cli.step = "ls"
  /\ CliGoesOn({p[1] : p \in {q \in present : q[2] = "recursive"}})
  /\ UNCHANGED <<daemonVars, ready, timers, asks, jobs, job, gcPosted, gcTimers,
                 enabled, wallet, news, resetNews, tokens, queue, current,
                 retries, fetches, changes>>
  /\ Calm

CliRemoves(c) ==
  /\ ~Returning
  /\ c \in cli.left
  /\ <<c, "recursive">> \in present
  /\ present' = present \ {<<c, "recursive">>}
  /\ CliGoesOn(cli.left \ {c})
  /\ UNCHANGED <<installed, bound, up, pending, ready, timers, asks, jobs, job,
                 gcPosted, gcTimers, enabled, wallet, news, resetNews, tokens,
                 queue, current, retries, fetches, changes>>
  /\ Calm

\* The client fails, as it does for a pin that is no longer there.
CliFails ==
  /\ ~Returning
  /\ cli.step \in {"ls", "rm"}
  /\ cli' = [step |-> "failed", left |-> {}]
  /\ UNCHANGED <<daemonVars, ready, timers, asks, jobs, job, recorded, gcPosted,
                 gcTimers, autoPinVars, changes>>
  /\ IF \E c \in cli.left : <<c, "recursive">> \notin present THEN Calm
     ELSE Upset("answer")

\* The preferences and the node's pins outlive the browser, nothing else does.
\* The constructor of the auto-pin service then restores.
BrowserRestarts ==
  /\ ~Returning
  /\ up' = FALSE
  /\ JobDestroyed
  /\ ready' = FALSE
  /\ timers' = 0
  /\ asks' = 0
  /\ job' = NoJob
  /\ gcPosted' = FALSE
  /\ gcTimers' = IF enabled THEN 1 ELSE 0
  /\ cli' = [cli EXCEPT !.step = IF @ \in {"ls", "rm"} THEN "failed" ELSE @,
                        !.left = {}]
  /\ news' = <<>>
  /\ resetNews' = FALSE
  /\ retries' = {}
  /\ \E d \in IF enabled THEN Restored(status)
              ELSE {CheckQueue(NoIntent, <<>>, status)} :
       /\ tokens' = IF enabled THEN wallet ELSE {}
       /\ Dispatched(d, {})
       /\ jobs' = d.work
       /\ bound' = (d.work # <<>> /\ installed)
       /\ pending' = IF d.work # <<>> THEN "pins" ELSE "none"
  /\ UNCHANGED <<installed, recorded, enabled, wallet, changes>>
  /\ Upset("restart")

-----------------------------------------------------------------------------

PollTimer == PollTimerFires /\ UNCHANGED <<autoPinVars, changes, upsets, met>>

Next ==
  \/ \E t \in Tokens : UserChanges(t)
  \/ TokenNewsArrives
  \/ \E i \in Intents : RetryFires(i)
  \/ SwitchOn
  \/ SwitchOff
  \/ \E f \in Fetches : MetadataArrives(f)
  \/ \E f \in Fetches, why \in {"failed", "refused"} : MetadataFails(f, why)
  \/ \E r \in Requests : NodeAnswers(r) \/ NodeFails(r)
  \/ GcSweeps
  \/ JobFinishes
  \/ GcTimerFires
  \/ NodeLaunches
  \/ NodeFailsToLaunch
  \/ OnExecutableReady
  \/ OthersLaunch
  \/ UserStopsNode
  \/ RestartDaemon
  \/ NodeCrashes
  \/ PollTimer
  \/ \E success \in BOOLEAN : PeersAnswer(success)
  \/ UserResetsWallet
  \/ ResetNewsArrives
  \/ CliLists
  \/ \E c \in Cids : CliRemoves(c)
  \/ CliFails
  \/ BrowserRestarts

\* What goes on without the user: delayed tasks run, messages are delivered, the
\* metadata server and a node that is up answer, a node that was started comes up.
Answer ==
  \/ \E f \in Fetches : MetadataArrives(f)
  \/ \E r \in Requests : NodeAnswers(r) \/ (~up /\ NodeFails(r))

NodeComes == NodeLaunches \/ (~installed /\ OnExecutableReady)

Poll == PollTimer \/ PeersAnswer(up)

Progress ==
  \/ TokenNewsArrives
  \/ \E i \in Intents : RetryFires(i)
  \/ Answer
  \/ GcSweeps
  \/ JobFinishes
  \/ NodeComes
  \/ Poll

Spec == Init /\ [][Next]_vars

\* Something goes on as long as something can.
FairSpec == Spec /\ WF_vars(Progress)

\* Each of these goes on as long as it can.
FairEachSpec ==
  /\ Spec
  /\ WF_vars(TokenNewsArrives)
  /\ WF_vars(\E i \in Intents : RetryFires(i))
  /\ WF_vars(Answer)
  /\ WF_vars(GcSweeps \/ JobFinishes)
  /\ WF_vars(NodeComes)
  /\ WF_vars(Poll)

-----------------------------------------------------------------------------
(* Properties. *)

IntentOf(w) ==
  [op |-> CASE w.kind = "add" -> "add" [] w.kind = "remove" -> "delete"
            [] w.kind = "verify" -> "validate",
   token |-> w.token]

\* The intents whose callback will still run.
Awaited ==
  {[op |-> "add", token |-> f.token] : f \in {g \in fetches : g.live}}
  \cup {IntentOf(jobs[k]) : k \in {m \in DOMAIN jobs : jobs[m].live}}
  \cup {IntentOf(w) : w \in {v \in {job.what} : v.live}}

\* CheckQueue starts an intent only when none is running, and only the callback
\* of the running one lets the next one start.  So no callback of another
\* intent may come, and unless the node was shut down under it the running
\* intent has one on its way.
CurrentIsAwaited ==
  /\ Awaited \subseteq {current}
  /\ current # NoIntent /\ met \cap {"stop", "renew"} = {} => Awaited = {current}
  /\ queue # <<>> => current # NoIntent

\* However the user adds and removes a token, and whatever is retried meanwhile,
\* the queue never holds a wish the user has taken back, nor one twice, nor the
\* one that is running.
QueueAgrees ==
  \A k \in DOMAIN queue :
    /\ (queue[k].op = "delete") <=> (queue[k].token \notin tokens)
    /\ queue[k] # current
    /\ \A m \in DOMAIN queue : queue[m] = queue[k] => m = k

\* A job waits without another running only while the queue is not ready, and
\* then something is under way that will make it so, unless the node was lost.
JobsAreServed ==
  job = NoJob /\ jobs # <<>> =>
    /\ ~ready
    /\ \/ pending = "pins"
       \/ timers + asks > 0
       \/ met \cap {"stop", "renew", "crash", "launch"} # {}

\* The collection of garbage unpins what the record does not name.  A pin that
\* some token is recorded to need is never among it, whatever requests were
\* lost and whatever was removed of other tokens.
RecordedIsPresent ==
  cli.step = "never" =>
    \A p \in Pins : recorded[p] # {} => p \in present

\* A token shown as pinned is one whose pins are recorded, so that the garbage
\* collection spares them and a later removal finds them; switching off leaves
\* jobs behind that may end between a later one's answer and its effect, and so
\* does the client that empties the node after a reset.
PinnedIsRecorded ==
  met \cap {"off", "reset"} = {} =>
    \A t \in Tokens : status[t] = "pinned" =>
      \A p \in PinsOf[t] : t \in recorded[p]

\* Nothing is under way any more.
Quiet ==
  /\ enabled
  /\ news = <<>>
  /\ ~resetNews
  /\ current = NoIntent
  /\ retries = {}
  /\ fetches = {}
  /\ job = NoJob
  /\ jobs = <<>>

\* When everything has been done, the tokens of the user are pinned or refused
\* and no other token is known, whatever went wrong on the way; switching off
\* and resetting leave calls behind that may come later.
SettledMatchesWallet ==
  Quiet /\ met \cap {"off", "reset"} = {} =>
    \A t \in Tokens :
      status[t] \in IF t \in wallet THEN {"pinned", "refused"} ELSE {"none"}

\* A token the user adds is pinned or refused in the end, and one the user
\* removes is forgotten: errors are retried, and intents for other tokens do not
\* keep it waiting for ever.
WishesComeTrue ==
  \A t \in Tokens :
    enabled ~>
      \/ status[t] \in IF t \in wallet THEN {"pinned", "refused"} ELSE {"none"}
      \/ met \cap {"stop", "renew", "crash", "launch", "off", "reset"} # {}

\* The auto-pin service has something to do.
HasWork == current # NoIntent \/ retries # {}

\* "Manages a queue of IpfsService-related tasks. Launches IPFS daemon if
\* needed." (ipfs_base_pin_service.h:31-32): work that needs the node is not left
\* with a node that is down.
LaunchesDaemonIfNeeded == HasWork ~> up \/ ~HasWork

=============================================================================
