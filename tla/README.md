# Verification of the Mises browser core

This directory holds TLA+ models of the parts of the Mises browser (a fork of
Brave, which is a fork of Chromium) that carry state of their own, the TLC
configurations that check them and proofs checked by TLAPS. Paths below are
relative to the repository. `W/` stands for
`components/brave_wallet/browser/`, `P/` for `components/permissions/`, `I/` for
`components/ipfs/`.

- [The system](#the-system)
- [Modules](#modules)
- [The Ethereum transaction core](#the-ethereum-transaction-core)
- [Permission lifetimes](#permission-lifetimes)
- [Automatic NFT pinning](#automatic-nft-pinning)
- [Runs and bounds](#runs-and-bounds)
- [Disagreements between the code and its texts](#disagreements-between-the-code-and-its-texts)
- [Other behaviour worth a reviewer's time](#other-behaviour-worth-a-reviewers-time)
- [What is proved](#what-is-proved)
- [What is not modelled](#what-is-not-modelled)
- [Plan](#plan)

## The system

The repository contains only what the fork adds to Chromium. Three parts of it
have state that outlives a call and several actors that change it: the crypto
wallet, permissions with a lifetime, and services that talk to a daemon or the
network in the background. Nearly everything runs on the UI sequence of the
browser process: there are no data races inside a component, and what
interleaves is callbacks of requests, timers, observer messages over mojo pipes,
the user and the outside world.

| Component | State | Operations | Interacts with | Hard behaviour |
|---|---|---|---|---|
| `TxStateManager`, `EthTxStateManager` | one preference dictionary of transactions per network | add or update, delete, query by status, retire old ones | every transaction manager; observers | which network's dictionary is read depends on the moment |
| `EthNonceTracker` | none of its own | next nonce from the list and the node's count | store, JSON-RPC | gaps and duplicates in nonces |
| `EthTxManager`, `TxManager` | `known_no_pending_tx_`, the block tracker | add, edit, approve, publish, reject, retry, speed up, cancel, hardware signing | all of the above, keyring, pages | callbacks with captured copies, lost answers, lock and network changes in between |
| `EthPendingTxTracker`, `EthBlockTracker` | drop counters, cached network nonces, a timer | ask for receipts, confirm, drop | store, JSON-RPC | what is dropped and when; the poll must run when it has to |
| `KeyringService` | keyrings, encryptors, auto-lock timer | create, lock, unlock, sign, accounts | observers over mojo | locking under a running operation; notices arrive late |
| `JsonRpcService` | the selected network per coin | switch, all RPC requests | every wallet component | the network changes under a request |
| `BraveWalletService` | queues of requests that wait for the user | add, answer, cancel, reset | providers, panel | answered twice, cancelled while shown |
| `EthereumProviderImpl`, `SolanaProviderImpl` | callbacks of a page | requests, events | wallet services, tabs | events against answers |
| Solana and Filecoin transaction managers | as Ethereum, with block height or messages | as Ethereum | as Ethereum | expiry, lost answers |
| `PermissionLifetimeManager`, `PermissionExpirations` | entries in memory and in preferences, one timer | decide, expire, reset, react to changed settings | content settings, site monitor | two copies of the same fact, crash, restart |
| `EphemeralStorageService` | clean-up timers, lists of origins to clean | site opened, closed, cleaned up | tabs, cookies, permissions | clean-up against a site that comes back |
| `BraveWalletAutoPinService` | the user's tokens, a queue of intents, the running one, delayed retries | token added or removed, switched on or off, restore, retry, reset | wallet service, pin service | four sources of intents that pass one another; callbacks that come late |
| `BraveWalletPinService` | status of each token, in preferences | add, remove, validate a pin; fetch metadata | auto-pin service, JSON-RPC, pin jobs | one step of several fails |
| `IpfsLocalPinService`, `IpfsBasePinService` | a queue of jobs, the record of pins, readiness of the node, a garbage collection that is posted | add, remove, verify, collect garbage, empty the node | pin service, IPFS service | jobs of many requests, a node that goes away, pins that tokens share |
| `IpfsService` and the node | process handle, callbacks that wait for the launch, the node's pins | launch, stop, restart, crash, pin requests | pin jobs, navigation, component updater | a crash during the launch; requests lost or carried out unheard |
| Proxying URL loader, web sockets | one pending callback per request | redirect, cancel, continue | request handler | callback after cancel |
| Web3 site check, new tab page images, time period storage, decentralised DNS | small caches and counters | lookup, rotate, add | navigation | stale answers, boundaries |

What makes each correct:

- **Transactions**: what the user asks for happens at most once; what is shown
  (confirmed, rejected, dropped) is true; every status leads somewhere; nonces
  leave no gap; a pending transaction is watched and a locked wallet does not
  talk to a node.
- **Keyring**: no signature while locked; every observer ends up with the right
  lock state.
- **Request queues and providers**: each request is answered once, with the
  decision the user took on it.
- **Permissions**: what was granted for a while ends then, not later and not
  earlier, whatever crashes; what was granted for ever stays.
- **Ephemeral storage**: storage of a closed site goes, that of an open one
  stays.
- **NFT pinning**: what the user's wallet holds is what is pinned in the end;
  no intent is lost, repeated or taken for another; garbage collection spares
  what any token needs; a job never waits for nothing.

`PROJECT.json` lists every component with its status, and the hazards of the
code with the property that covers each.

## Modules

| Module | Role |
|---|---|
| `EthTxStore` | the transaction dictionaries and every operation on them |
| `EthNonceTracker` | the next nonce, over `EthTxStore` |
| `EthTxManager` | the manager, trackers, lock state, selected network, requests in flight, page and chain; composes the two above |
| `TxLifecycle` | abstract specification: the statuses a transaction may go through, and when a rejection is final |
| `MCEthTxManager` | the instance TLC checks |
| `EthTxManager_proofs` | type correctness, the block tracker, lemmas about every handler |
| `EthTxClients_proofs` | the assertions, rejected and confirmed transactions, the refinement of `TxLifecycle` |
| `EthTxNonces_proofs` | at most once, no gap, what is dropped is dead |
| `PermissionLifetime` | manager, container, preferences, timer, site monitor, tabs |
| `MCPermissionLifetime` | the instance TLC checks |
| `PermissionLifetime_proofs` | theorems about `PermissionLifetime` |
| `IpfsDaemon` | `IpfsService` as far as the pin services use it, and the node's pins |
| `IpfsPinJobs` | the queue of pin jobs, the polls for the node, the record; over `IpfsDaemon` |
| `NftAutoPin` | intents, statuses, metadata, jobs at work, node, reset and restart; composes the two above |
| `MCNftAutoPin` | the instance TLC checks |
| `NftAutoPin_proofs` | type correctness and `CurrentIsAwaited` |
| `NftAutoPinJobs_proofs` | the record, the queue of jobs and the queue of intents |
| `NftAutoPinRecord_proofs` | pinned tokens are recorded |
| `NftAutoPinPlan_proofs` | every token has a plan, settled tokens match the wallet |

Every module uses the names of the code. A definition marked `FAULT` is not part
of a model: it is a plausible mistake, kept beside the definition it would
replace, to show that a property notices it (the mutants of `PROJECT.json`).

## The Ethereum transaction core

### State and its source

`txs[c][i]` is the dictionary of network `c` (`W/tx_state_manager.cc`); an id is
the rank of its UUID in the iteration order of the dictionary, so a new
transaction may get any unused number. `calls` is the set of JSON-RPC requests
in flight, each a record of what its callback has bound (`base::BindOnce`): the
request for a nonce carries the whole `EthTxMeta` it will write back, which is
where most hazards come from. `notices` is the mojo pipe of
`KeyringServiceObserver` messages, delivered in order and later. `running` and
`polling` are the block tracker and its request. `knownNoPending`, `nonceMap`
and `dropCount` are the members of that name. `netNonce`, `pool`, `mined` and
`reverted` are the chain, as external as it is to the code. `intent` and
`dchecks` are history variables: which transaction of the user a copy repeats,
and which assertions of the code have failed.

### Actions

One action is one task of the UI sequence, with every call it makes: an update
of a transaction includes the retirement of old ones that `AddOrUpdateTx` ends
with, and a successful publish includes the receipt round
(`UpdatePendingTransactions`) and the decision on the block tracker. The lock
`nonce_lock` of the trackers is taken and released within one task of one
sequence, so it never fails to be taken and is not modelled.

Answers: a request is answered by the node, which may lag behind the chain but
not invent anything, or fails. `NodeAccepts` is separate from the answer of
`eth_sendRawTransaction`, so the answer can be lost after the node has the
transaction. A receipt of a transaction that is not mined is `null`, which the
parser reports as an error, so `OnGetTxReceipt` only ever sees status 1 or 0:
dropping by count therefore concerns reverted transactions only.

Clients: commands of the wallet page are guarded by what the page shows, because
the browser process checks neither the lock nor whether another command on the
transaction is running.

- `ClientMayCommand`: the page shows unapproved transactions while unlocked. The
  edit views (gas, allowance, nonce) ask for no more, so that an edit may come
  while an approval waits for its nonce, which then writes its copy over it.
- `ClientMayConfirm`: the buttons for confirming and rejecting are disabled by a
  confirmation, but only until the number of queued transactions changes or an
  edit view has been opened and left, for both make the footer forget it. The
  operation `reconfirm` is the user who then uses the buttons again before the
  answer; without it the user does not.
- `RejectAllTransactions`: the "Reject all" button (`rejectall`), there when more
  than one transaction is queued, is never disabled, and neither is the closing
  of the Android panel (`panelclose`). Either rejects transactions under approval.
- `interrupt` lets lock, network switch and reset come in the middle of a command.

The runs that pass leave `reconfirm` and `interrupt` out; each is what a violation
run below shows the consequence of. They are assumptions about what the user does,
which no code enforces. `EthTxChains` has edits and rejections under a running
approval, `EthTxSession` and `EthTxReplace` have rejections.

Because such a rejection is overridden, `TxLifecycle` has a second variable,
`asked`: the transactions whose approval waits for its nonce. The answer sets the
status whatever it was in between; any other rejection is final.

### Properties

| Property | What it says | Why it could fail |
|---|---|---|
| `AtMostOnce` | of a transaction and its retries, speed-ups and cancellations at most one is ever executed | lost answers, copies in the pool together |
| `NoNonceGap` | no transaction in the pool waits for a nonce nothing uses | nonce selection, retired transactions, lagging nodes |
| `AssertionsHold` | the code's assertions hold | the order of lock, answers and writes |
| `RejectedIsNotSent` | a rejected transaction is neither sent nor about to be | a callback with a captured copy |
| `ConfirmedWasMined` | confirmed means mined, on the network of the list | network switch between request and answer |
| `DroppedIsDead` | only a transaction whose nonce is spent, and which was not the one mined, is taken off the list | drop counters and cached nonces |
| `PendingIsPolled`, `LockedIsNotPolled` | the receipt poll runs when something is pending in an unlocked wallet, and not in a locked one | start and stop decided on two facts that change apart |
| `ImplementsLifecycle` | refinement of `TxLifecycle`: statuses in order, and a rejection is final unless an approval was waiting for its nonce | any handler writing an old copy back |
| `ApprovalEnds`, `MinedIsNoticed` | an approval ends; a mined transaction leaves the pending ones | a failed request, a poll stopped by a lock |

Two of them see less than their names may suggest. In the passing run the wallet
does not lock while a nonce is asked for, so `AssertionsHold` there says that
nonces are set and published transactions found; the lock is the question of the
run `EthTxAutoLock`. And the counting of blocks is only reached with a receipt of
status 0 (see above), so `DroppedIsDead` checks the comparison with the spent
nonces and says nothing about the count, which `TypeOK` bounds.

### Fairness

`FairSpec` grants what the environment of the code does grant: mojo messages are
delivered (`WF` of `OnKeyringNotice`), the repeating timer fires (`WF` of
`GetBlockNumber`), every command's request is answered or fails, which the
network stack guarantees by its timeout (`WF` of `Answered`), the user comes
back to a locked wallet (`WF` of `Unlock`). Two are strong: a node that
sometimes fails must sometimes answer with a new block (`SF` of `OnNewBlock`)
and with a receipt (`SF` of `ReceiptArrives`), because each failure ends that
request and enables a new one. Nothing is assumed of the user's other choices,
of locking, or of mining. Liveness is checked without restarts: an approval cut
off by one stays `Approved` (see below).

## Permission lifetimes

### State and its source

A permission prompt offers 24 hours, one week, until the site is closed, or for
ever (`P/permission_lifetime_utils.cc`). The decision lives twice: as a content
setting (`settings`), and as an entry (`expirations`, `P/permission_expirations.h`)
under a key that is a time or the storage domain of the site, with a copy in the
preferences (`prefs`). `scheduled` is `current_scheduled_expiration_time_`.
`subscriptions` are the domains the monitor
(`browser/permissions/permission_origin_lifetime_monitor_impl.cc`) reports on.
`tabs` and `closing` are what `TLDEphemeralLifetime` and
`EphemeralStorageService` know of a site: references from tabs, and a running
keep-alive timer. `ends` is a history variable: the end the user chose together
with the setting that is in force.

The entries under a key are a list in the code and a set here: the removals all
remove every equal element. The timer firing at exactly its time or later, the
wall clock, and the user changing settings on the settings page are covered by
`OnExpirationTimer`, `Tick` and `ChangeSetting`. Storing a setting tells the
manager in the same task (`OnContentSettingChanged`), which is why
`PermissionDecided` and `ChangeSetting` both end in `StoreSetting`.

A decision needs no open tab of the site that asks: a frame of another site asks
with its own origin, and only navigations of main frames make the storage of a
site exist.

### Properties

| Property | What it says |
|---|---|
| `PrefsMirror` | memory and preferences say the same after every task, so a crash anywhere loses no end and revives none |
| `TimerIsNearest` | the timer runs for the first time in the container, and only then |
| `EndIsRecorded` | as long as a setting with a chosen end is in force, open or closed, an entry will end it |
| `SiteIsWatched` | an entry until a site is closed is subscribed to |
| `NoEarlyEnd` | a setting is reset only when its end has come, or the user says so |
| `GrantEnds` | liveness: a permission is reset once its time is up, and once its site has been closed, however often the browser is closed |

`GrantEnds` speaks of a site that has been closed, not of one that was never open:
a grant for the latter stays until the next start, or until the site is opened and
closed (see [Other behaviour](#other-behaviour-worth-a-reviewers-time)).
`Redecide` is false in the passing run: a prompt is shown only when there is no
decision yet, which is so unless two tabs show the same prompt at once. The run
`PermissionForever` sets it and shows what happens then.

### Fairness

Timers fire (`WF` of `OnExpirationTimer` and of each clean-up) and the user
starts the browser again (`WF` of `Start`); time need not pass, the user need do
nothing else.

## Automatic NFT pinning

### State and its source

Three services and a node are stacked. `BraveWalletAutoPinService`
(`W/brave_wallet_auto_pin_service.cc`) turns the user's tokens into intents:
`tokens`, `queue` and `current` are the members of that name, `retries` the
delayed `AddOrExecute` tasks, `enabled` the preference. `BraveWalletPinService`
(`W/brave_wallet_pin_service.cc`) runs one intent: it fetches the metadata
(`fetches`) and keeps the `status` of the token in the preferences. A call to
`IpfsLocalPinService` (`I/pin/ipfs_local_pin_service.cc`) becomes a job, and
`IpfsBasePinService` (`I/pin/ipfs_base_pin_service.cc`) runs the jobs one after
the other while it believes the node ready: `jobs`, `job`, `ready`, and `timers`
and `asks` for its delayed polls and their requests. `recorded` is
`kIPFSPinnedCids`, which tokens need a pin. Below is `IpfsService`
(`I/ipfs_service.cc`): `bound` and `up` are the process that was asked to run the
node and the node that answered, `pending` whose callbacks wait in
`pending_launch_callbacks_`. `present` is what the node has pinned, external as
the node is; it outlives the process.

`wallet` is what `BraveWalletService` stores, `news` and `resetNews` the mojo
messages that tell the auto-pin service of it later. `live` marks a call whose
callback is still valid: `ResetLocalState` invalidates the weak pointers of the
auto-pin service and leaves the calls it made where they are. `cli` is the
command line client that empties the node after a wallet reset. `met` and
`upsets` say what has gone wrong, and bound how often.

### Actions

One action is one task, with everything it calls. The one exception is the end of
a job: its callback records, answers the intent, starts the next one and only
then takes the next job, which may end inside `Start()` and so on, all in one
task. `Returning` marks a job whose callback is due, and disables every action
but `GcSweeps` and `JobFinishes`: the nested calls are a run of steps that
nothing can come between, in the order of the code.

Intents that the pin service answers before the call returns are dropped by
`AfterMoot` within the step that reaches them. `NodeAnswers` does what a request
asks and takes the answer off the job; `NodeFails` is an error, after which the
request may have been carried out or not, and so is the answer of a node that
went down. A job that is destroyed with a stopped node may have had any part of
its requests carried out (`JobDestroyed`). What goes wrong is an `Upset`: an
error, metadata that is not on IPFS, a node that does not start, is stopped,
restarted, or crashes, automatic pinning switched off, the wallet reset, the
browser ended.

The component updater reports the client when it is found and again when it is
updated (`OnExecutableReady`, at any time and as often as it likes); only the first
report of a session is fair.

Time is left out: which pinned tokens are due for validation is chosen freely at
each restore, and a delay is a task that may run at once. Identical retries, and
identical fetches of one token nobody waits for, are one; so are polls beyond
`MaxPolls`. The limit of five polls is not modelled because the code never meets
it (see below).

### Properties

| Property | What it says | Why it could fail |
|---|---|---|
| `CurrentIsAwaited` | the only callback under way is that of the running intent, and there is one unless the node was stopped under it | switched off and on with calls under way, restore, retries, nested callbacks |
| `QueueAgrees` | no intent is queued twice, or while it runs, or against what the user asked for last | messages, retries and restore pass one another |
| `JobsAreServed` | a job waits only when a launch will call the queue back or a poll is under way, unless the node was lost | the polls look at the queue and the node at one moment, the jobs come at another |
| `RecordedIsPresent` | what some token is recorded to need is on the node | the garbage collection reads the list, the record and unpins in three tasks; tokens share pins; requests are lost |
| `PinnedIsRecorded` | a token shown as pinned is recorded for each of its pins | status and record are written by different services; validation sets a status without looking at the record |
| `SettledMatchesWallet` | once nothing is under way the wallet's tokens are pinned or refused and no other has a status | failures, restarts in the middle of a step |
| `WishesComeTrue` | and this does come about | a retry that is not posted, a poll that stops, a queue nobody serves |

Conditions, and what they leave out: `RecordedIsPresent` holds until a reset
starts the client; `PinnedIsRecorded` and `SettledMatchesWallet` while automatic
pinning is not switched off and the wallet not reset; the second half of
`CurrentIsAwaited`, `JobsAreServed` and `WishesComeTrue` except losses of the
node. Each condition is needed; what happens without it is listed under
[Other behaviour](#other-behaviour-worth-a-reviewers-time).

### Fairness

`FairSpec` is `WF` of `Progress`: something goes on as long as something can go on
without the user. Delayed tasks run, messages are delivered, the metadata
server and a node that is up answer, a process that was asked to run the node
answers. Errors are not fair: how often they happen is up to the instance. One
fairness condition for all of it is less than the code's scheduling grants, and
enough, because every step of `Progress` uses something up and only finitely many
things can be started. The violation run uses `FairEachSpec`, where each kind of
step goes on by itself, so that its counterexample is not one of a starved task.

## Runs and bounds

| Run | Instance | Shows | Distinct states |
|---|---|---|---|
| `EthTxReplace` | 3 transactions, retry, speed-up, cancel, gas requests, panel close; 1 kept | `AtMostOnce`, `NoNonceGap` | 807,000 |
| `EthTxSession` | 2 transactions, lock, restart, reject, reject all, retry, reverts, another wallet | `TypeOK`, `AssertionsHold`, `RejectedIsNotSent`, `PendingIsPolled`, `LockedIsNotPolled`, `DroppedIsDead` | 901,000 |
| `EthTxChains` | 2 transactions on 2 networks, hardware, signatures for pages, edits, nonces set by hand, reject, reject all, reset, restart | `ConfirmedWasMined`, `ImplementsLifecycle` | 1,017,000 |
| `EthTxLive` | 2 transactions, lock, reverts, fairness | `ApprovalEnds`, `MinedIsNoticed` | 58,000 |
| `EthTxAutoLock` | 1 transaction, lock under a command | violates `KeyringUnlockedAtSigning` | |
| `EthTxSwitchPublish` | 1 transaction, network switch under a command | violates `PublishedIsFound` | |
| `EthTxPanelClose` | 1 transaction, panel close | violates `RejectedStays` | |
| `EthTxApproveTwice` | 2 transactions, the page's button | violates `AtMostOnce` | |
| `PermissionLifetime` | 2 kinds of permission, 2 origins, one of them without a storage domain, 1 site | `TypeOK` and the six above | 89,000 |
| `PermissionForever` | 1 kind, two answers to one question | violates `ForeverStays` | |
| `NftAutoPin` | 2 tokens with a file each and a folder they share, 1 change of the wallet, 1 thing going wrong out of nine | `TypeOK` and the seven above | 322,000 |
| `NftAutoPinCrash` | the same, no change, 1 crash of the node | violates `LaunchesDaemonIfNeeded` | |

Each instance enables in `Ops` the operations its properties are about, and
together the passing runs take every action. Bounds, with what each cuts off:

- `NumTxs` counts every transaction ever created, copies included. Three is
  what a replacement of a retried transaction needs, two what any interference
  between two transactions needs.
- `MaxNonce` leaves room for every transaction to have a nonce of its own and
  one to be used by another wallet.
- `MaxKept` is 10 in the code; `EthTxReplace` sets it to 1 so that retiring
  happens, the other runs keep 10, out of reach.
- `MaxNotices` bounds undelivered keyring messages; one more lock needs one
  more message to be delivered first.
- `again` keeps two nonce requests of one transaction apart; a third that captured
  the same copy would be taken for the second. Two approvals are what the user
  needs to send a transaction twice.
- A click on "Reject all" is one step, although the page sends one message for each
  transaction: what happens if one of them is handled late is listed under
  [Other behaviour](#other-behaviour-worth-a-reviewers-time).
- At most one block number request of the tracker is in flight; the numbers are
  abstracted to "a new block" and "none". The timer interval is longer than any
  answer in practice.
- `MaxTime` is 3 with a lifetime of 1: a grant ends while a later one is in
  force, and that one ends too, so that the timer has to be started again; a third
  outlives the clock. `MaxTabs` 1: a second tab of a site adds only "not the last".
- `MaxUpsets` 1 and `MaxChanges` 1 in `NftAutoPin`: any one thing goes wrong at any
  point while one token is added or removed and the other is at any stage. The
  tokens the wallet starts with are any set, so that adding, removing,
  validating and restoring all meet. Pairs of upsets were looked at with one
  token (two upsets and two changes, 1.2 million states); five of the properties
  are proved for any number of either. `MaxPolls` 1: another poll of the same kind
  finds the same and does the same. Two tokens are what sharing a pin needs; the
  file is pinned recursively and the folder directly, so the two modes differ.
- `NftAutoPin` does not check deadlock: with the bounds used up and all pinned the
  model stops.
- The Ethereum runs do not check deadlock: when all ids are used and everything
  is answered the model stops, as the bound says. `PermissionLifetime` checks
  it: a browser can always be closed and opened.

## Disagreements between the code and its texts

Each is a violation run with a counterexample of a few steps, and an entry under
`findings`.

1. **`EthTxAutoLock`**: `DCHECK(!IsLocked)` in `OnGetNextNonce`
   (`W/eth_tx_manager.cc:551`) fails when the wallet locks while the approval
   waits for its nonce. A release build then stores the transaction as
   `Approved` without a signature, for ever.
2. **`EthTxSwitchPublish`**: `DCHECK(false) << "Transaction should be found"`
   (`W/eth_tx_manager.cc:597`) is reached when the network is switched while a
   transaction is published.
3. **`EthTxPanelClose`**: closing the Android panel rejects a transaction whose
   approval waits for its nonce, the page is told, and it is sent all the same. The
   "Reject all" button of the desktop page (`footer.tsx:68-72`), which nothing
   disables, has the same effect when more than one transaction is queued.
4. **`EthTxApproveTwice`**: the effect in `footer.tsx:48-52` re-enables the
   confirm button the comment at line 60 says is disabled "to prevent being
   clicked again". Opening an edit view and leaving it does too: the footer keeps
   that state and is unmounted (`confirm-transaction-panel.tsx:164-192`).
5. **`PermissionForever`**: a permission answered "24 hours" in one tab and
   "forever" in another is reset after 24 hours.
6. **`NftAutoPinCrash`**: `Shutdown` after a crash (`I/ipfs_service.cc:293`) resets
   the process but keeps `pending_launch_callbacks_`. When the node crashes while
   it starts for a pin job, every later `LaunchDaemon` takes the callback for a
   launch under way and does nothing: the queue that "Launches IPFS daemon if
   needed" (`I/pin/ipfs_base_pin_service.h:31-32`) waits, and so does everybody
   else, until the browser is restarted or an update of the component reports the
   client again.

## Other behaviour worth a reviewer's time

Found while modelling; but for the first, which takes two steps to see, without a
text of the repository that says otherwise, so not reported as runs:

- The monitor names a storage domain whether or not a site with it is open
  (`browser/permissions/permission_origin_lifetime_monitor_impl.cc:55`), although
  its interface promises "an empty string if a storage partition for
  |requesting_origin| doesn't exist" (`P/permission_origin_lifetime_monitor.h:27-29`),
  and the manager would then reset the permission at once
  (`P/permission_lifetime_manager.cc:110`). A wallet request asks with the origin of
  its frame, so a permission "until I close this site" given to a cross-site frame
  whose site has no tab stays until the next start, or until somebody opens that
  site and closes it. `PermissionDecided` allows this; no property says otherwise.
- `IsNonceTaken` (`W/eth_pending_tx_tracker.cc:125`) compares nonces without
  looking at the sender: with two accounts on a network, a confirmed transaction
  of one makes a pending one of the other with the same nonce disappear from the
  list. `DroppedIsDead` is violated with two accounts; the instance has one.
- `known_no_pending_tx_` is learnt on one network and used on the next:
  after a switch nothing restarts the poll for what is pending there.
  `PendingIsPolled` is violated with `switch`.
- `GetHighestContinuousFrom` goes through the submitted transactions in the order
  of their random ids, once: it may stop short of a nonce in use, which then is
  handed out twice. Two approvals whose nonce requests overlap may get the same
  nonce in any case; one of the transactions is then never mined.
- A transaction approved before a restart stays `Approved`; no operation
  applies to it.
- A transaction whose nonce was used by another wallet stays `Submitted`: its
  receipt is `null`, an error to the tracker, which never gets as far as asking
  for the account's nonce.
- A nonce set by hand may leave a gap or repeat an intent; `NoNonceGap` and
  `AtMostOnce` are checked without `setnonce`.
- The hardware path writes a captured copy back as `Unapproved` over whatever
  happened while the nonce was asked for.
- The edit views stay open to the user after a confirmation. Gas, data or nonce
  saved while an approval waits for its nonce is overwritten by its answer, which
  signs what was captured; the user is told that the edit was saved.
- `RejectTransaction` (`W/tx_manager.cc:80`) does not look at the stored status. The
  page sends it for what it knows as queued, "Reject all" once for each
  transaction: a message that is handled after the answer to an approval marks as
  rejected what was sent. `RejectedIsNotSent` and `ImplementsLifecycle` are violated
  when that may happen (the fault `RejectAnyTransaction`).
- `Unlock` returns at the first keyring that does not resume and leaves the
  earlier ones unlocked.
- `OnContentSettingChanged` compares entries with the effective setting: an
  override by policy or an extension removes the entry, and the grant outlives it
  for good.
- Stopping the node destroys the running job with its callback
  (`I/pin/ipfs_base_pin_service.cc:36`). The running intent is then never
  answered and no other is run until automatic pinning is switched off and on;
  a garbage collection destroyed this way leaves `gc_task_posted_` set and there
  is no other. `RestartDaemon`, which every change of the DNS configuration
  causes (`I/ipfs_service.cc:301`), does the same.
- After a crash of a node that was ready `daemon_ready_` stays set: the jobs go
  on and each fails inside `Start()`; nothing starts the node again.
- The limit on polls for peers is never met: the attempt is counted up after its
  old value was passed on (`I/pin/ipfs_base_pin_service.cc:53`).
- `LsPinCli` lists recursive pins only, so a reset leaves the folders of tokens
  pinned; and the end of the client clears the record and the statuses, those of
  tokens that were pinned since included. `RecordedIsPresent` is violated without
  its condition.
- Switching off leaves the calls of the pin service under way. A fetch that
  answers later pins a token the user has removed since, without anybody
  removing it again; and with two switch-offs and two changes of the wallet an
  old removal can be run between the answer of a validation and its effect,
  after which a token is shown as pinned that is not recorded. The properties
  exclude switching off for this reason.
- A validation never answers `kValidationError`, although the auto-pin service has
  a case for it: only a cancelled job would, and that one is destroyed at once.

## What is proved

The theorems hold for every value of the constants the named assumptions allow;
TLC has found each statement true of an instance first.

**`EthTxManager_proofs`**, from `StoreAssumption`, `SignatureAssumption`,
`NoMetaAssumption` and `ManagerAssumption`:

- `TypeCorrect`: `TypeOK` is inductive as it stands. The lemmas follow the code:
  one for each store operation, one for each helper that several handlers call
  (`SaveTx`, `Sign`, `UpdatePendingTransactions`, ...), one for each action. The
  hard parts are that a callback writes back a copy it captured, so `Calls` must
  be typed with its contents, and that the drop counter stays below its limit.
- `LockedNeverPolled`: `LockedIsNotPolled` with `TypeOK`. Every handler that may
  start the tracker ends in `ShouldRun`, which asks for the lock; locking itself
  leaves the tracker running and a `Locked` message behind, which is what the
  invariant allows.

- `PendingAlwaysPolled`: `PendingIsPolled` under `StaysOnNetwork`: no `switch`, and
  no reset while a command runs. The invariant `Watched` adds that what the manager
  has learnt of the pending transactions (`known_no_pending_tx_`) is true of the
  selected network, and that what is asked for is not pending yet. A switch breaks
  just that (the hazard at `W/tx_manager.cc:101`), and a reset under a command lets a
  callback write into the next wallet, whose manager hears only of its creation.

**`EthTxClients_proofs`** is about clients that wait. `PatientClients` excludes
`interrupt` and `reconfirm`: the user does not confirm or reject a transaction again
before the answer, and does not lock, switch or reset under a command. Neither the
browser process nor the page enforces it, so this is a condition on its clients;
runs `EthTxAutoLock`, `EthTxSwitchPublish` and `EthTxApproveTwice` show what happens
without it. Everything else stays, under a running command too: edits and nonces
set by hand, "Reject all" and the closing panel, gas requests, hardware accounts,
replacements, retries, restarts, reverts, other wallets.

The invariant `Orderly` says of each transaction how its entry, the requests on it
and what the nodes have of it fit together (`Proper`, ten named parts). None of the
properties is inductive without it, and its parts need one another: that a
confirmed transaction was mined needs that a receipt request carries the hash
listed (`ReceiptsFit`), which needs that nobody writes an old copy over a
transaction that is out, which needs that at most one command runs on it
(`OneCommand`), on the selected network (`CommandsAreHere`), and that it is not yet
out while its nonce is asked for (`AwaitsNonce`: still queued, rejected meanwhile, or
retired since) and approved while it is published (`AwaitsPublish`). Two lemmas carry
the proof: a handler leaves the transactions it does not write proper
(`StaysProper`, `HandlerStep`), and the one it writes is proper again
(`WrittenIdle`, `WrittenPublish`). Then

- `AssertionsAlwaysHold`, `RejectedNeverSent`, `ConfirmedAlwaysMined` follow from
  `Orderly`;
- `LifecycleImplemented`: `Spec => ImplementsLifecycle`. Every handler writes one
  entry and lets others go (`Rewrites`); `WriteMoves` turns that into a step of
  `TxLifecycle` if the old and new status are an edge, which `Orderly` gives for each
  callback. A request for a nonce and its answer are the steps `Ask` and `Answer`.

**`EthTxNonces_proofs`** adds the chain and, with `OwnNonces`, clients that set no
nonce by hand: a user may repeat a nonce or leave a gap on purpose.

- `ChainInOrder`, for any client: nodes hold nonces to come, have mined nonces that
  are spent, and no two mined transactions share one.
- `HappensAtMostOnce` (`AtMostOnce`) from `Decided`: all uses of an intent that have
  a nonce, listed, in a gas request or with a node, have the same account, network
  and nonce (`OneNonce`); what has none yet is alone (`NoneIsUndecided`). Whether the
  executed one is the original or a copy is then up to the chain, which takes one.
- `NoncesNeverGap` (`NoNonceGap`) from `Gapless`: below every nonce the wallet uses,
  the unspent ones are in the pool. The key lemma is about `GetFinalNonce`
  (`FinalNonceCovered`): the answer may repeat a nonce in use, but never skips one,
  because the pass advances over submitted transactions only and those are in the
  pool or spent. The function the pass is defined by exists for every store
  (`PassExists`, by well-founded recursion over `0 .. NumTxs`).
- `DroppedAlwaysDead` (`DroppedIsDead`) for `OneAccount`: `IsNonceTaken` does not ask
  who sent the confirmed transaction (the hazard at
  `W/eth_pending_tx_tracker.cc:129`), and with two accounts the statement is false.
  The one listed as confirmed was mined, so the nonce is spent, and by
  `ChainInOrder` the dropped one was not; a receipt with status 0 says the same of
  itself. Nothing else takes a pending transaction off the list: what
  `AddOrUpdateTx` retires is confirmed or rejected (`StoringKeepsPending`).

**`PermissionLifetime_proofs`**, from `LifetimeAssumption`. The inductive
invariant is `LifetimeInv`:

- `TypeOK`, by which an entry waits for a time or for a site (`TypeCorrect`);
- `MirrorInv`: container, preferences and timer agree (`PrefsAlwaysMirror`,
  `TimerAlwaysNearest`). It rests on two lemmas about the code's helpers: an
  update of the preferences for all the types and keys that changed makes them
  equal to the container (`MirrorUpdate`), and entries that wait for a site do not
  move the timer (`NearestSame`), which is why the code may skip the timer there.
  `NearestExpiration` is a `CHOOSE`; that it chooses a first time uses the
  well-foundedness of `<` (`FirstTime`);
- `ClosedSites`, an auxiliary invariant: a site about to be cleaned up has no
  tab, and a closed profile has neither;
- `SiteIsWatched` (`SiteAlwaysWatched`): it needs the mirror, because the clean-up
  ends a subscription and must take every entry of its site with it;
- `EndIsRecorded` (`EndAlwaysRecorded`), which is stated over the preferences and
  needs the mirror, so that what a task does to the container reaches them.

`NoEarlyEndWithOnePrompt` and `ForeverStaysWithOnePrompt` assume
`Redecide = FALSE` and add `EntriesAreCurrent`: every entry is the end of the
setting in force. That is just what a second answer to one question breaks:
`OnContentSettingChanged` removes the entries of *another* setting only, so a
"forever" after a "24 hours" with the same answer leaves the entry behind. The
theorem and the run `PermissionForever` are the two sides of that condition.

**`NftAutoPin_proofs`**, **`NftAutoPinJobs_proofs`**, **`NftAutoPinRecord_proofs`**
and **`NftAutoPinPlan_proofs`**, from `PinJobsAssumption` and `AutoPinAssumption`
(finitely many tokens; any pins, bounds and upsets). The proofs are for every
number of tokens, changes and failures, the run is for two of the first and one
of each of the others.

- `TypeCorrect` and `CurrentAwaited` share the invariant `IntentAwaited`: the
  callbacks that are waited for, of fetches, queued jobs and the running job
  together, are at most one, and it is that of `current`. Type correctness needs
  it because a failed intent is retried from `current_`, which must then be one:
  `OnTaskFinished` dereferences it without looking. The lemmas follow the calls:
  what `CheckQueue` starts (`CheckQueueHandover`), how the line of jobs moves
  (`DoNextJobMoves`, `AddJobMoves`), then one lemma per action.
- `RecordKept` (`RecordedIsPresent`) from `RecordSafe`: what is being unpinned is
  recorded for no token, and an "add" that is going well has pinned what the node
  has answered for. The record cannot grow while a collection sweeps, because a
  job records only at its end and there is one job.
- `WaitingJobsServed` (`JobsAreServed`) from `Served`: while the node is not lost,
  a queue that waits is in the callbacks of a launch, or a poll is under way.
- `QueueAgreesAlways` (`QueueAgrees`): the invariant is the property. The work is
  in the sequences: what `OnTokenAdded` removes from the queue, and that a
  restored queue lists each wish once (`OrderOnce`, `RestoredAgrees`).
- `PinnedRecorded` (`PinnedIsRecorded`) from `RecordTrue` and `IntentAwaited`:
  without a switch-off every call is waited for, so there is one; a token is
  validated only if it was pinned (`HeadIsNotMoot`), hence recorded, and no
  removal can come in between.
- `SettledTokens` (`SettledMatchesWallet`) from `PlanMade`, which uses the three
  invariants above. The last message about a token tells what the wallet holds
  (`NewsTrue`), a token without a message is known as the wallet has it
  (`RestKnown`), and every token has a plan (`HasPlan`): a wanted one is being
  added or validated, waits in the queue or for its retry, or is pinned or refused
  with no deletion running; an unwanted one is being deleted, waits to be, or has
  no status. That needs a third clause, `ChecksArePinned`: a token that waits to be
  validated is pinned, has no retry and no other intent queued, or its validation
  would be skipped or would undo what another intent did. `CheckQueue` keeps the
  plans because what it skips has nothing to do (`StartingPlans`); `AddOrExecute`
  because it turns away only what is queued, running or not wanted
  (`AddOrExecutePlans`); a restart because `Restore` plans for every token from the
  preferences alone (`RestoredPlans`). Switching off and resetting drop callbacks
  whose jobs still write a status later, hence the condition.

Only model-checked: liveness under fairness (`ApprovalEnds`, `MinedIsNoticed`,
`GrantEnds`, `WishesComeTrue`), which is out of reach of the prover. Every other
property of a passing run is stated by a theorem, where one needs a condition on
the clients, the network or the accounts under the condition given above.

## What is not modelled

`PROJECT.json` lists every component with the reason. In short: conversions
(RLP, ABI, JSON, addresses), cryptography, services that are one request per
call, presentation code, the small changes to Chromium classes whose other half
is not in the repository, build scripts and vendored code. Within the modelled
components: gas amounts, payloads, groups and times of transactions, log
wording, migration of old preferences, and
`ResubmitPendingTransactions`, which nothing calls. Of NFT pinning: the calls of
`WalletPinService` from outside the auto-pin service (no page makes them), the
parsing of metadata, tokens that are not supported, the times of validations,
imports, keys, statistics and the update of the IPFS client, and launches for IPFS
pages that pass no callback, which change nothing a launch with one does not.

## Plan

In order; each step is a module, its instance and its proofs.

1. *Done*: `EthTxStore`, `EthNonceTracker`, `EthTxManager`, `TxLifecycle`;
   `PermissionLifetime`.
2. `KeyringLock`: keyrings one by one, partial unlocking, the auto-lock timer and
   its reset; that no signature is made while locked. Abstract specification:
   one lock variable, as `EthTxManager` uses it.
3. `WalletRequests`: the queues of `BraveWalletService` and the callbacks of
   `EthereumProviderImpl`; each request is answered exactly once, and every
   answer is to the request the user saw.
4. `EphemeralStorage`: first-party storage clean-up at closing, shutdown and
   start, composed with the tabs of `PermissionLifetime`.
5. `SolTxManager`, `FilTxManager` over the store, with block height expiry.
6. *Done*: `IpfsDaemon`, `IpfsPinJobs`, `NftAutoPin`.
7. Pure algorithms against reference definitions: `ViewCounterModel`,
   `TimePeriodStorage`.

Theorems worth proving next: what the modules of steps 2 to 5 promise, and, for
two accounts, what `IsNonceTaken` still guarantees to the account that sent the
confirmed transaction.
