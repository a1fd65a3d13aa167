---------------------------- MODULE EthTxManager ----------------------------
(***************************************************************************)
(* The life of an Ethereum transaction in the wallet: EthTxManager and the *)
(* TxManager it extends, EthPendingTxTracker, EthBlockTracker, the lock    *)
(* state of KeyringService and the selected network of JsonRpcService.     *)
(*                                                                         *)
(* All of it runs on one sequence.  What interleaves is what is in flight: *)
(* the JSON-RPC requests whose callbacks run later ("calls"), the observer *)
(* messages KeyringService has sent ("notices"), the poll of the block     *)
(* tracker, the user, the page that asked for the transaction, and the     *)
(* chain itself.  One action is one uninterrupted task of that sequence.   *)
(*                                                                         *)
(* A definition marked FAULT is not part of the model: it is a way its     *)
(* neighbour could be wrong, kept to show that a property would notice.    *)
(***************************************************************************)
EXTENDS EthNonceTracker, Sequences

CONSTANTS
  Ops,           \* what the environment does in this instance (see OpNames)
  MaxNotices,    \* bound: undelivered keyring notices
  DefaultChain   \* the network selected in a fresh profile

OpNames ==
  {"gas",         \* new transactions wait for a gas estimate first
   "signonly",    \* pages ask for signatures they broadcast themselves
   "hardware",    \* accounts on hardware devices
   "edit",        \* the user edits gas or data before approving
   "setnonce",    \* the user sets the nonce before approving
   "reject",      \* the user rejects
   "rejectall",   \* the user rejects everything that is queued
   "panelclose",  \* the Android wallet panel closes
   "replace",     \* the user speeds up or cancels a submitted transaction
   "retry",       \* the user retries a failed transaction
   "lock",        \* the wallet locks and is unlocked again
   "switch",      \* the user selects another network
   "reset",       \* the user resets the wallet
   "restart",     \* the browser restarts
   "revert",      \* the chain mines a transaction as failed
   "outside",     \* another wallet sends from the same accounts
   "interrupt",   \* lock, switch and reset also come while a command runs
   "reconfirm"}   \* the user confirms or rejects again before the answer

ASSUME ManagerAssumption ==
  /\ Ops \subseteq OpNames
  /\ MaxNotices \in Nat \ {0}
  /\ DefaultChain \in Chains

Keyring == {"none", "locked", "unlocked"}

Notices == {"KeyringCreated", "KeyringReset", "Locked", "Unlocked"}

\* The assertions of the code an instance may fail: eth_tx_manager.cc:551,
\* eth_tx_manager.cc:597, eth_nonce_tracker.cc:38 and :51.
Assertions == {"KeyringUnlocked", "TransactionFound", "NonceSet"}

(* The requests in flight, with what their callbacks have bound. *)

GasCalls     == [type: {"gas"}, meta: Meta, intent: 0 .. NumTxs]
\* "again": asked for while another command on the transaction runs, which
\* keeps the two apart (bound: two of a kind for one transaction).
NonceCalls   == [type: {"nonce"}, id: TxIds, meta: Meta, chain: Chains,
                 hardware: BOOLEAN, again: BOOLEAN]
PublishCalls == [type: {"publish"}, id: TxIds, raw: Signatures,
                 chain: Chains, accepted: BOOLEAN]
ReceiptCalls == [type: {"receipt"}, id: TxIds, hash: Signatures, chain: Chains]
CountCalls   == [type: {"count"}, from: Accounts, chain: Chains]

Calls == GasCalls \cup NonceCalls \cup PublishCalls \cup ReceiptCalls
           \cup CountCalls

VARIABLES
  chain,            \* the selected network: chain_ids_[ETH], network_urls_[ETH]
  keyring,          \* the default keyring
  txs,              \* the transaction dictionaries, see EthTxStore
  calls,            \* requests in flight
  notices,          \* keyring observer messages not delivered yet, in order
  running,          \* block_tracker_->IsRunning()
  polling,          \* an eth_blockNumber request of the tracker is in flight
  knownNoPending,   \* known_no_pending_tx_
  nonceMap,         \* network_nonce_map_
  dropCount,        \* dropped_blocks_counter_; absent is 0
  netNonce,         \* chain: how many transactions of an account are mined
  pool,             \* chain: signed transactions the nodes hold
  mined,            \* chain: mined with status 1
  reverted,         \* chain: mined with status 0
  intent,           \* history: 0 for an unused id, otherwise the transaction
                    \* this one replaces or repeats, itself if none.  A copy
                    \* of one that never had a nonce is a new transaction
  dchecks           \* history: the assertions that have failed

managerVars == <<running, polling, knownNoPending>>
trackerVars == <<nonceMap, dropCount>>
networkVars == <<netNonce, pool, mined, reverted>>
vars == <<chain, keyring, txs, calls, notices, managerVars, trackerVars,
          networkVars, intent, dchecks>>

TypeOK ==
  /\ chain \in Chains
  /\ keyring \in Keyring
  /\ txs \in Stores
  /\ calls \in SUBSET Calls
  /\ notices \in Seq(Notices)
  /\ running \in BOOLEAN
  /\ polling \in BOOLEAN
  /\ knownNoPending \in BOOLEAN
  /\ nonceMap \in [Accounts -> Nonces \cup {None}]
  /\ dropCount \in [Signatures -> 0 .. 3]
  /\ netNonce \in [Chains -> [Accounts -> Nonces]]
  /\ pool \in [Chains -> SUBSET SignedTx]
  /\ mined \in [Chains -> SUBSET SignedTx]
  /\ reverted \in [Chains -> SUBSET SignedTx]
  /\ intent \in [TxIds -> 0 .. NumTxs]
  /\ dchecks \in SUBSET Assertions

\* A fresh profile: no wallet, no transaction.
Init ==
  /\ chain = DefaultChain
  /\ keyring = "none"
  /\ txs = EmptyStore
  /\ calls = {}
  /\ notices = <<>>
  /\ running = FALSE
  /\ polling = FALSE
  /\ knownNoPending = FALSE
  /\ nonceMap = [a \in Accounts |-> None]
  /\ dropCount = [h \in Signatures |-> 0]
  /\ netNonce = [c \in Chains |-> [a \in Accounts |-> 0]]
  /\ pool = [c \in Chains |-> {}]
  /\ mined = [c \in Chains |-> {}]
  /\ reverted = [c \in Chains |-> {}]
  /\ intent = [i \in TxIds |-> 0]
  /\ dchecks = {}

-----------------------------------------------------------------------------
(* The wallet page (brave_wallet_ui).  It gives commands on what it shows  *)
(* as unapproved.  Nothing in the browser process asks whether a command   *)
(* on the same transaction is still running.                               *)

Does(op) == op \in Ops

CallsOf(type) == {c \in calls : c.type = type}

Tx(i) == GetTx(txs, chain, i)

\* A command on transaction i whose answer is still to come.
CommandsOn(i) == {c \in CallsOf("nonce") \cup CallsOf("publish") : c.id = i}

\* The transactions the page shows as waiting for the user.
Queue == ByStatus(txs, chain, "Unapproved")

\* The edit views, open to the user whatever is under way.
ClientMayCommand(i) == keyring = "unlocked" /\ i \in Queue

\* Confirm and Reject: disabled once the user has confirmed, but only until
\* the length of the queue changes or an edit view has been opened and left.
\* Without "reconfirm" the user does neither under a running command.
ClientMayConfirm(i) ==
  /\ ClientMayCommand(i)
  /\ Does("reconfirm") \/ CommandsOn(i) = {}

\* The wallet neither locks nor leaves the network under a running command.
NoCommandRuns ==
  \/ Does("interrupt")
  \/ CallsOf("gas") \cup CallsOf("nonce") \cup CallsOf("publish") = {}

-----------------------------------------------------------------------------
(* Shared parts of the handlers.  s is the dictionaries and cs the calls   *)
(* the handler has produced so far.                                        *)

SaveTx(i, m, cs) ==
  /\ txs' \in AddOrUpdateTx(txs, chain, i, m)
  /\ calls' = cs

\* FAULT: the lock is not asked about.
ShouldRunWhenLocked(known, run) ==
  IF keyring = "unlocked" /\ ~run THEN TRUE ELSE run /\ ~known

\* TxManager::CheckIfBlockTrackerShouldRun
ShouldRun(known, run) ==
  IF keyring = "unlocked" /\ ~run
    THEN TRUE
    ELSE run /\ ~(keyring = "locked" \/ known)

Pending(s, c) == ByStatus(s, c, "Submitted") \cup ByStatus(s, c, "Signed")

\* Any confirmed transaction of the network counts, whoever sent it.
IsNonceTaken(s, c, i) ==
  \E j \in ByStatus(s, c, "Confirmed") \ {i} : s[c][j].nonce = s[c][i].nonce

\* FAULT: the block tracker is decided on before the pending
\* transactions are counted.
UpdateAfterTracker(s, cs, run) ==
  LET pending == Pending(s, chain)
      taken   == {i \in pending : IsNonceTaken(s, chain, i)}
  IN  /\ txs' = DeleteAll(s, chain, taken)
      /\ calls' = cs \cup {[type |-> "receipt", id |-> i, chain |-> chain,
                            hash |-> s[chain][i].hash] : i \in pending \ taken}
      /\ knownNoPending' = (pending = {})
      /\ running' = ShouldRun(knownNoPending, run)

\* EthTxManager::UpdatePendingTransactions and the tracker's function of that
\* name.  The count includes the transactions just dropped.
UpdatePendingTransactions(s, cs, run) ==
  LET pending == Pending(s, chain)
      taken   == {i \in pending : IsNonceTaken(s, chain, i)}
  IN  /\ txs' = DeleteAll(s, chain, taken)
      /\ calls' = cs \cup {[type |-> "receipt", id |-> i, chain |-> chain,
                            hash |-> s[chain][i].hash] : i \in pending \ taken}
      /\ knownNoPending' = (pending = {})
      /\ running' = ShouldRun(pending = {}, run)

-----------------------------------------------------------------------------
(* Adding a transaction *)

\* ContinueAddUnapprovedTransaction: the network is the one selected now.
ContinueAddUnapprovedTransaction(m, of, cs) ==
  \E i \in TxIds :
    /\ intent[i] = 0
    /\ SaveTx(i, [m EXCEPT !.chain = chain], cs)
    /\ intent' = [intent EXCEPT ![i] = IF of = 0 THEN i ELSE of]

\* What a copy of transaction i repeats.
IntentOfCopy(i) == IF Tx(i).nonce = None THEN 0 ELSE intent[i]

\* AddUnapprovedTransaction and AddUnapproved1559Transaction: with gas price
\* and limit given the transaction is added at once, otherwise after the
\* requests for them.
AddUnapprovedTransaction(a, signOnly) ==
  LET m == [status |-> "Unapproved", from |-> a, nonce |-> None, sig |-> None,
            hash |-> None, signOnly |-> signOnly, chain |-> chain]
  IN  /\ keyring = "unlocked"
      /\ signOnly => Does("signonly")
      /\ \/ ContinueAddUnapprovedTransaction(m, 0, calls)
         \/ /\ Does("gas")
            /\ calls' = calls \cup {[type |-> "gas", meta |-> m, intent |-> 0]}
            /\ UNCHANGED <<txs, intent>>
      /\ UNCHANGED <<chain, keyring, notices, managerVars, trackerVars,
                     networkVars, dchecks>>

\* OnGetGasPrice, OnGetGasOracleForUnapprovedTransaction and the callbacks of
\* the replacements.  Without an answer the command ends in an error; a failed
\* gas limit estimate does not stop it.
OnGetGas(c) ==
  /\ \/ ContinueAddUnapprovedTransaction(c.meta, c.intent, calls \ {c})
     \/ /\ calls' = calls \ {c}
        /\ UNCHANGED <<txs, intent>>
  /\ UNCHANGED <<chain, keyring, notices, managerVars, trackerVars,
                 networkVars, dchecks>>

\* SpeedupOrCancelTransaction: a copy with the same nonce and another payload,
\* added when the gas price is known.
SpeedupOrCancelTransaction(i) ==
  /\ Does("replace") /\ keyring = "unlocked"
  /\ Tx(i) # None /\ Tx(i).status = "Submitted"
  /\ calls' = calls \cup
       {[type |-> "gas", intent |-> IntentOfCopy(i),
         meta |-> [Tx(i) EXCEPT !.status = "Unapproved", !.hash = None,
                                !.signOnly = FALSE, !.sig = Stale]]}
  /\ UNCHANGED <<chain, keyring, txs, notices, managerVars, trackerVars,
                 networkVars, intent, dchecks>>

\* FAULT: the retried transaction asks for a nonce of its own.
RetryWithNewNonce(i) ==
  /\ Does("retry") /\ keyring = "unlocked"
  /\ Tx(i) # None /\ Tx(i).status = "Error"
  /\ ContinueAddUnapprovedTransaction(
       [Tx(i) EXCEPT !.status = "Unapproved", !.hash = None, !.nonce = None,
                     !.signOnly = FALSE], IntentOfCopy(i), calls)
  /\ UNCHANGED <<chain, keyring, notices, managerVars, trackerVars,
                 networkVars, dchecks>>

\* RetryTransaction: an identical copy, nonce and signature included.
RetryTransaction(i) ==
  /\ Does("retry") /\ keyring = "unlocked"
  /\ Tx(i) # None /\ Tx(i).status = "Error"
  /\ ContinueAddUnapprovedTransaction(
       [Tx(i) EXCEPT !.status = "Unapproved", !.hash = None,
                     !.signOnly = FALSE], IntentOfCopy(i), calls)
  /\ UNCHANGED <<chain, keyring, notices, managerVars, trackerVars,
                 networkVars, dchecks>>

-----------------------------------------------------------------------------
(* Editing and rejecting *)

Edited(m) == [m EXCEPT !.sig = IF @ = None THEN None ELSE Stale]

\* SetGasPriceAndLimit-, SetGasFeeAndLimit- and SetDataForUnapprovedTransaction
SetGasOrDataForUnapprovedTransaction(i) ==
  /\ Does("edit") /\ ClientMayCommand(i)
  /\ SaveTx(i, Edited(Tx(i)), calls)
  /\ UNCHANGED <<chain, keyring, notices, managerVars, trackerVars,
                 networkVars, intent, dchecks>>

SetNonceForUnapprovedTransaction(i, n) ==
  /\ Does("setnonce") /\ ClientMayCommand(i)
  /\ SaveTx(i, [Edited(Tx(i)) EXCEPT !.nonce = n], calls)
  /\ UNCHANGED <<chain, keyring, notices, managerVars, trackerVars,
                 networkVars, intent, dchecks>>

\* FAULT: any listed transaction can be rejected.
RejectAnyTransaction(i) ==
  /\ Does("reject") /\ keyring = "unlocked" /\ Tx(i) # None
  /\ SaveTx(i, [Tx(i) EXCEPT !.status = "Rejected"], calls)
  /\ UNCHANGED <<chain, keyring, notices, managerVars, trackerVars,
                 networkVars, intent, dchecks>>

RejectTransaction(i) ==
  /\ Does("reject") /\ ClientMayConfirm(i)
  /\ SaveTx(i, [Tx(i) EXCEPT !.status = "Rejected"], calls)
  /\ UNCHANGED <<chain, keyring, notices, managerVars, trackerVars,
                 networkVars, intent, dchecks>>

\* TxService::RejectAllTransactions, for the selected network: the Android
\* browser calls it when the wallet panel closes, whatever is in flight.  The
\* "Reject all" button, never disabled, rejects the queue one by one; that its
\* messages are handled without anything in between is an abstraction.
RejectAllTransactions ==
  /\ \/ Does("panelclose")
     \/ Does("rejectall") /\ keyring = "unlocked" /\ Cardinality(Queue) > 1
  /\ txs' = [txs EXCEPT ![chain] =
       [i \in TxIds |-> IF i \in Queue
                         THEN [@[i] EXCEPT !.status = "Rejected"]
                         ELSE @[i]]]
  /\ UNCHANGED <<chain, keyring, calls, notices, managerVars, trackerVars,
                 networkVars, intent, dchecks>>

-----------------------------------------------------------------------------
(* Approving, with a software account *)

\* OnGetNextNonce with a nonce: sign for the network of the approval, store
\* the captured meta under the network selected now, publish.
Sign(i, m, k, n, cs) ==
  LET sig == IF keyring = "unlocked"
               THEN [id |-> i, from |-> m.from, nonce |-> n, chain |-> k]
               ELSE m.sig
      approved == [m EXCEPT !.status = "Approved", !.nonce = n, !.sig = sig]
  IN  \/ /\ sig = None
         /\ SaveTx(i, approved, cs)
         /\ UNCHANGED managerVars
      \/ /\ sig # None /\ m.signOnly
         /\ \E s \in AddOrUpdateTx(txs, chain, i, approved) :
              UpdatePendingTransactions(
                Put(s, chain, i, [approved EXCEPT !.status = "Signed",
                                                  !.hash = sig]),
                cs, running)
         /\ UNCHANGED polling
      \/ /\ sig # None /\ ~m.signOnly
         /\ SaveTx(i, approved,
                   cs \cup {[type |-> "publish", id |-> i, raw |-> sig,
                             chain |-> chain, accepted |-> FALSE]})
         /\ UNCHANGED managerVars

\* DCHECK(!keyring_service_->IsLocked(mojom::kDefaultKeyringId))
CheckKeyringUnlocked ==
  IF keyring = "locked" THEN {"KeyringUnlocked"} ELSE {}

ApproveTransaction(i) ==
  /\ ClientMayConfirm(i)
  /\ \/ /\ Tx(i).nonce = None
        /\ calls' = calls \cup
             {[type |-> "nonce", id |-> i, meta |-> Tx(i), chain |-> chain,
               hardware |-> FALSE, again |-> CommandsOn(i) # {}]}
        /\ UNCHANGED <<txs, managerVars, dchecks>>
     \/ /\ Tx(i).nonce # None
        /\ dchecks' = dchecks \cup CheckKeyringUnlocked
        /\ Sign(i, Tx(i), chain, Tx(i).nonce, calls)
  /\ UNCHANGED <<chain, keyring, notices, trackerVars, networkVars, intent>>

\* The nonce tracker's answer, from what the node reports: a node may lag
\* behind the chain, never be ahead of it.
CheckNonceSet(a) ==
  IF NoncesAreSet(txs, chain, a) THEN {} ELSE {"NonceSet"}

OnGetNextNonce(c) ==
  /\ ~c.hardware
  /\ \E reported \in 0 .. netNonce[c.chain][c.meta.from], n \in Nonces :
       /\ n = GetFinalNonce(txs, chain, c.meta.from, reported)
       /\ Sign(c.id, c.meta, c.chain, n, calls \ {c})
  /\ dchecks' = dchecks \cup CheckNonceSet(c.meta.from)
                        \cup CheckKeyringUnlocked
  /\ UNCHANGED <<chain, keyring, notices, trackerVars, networkVars, intent>>

\* Both callbacks of the nonce tracker record its failure the same way.
OnGetNextNonceFailed(c) ==
  /\ SaveTx(c.id, [c.meta EXCEPT !.status = "Error"], calls \ {c})
  /\ UNCHANGED <<chain, keyring, notices, managerVars, trackerVars,
                 networkVars, intent, dchecks>>

\* FAULT: the failure is only reported, not stored.
ForgetsFailure(m) == m

\* What is stored when the node refuses the transaction, or cannot be reached.
PublishFailed(m) == [m EXCEPT !.status = "Error"]

OnPublishTransaction(c) ==
  LET m == Tx(c.id)
  IN  /\ \/ /\ m = None
            /\ calls' = calls \ {c}
            /\ dchecks' = dchecks \cup {"TransactionFound"}
            /\ UNCHANGED <<txs, managerVars>>
         \/ /\ m # None /\ c.accepted
            /\ \E s \in AddOrUpdateTx(txs, chain, c.id,
                          [m EXCEPT !.status = "Submitted", !.hash = c.raw]) :
                 UpdatePendingTransactions(s, calls \ {c}, running)
            /\ UNCHANGED <<polling, dchecks>>
         \/ /\ m # None
            /\ SaveTx(c.id, PublishFailed(m), calls \ {c})
            /\ UNCHANGED <<managerVars, dchecks>>
      /\ UNCHANGED <<chain, keyring, notices, trackerVars, networkVars, intent>>

-----------------------------------------------------------------------------
(* Approving, with a hardware account *)

GetNonceForHardwareTransaction(i) ==
  /\ Does("hardware") /\ ClientMayConfirm(i)
  /\ \/ /\ Tx(i).nonce = None
        /\ calls' = calls \cup
             {[type |-> "nonce", id |-> i, meta |-> Tx(i), chain |-> chain,
               hardware |-> TRUE, again |-> CommandsOn(i) # {}]}
        /\ UNCHANGED txs
     \/ /\ Tx(i).nonce # None
        /\ SaveTx(i, Tx(i), calls)
  /\ UNCHANGED <<chain, keyring, notices, managerVars, trackerVars,
                 networkVars, intent, dchecks>>

OnGetNextNonceForHardware(c) ==
  /\ c.hardware
  /\ \E reported \in 0 .. netNonce[c.chain][c.meta.from], n \in Nonces :
       /\ n = GetFinalNonce(txs, chain, c.meta.from, reported)
       /\ SaveTx(c.id, [c.meta EXCEPT !.nonce = n], calls \ {c})
  /\ dchecks' = dchecks \cup CheckNonceSet(c.meta.from)
  /\ UNCHANGED <<chain, keyring, notices, managerVars, trackerVars,
                 networkVars, intent>>

\* The device signed the message GetTransactionMessageToSign made for the
\* network selected at that time, or its answer cannot be used.
ProcessHardwareSignature(i, k) ==
  /\ Does("hardware") /\ ClientMayConfirm(i)
  /\ Tx(i).nonce # None
  /\ k = chain \/ Does("interrupt")
  /\ LET sig == [id |-> i, from |-> Tx(i).from, nonce |-> Tx(i).nonce,
                 chain |-> k]
     IN  \/ SaveTx(i, [Tx(i) EXCEPT !.status = "Approved", !.sig = sig],
                   calls \cup {[type |-> "publish", id |-> i, raw |-> sig,
                                chain |-> chain, accepted |-> FALSE]})
         \/ SaveTx(i, [Tx(i) EXCEPT !.status = "Error"], calls)
  /\ UNCHANGED <<chain, keyring, notices, managerVars, trackerVars,
                 networkVars, intent, dchecks>>

-----------------------------------------------------------------------------
(* Watching pending transactions *)

\* The timer of the block tracker
GetBlockNumber ==
  /\ running /\ ~polling
  /\ polling' = TRUE
  /\ UNCHANGED <<chain, keyring, txs, calls, notices, running, knownNoPending,
                 trackerVars, networkVars, intent, dchecks>>

\* OnGetBlockNumber with a new block number, and OnNewBlock.  The answer counts
\* even if the tracker was stopped in between.
OnNewBlock ==
  /\ polling
  /\ polling' = FALSE
  /\ UpdatePendingTransactions(txs, calls, running)
  /\ UNCHANGED <<chain, keyring, notices, trackerVars, networkVars, intent,
                 dchecks>>

\* The block number is the one known, or the request failed.
OnNoNewBlock ==
  /\ polling
  /\ polling' = FALSE
  /\ UNCHANGED <<chain, keyring, txs, calls, notices, running, knownNoPending,
                 trackerVars, networkVars, intent, dchecks>>

\* FAULT: the counter is not reset.
CountsOn(h, used, dropped) ==
  IF used THEN dropCount ELSE [dropCount EXCEPT ![h] = @ + 1]

\* dropped_blocks_counter_ once ShouldTxDropped has answered.
CountDropped(h, used, dropped) ==
  IF used THEN dropCount
  ELSE [dropCount EXCEPT ![h] = IF dropped THEN 0 ELSE @ + 1]

\* ShouldTxDropped for the stored transaction m: the answer, and the requests
\* and the counters it leaves.
ShouldTxDropped(i, m, cs) ==
  LET known   == nonceMap[m.from] # None
      used    == known /\ (m.nonce = None \/ m.nonce < nonceMap[m.from])
      dropped == used \/ dropCount[m.hash] >= 3
  IN  /\ txs' = IF dropped THEN DeleteTx(txs, chain, i) ELSE txs
      /\ calls' = IF known THEN cs
                  ELSE cs \cup {[type |-> "count", from |-> m.from,
                                 chain |-> chain]}
      /\ nonceMap' = [nonceMap EXCEPT ![m.from] = None]
      /\ dropCount' = CountDropped(m.hash, used, dropped)

\* FAULT: a receipt of any transaction the node holds will do.
NotRefused(c) == c.hash \in mined[c.chain] \cup pool[c.chain]

\* TransactionReceipt::status
Succeeded(c) == c.hash \in mined[c.chain]

\* A receipt: status 1 confirms, status 0 starts the dropping procedure.  A
\* transaction the node has not mined has no receipt, which reaches the
\* callback as an error, as a failed request does.
OnGetTxReceipt(c) ==
  /\ Tx(c.id) # None
  /\ \/ /\ Succeeded(c)
        /\ SaveTx(c.id, [Tx(c.id) EXCEPT !.status = "Confirmed"], calls \ {c})
        /\ UNCHANGED trackerVars
     \/ /\ c.hash \in reverted[c.chain]
        /\ ShouldTxDropped(c.id, Tx(c.id), calls \ {c})
  /\ UNCHANGED <<chain, keyring, notices, managerVars, networkVars, intent,
                 dchecks>>

\* FAULT: a missing receipt counts as a failed transaction.
NoTxReceiptDrops(c) ==
  /\ Tx(c.id) # None
  /\ ShouldTxDropped(c.id, Tx(c.id), calls \ {c})
  /\ UNCHANGED <<chain, keyring, notices, managerVars, networkVars, intent,
                 dchecks>>

OnNoTxReceipt(c) ==
  /\ calls' = calls \ {c}
  /\ UNCHANGED <<chain, keyring, txs, notices, managerVars, trackerVars,
                 networkVars, intent, dchecks>>

OnGetNetworkNonce(c) ==
  /\ calls' = calls \ {c}
  /\ \/ \E n \in 0 .. netNonce[c.chain][c.from] :
          nonceMap' = [nonceMap EXCEPT ![c.from] = n]
     \/ UNCHANGED nonceMap
  /\ UNCHANGED <<chain, keyring, txs, notices, managerVars, dropCount,
                 networkVars, intent, dchecks>>

-----------------------------------------------------------------------------
(* The keyring, the network, the session *)

CreateWallet ==
  /\ keyring = "none"
  /\ Len(notices) < MaxNotices
  /\ keyring' = "unlocked"
  /\ notices' = Append(notices, "KeyringCreated")
  /\ UNCHANGED <<chain, txs, calls, managerVars, trackerVars, networkVars,
                 intent, dchecks>>

\* KeyringService::Lock, called by the user and by the auto-lock timer
Lock ==
  /\ Does("lock")
  /\ keyring = "unlocked"
  /\ Does("interrupt") \/ CallsOf("nonce") = {}
  /\ Len(notices) < MaxNotices
  /\ keyring' = "locked"
  /\ notices' = Append(notices, "Locked")
  /\ UNCHANGED <<chain, txs, calls, managerVars, trackerVars, networkVars,
                 intent, dchecks>>

\* FAULT: the observers are not told.
UnlockSilently ==
  /\ keyring = "locked"
  /\ keyring' = "unlocked"
  /\ UNCHANGED <<chain, txs, calls, notices, managerVars, trackerVars,
                 networkVars, intent, dchecks>>

Unlock ==
  /\ keyring = "locked"
  /\ Len(notices) < MaxNotices
  /\ keyring' = "unlocked"
  /\ notices' = Append(notices, "Unlocked")
  /\ UNCHANGED <<chain, txs, calls, managerVars, trackerVars, networkVars,
                 intent, dchecks>>

\* The manager's observer methods
OnKeyringNotice ==
  /\ notices # <<>>
  /\ notices' = Tail(notices)
  /\ \/ /\ Head(notices) = "Locked"
        /\ running' = ShouldRun(knownNoPending, running)
        /\ UNCHANGED <<txs, calls, knownNoPending>>
     \/ /\ Head(notices) = "Unlocked"
        /\ UpdatePendingTransactions(txs, calls,
                                     ShouldRun(knownNoPending, running))
     \/ /\ Head(notices) \in {"KeyringCreated", "KeyringReset"}
        /\ UpdatePendingTransactions(txs, calls, running)
  /\ UNCHANGED <<chain, keyring, polling, trackerVars, networkVars, intent,
                 dchecks>>

\* JsonRpcService::SetNetwork: the manager is not told.
SetNetwork(c) ==
  /\ Does("switch") /\ NoCommandRuns
  /\ c # chain
  /\ chain' = c
  /\ UNCHANGED <<keyring, txs, calls, notices, managerVars, trackerVars,
                 networkVars, intent, dchecks>>

\* BraveWalletService::Reset: TxService, then JsonRpcService, then
\* KeyringService.  Callbacks in flight stay.
Reset ==
  /\ Does("reset") /\ NoCommandRuns
  /\ keyring # "none"
  /\ Len(notices) < MaxNotices
  /\ txs' = EmptyStore
  /\ running' = FALSE
  /\ knownNoPending' = FALSE
  /\ nonceMap' = [a \in Accounts |-> None]
  /\ dropCount' = [h \in Signatures |-> 0]
  /\ chain' = DefaultChain
  /\ keyring' = "none"
  /\ notices' = Append(notices, "KeyringReset")
  /\ UNCHANGED <<calls, polling, networkVars, intent, dchecks>>

\* The profile is closed or the browser dies, and is started again: the
\* preferences are all that stays.
Restart ==
  /\ Does("restart")
  /\ keyring' = IF keyring = "none" THEN "none" ELSE "locked"
  /\ calls' = {}
  /\ notices' = <<>>
  /\ running' = FALSE
  /\ polling' = FALSE
  /\ knownNoPending' = FALSE
  /\ nonceMap' = [a \in Accounts |-> None]
  /\ dropCount' = [h \in Signatures |-> 0]
  /\ UNCHANGED <<chain, txs, networkVars, intent, dchecks>>

-----------------------------------------------------------------------------
(* The Ethereum nodes *)

ValidAt(raw, c) ==
  raw \in SignedTx /\ raw.chain = c /\ raw.nonce >= netNonce[c][raw.from]

\* The node takes the transaction of a publish request; the answer may still
\* be lost.  One with the same nonce stays in the pool: either may be mined.
NodeAccepts(c) ==
  /\ ~c.accepted
  /\ ValidAt(c.raw, c.chain)
  /\ pool' = [pool EXCEPT ![c.chain] = @ \cup {c.raw}]
  /\ calls' = (calls \ {c}) \cup {[c EXCEPT !.accepted = TRUE]}
  /\ UNCHANGED <<chain, keyring, txs, notices, managerVars, trackerVars,
                 netNonce, mined, reverted, intent, dchecks>>

\* The page that asked for a signature broadcasts the transaction itself.
PageBroadcasts(c, i) ==
  /\ i \in ByStatus(txs, c, "Signed")
  /\ ValidAt(txs[c][i].hash, c)
  /\ txs[c][i].hash \notin pool[c]
  /\ pool' = [pool EXCEPT ![c] = @ \cup {txs[c][i].hash}]
  /\ UNCHANGED <<chain, keyring, txs, calls, notices, managerVars, trackerVars,
                 netNonce, mined, reverted, intent, dchecks>>

\* Nonces are used in order, each by one transaction.
UseNonce(c, a) ==
  /\ netNonce[c][a] < MaxNonce
  /\ netNonce' = [netNonce EXCEPT ![c][a] = @ + 1]
  /\ pool' = [pool EXCEPT ![c] =
                {r \in @ : r.from # a \/ r.nonce # netNonce[c][a]}]

Mine(c, raw) ==
  /\ raw.nonce = netNonce[c][raw.from]
  /\ UseNonce(c, raw.from)
  /\ \/ /\ mined' = [mined EXCEPT ![c] = @ \cup {raw}]
        /\ UNCHANGED reverted
     \/ /\ Does("revert")
        /\ reverted' = [reverted EXCEPT ![c] = @ \cup {raw}]
        /\ UNCHANGED mined
  /\ UNCHANGED <<chain, keyring, txs, calls, notices, managerVars, trackerVars,
                 intent, dchecks>>

\* The account is also used from another wallet.
OutsideTx(c, a) ==
  /\ Does("outside")
  /\ UseNonce(c, a)
  /\ UNCHANGED <<chain, keyring, txs, calls, notices, managerVars, trackerVars,
                 mined, reverted, intent, dchecks>>

-----------------------------------------------------------------------------
UserStep ==
  \/ \E a \in Accounts, signOnly \in BOOLEAN :
       AddUnapprovedTransaction(a, signOnly)
  \/ \E i \in TxIds :
       \/ SpeedupOrCancelTransaction(i)
       \/ RetryTransaction(i)
       \/ SetGasOrDataForUnapprovedTransaction(i)
       \/ \E n \in Nonces \cup {None} : SetNonceForUnapprovedTransaction(i, n)
       \/ RejectTransaction(i)
       \/ ApproveTransaction(i)
       \/ GetNonceForHardwareTransaction(i)
       \/ \E k \in Chains : ProcessHardwareSignature(i, k)
  \/ RejectAllTransactions
  \/ CreateWallet \/ Lock \/ Unlock
  \/ \E c \in Chains : SetNetwork(c)
  \/ Reset
  \/ Restart

WalletStep ==
  \/ \E c \in CallsOf("gas") : OnGetGas(c)
  \/ \E c \in CallsOf("nonce") :
       \/ OnGetNextNonce(c)
       \/ OnGetNextNonceForHardware(c)
       \/ OnGetNextNonceFailed(c)
  \/ \E c \in CallsOf("publish") : OnPublishTransaction(c)
  \/ \E c \in CallsOf("receipt") : OnGetTxReceipt(c) \/ OnNoTxReceipt(c)
  \/ \E c \in CallsOf("count") : OnGetNetworkNonce(c)
  \/ GetBlockNumber
  \/ OnNewBlock \/ OnNoNewBlock
  \/ OnKeyringNotice

NetworkStep ==
  \/ \E c \in CallsOf("publish") : NodeAccepts(c)
  \/ \E c \in Chains :
       \/ \E i \in TxIds : PageBroadcasts(c, i)
       \/ \E raw \in pool[c] : Mine(c, raw)
       \/ \E a \in Accounts : OutsideTx(c, a)

Next == UserStep \/ WalletStep \/ NetworkStep

Spec == Init /\ [][Next]_vars

\* What the environment of the browser grants: its task queue runs, timers
\* fire and every request is answered or fails; the chain keeps producing
\* blocks and the node is not down for ever; the user comes back to a locked
\* wallet.
Answered(i) ==
  \E c \in CommandsOn(i) :
    \/ c.type = "publish" /\ OnPublishTransaction(c)
    \/ /\ c.type = "nonce"
       /\ \/ OnGetNextNonce(c)
          \/ OnGetNextNonceForHardware(c)
          \/ OnGetNextNonceFailed(c)

ReceiptArrives(i) == \E c \in CallsOf("receipt") : c.id = i /\ OnGetTxReceipt(c)

Fairness ==
  /\ WF_vars(OnKeyringNotice)
  /\ WF_vars(GetBlockNumber)
  /\ SF_vars(OnNewBlock)
  /\ WF_vars(Unlock)
  /\ \A i \in TxIds : WF_vars(Answered(i)) /\ SF_vars(ReceiptArrives(i))

FairSpec == Spec /\ Fairness

-----------------------------------------------------------------------------
(* Safety *)

\* Every assertion of the code that the model reaches holds: the keyring is
\* unlocked when a nonce arrives for signing (eth_tx_manager.cc:551), the
\* published transaction is still stored (eth_tx_manager.cc:597), and no
\* confirmed or submitted transaction lacks a nonce (eth_nonce_tracker.cc:38).
AssertionsHold == dchecks = {}

\* What has been on chain, of any network.
Executed == UNION {mined[c] \cup reverted[c] : c \in Chains}

\* Whatever was lost, retried, sped up or cancelled, and whichever copy was
\* mined: what the user asked for once happens at most once.  It rests on
\* RetryTransaction and SpeedupOrCancelTransaction keeping the nonce.
AtMostOnce ==
  \A r, q \in Executed : intent[r.id] = intent[q.id] => r = q

\* The nonces the wallet picks leave no gap: no transaction in the pool waits
\* for a nonce that nothing in the pool uses (GetFinalNonce).
NoNonceGap ==
  \A c \in Chains : \A r \in pool[c] :
    \A n \in netNonce[c][r.from] .. r.nonce :
      \E q \in pool[c] : q.from = r.from /\ q.nonce = n

SentOff(i) ==
  \/ \E c \in CallsOf("publish") : c.id = i
  \/ \E k \in Chains : \E r \in pool[k] \cup mined[k] \cup reverted[k] :
       r.id = i

\* A transaction shown as rejected has not been sent and is not about to be.
RejectedIsNotSent ==
  \A c \in Chains : \A i \in ByStatus(txs, c, "Rejected") : ~SentOff(i)

\* Confirmed means mined, on the network the transaction is listed under.
ConfirmedWasMined ==
  \A c \in Chains : \A i \in ByStatus(txs, c, "Confirmed") :
    txs[c][i].hash \in mined[c]

\* The receipt poll runs whenever the wallet is unlocked and a transaction of
\* the selected network is pending, or the manager has yet to hear of the
\* unlocking (CheckIfBlockTrackerShouldRun).
PendingIsPolled ==
  (keyring = "unlocked" /\ Pending(txs, chain) # {})
    => running \/ \E k \in 1 .. Len(notices) : notices[k] = "Unlocked"

\* A step takes a pending transaction off the list only if its nonce is spent
\* and it was not the one that was mined successfully (IsNonceTaken,
\* ShouldTxDropped).
DroppedIsDead ==
  [][keyring' # "none" =>
       \A c \in Chains : \A i \in Pending(txs, c) :
         txs'[c][i] = None =>
           /\ txs[c][i].hash \notin mined[c]
           /\ netNonce[c][txs[c][i].from] > txs[c][i].nonce]_vars

\* While the wallet is locked the tracker does not poll the node, as soon as
\* the manager has heard of the locking (CheckIfBlockTrackerShouldRun).
LockedIsNotPolled ==
  (keyring = "locked" /\ running)
    => \E k \in 1 .. Len(notices) : notices[k] = "Locked"

\* DCHECK(!keyring_service_->IsLocked(...)), eth_tx_manager.cc:551: when the
\* nonce of an approved transaction arrives, the keyring can sign it.
KeyringUnlockedAtSigning == "KeyringUnlocked" \notin dchecks

\* DCHECK(false) << "Transaction should be found", eth_tx_manager.cc:597: the
\* answer to a publish request finds the transaction.
PublishedIsFound == "TransactionFound" \notin dchecks

\* ethereum_provider_impl.cc:1713 tells the page "User rejected the
\* transaction" (wallet_strings.grdp:35) as soon as the status is Rejected: a
\* rejected transaction stays rejected, it is not sent after all.
RejectedStays ==
  [][\A c \in Chains : \A i \in ByStatus(txs, c, "Rejected") :
       txs'[c][i] = None \/ txs'[c][i].status = "Rejected"]_vars

-----------------------------------------------------------------------------
(* Refinement *)

\* How each transaction is listed under each network.
listed == [c \in Chains |-> [i \in TxIds |->
             IF txs[c][i] = None THEN "absent" ELSE txs[c][i].status]]

\* Which of them an approval waits for the nonce of.
awaited == [c \in Chains |-> {i \in TxIds :
              \E d \in CallsOf("nonce") : d.id = i /\ d.chain = c}]

Lifecycle == INSTANCE TxLifecycle WITH
               Networks <- Chains, Ids <- TxIds,
               status <- listed, asked <- awaited

\* Every transaction is listed as unapproved first and goes through its
\* statuses in order, one network at a time; a rejection is final unless an
\* approval was waiting for its nonce, whose answer overrides it.  With
\* clients that do not command again before the answer.
ImplementsLifecycle == Lifecycle!Spec

-----------------------------------------------------------------------------
(* Liveness *)

\* An approval comes to an end: the transaction does not stay Approved, the
\* status in which nothing polls it, retries it or lets the user act.
ApprovalEnds ==
  \A i \in TxIds :
    (Tx(i) # None /\ Tx(i).status = "Approved")
      ~> ~(Tx(i) # None /\ Tx(i).status = "Approved")

IsMined(i) ==
  /\ i \in Pending(txs, chain)
  /\ Tx(i).hash \in mined[chain] \cup reverted[chain]

\* A pending transaction that has been mined leaves the pending ones: it is
\* confirmed, or dropped if it was mined as failed.
MinedIsNoticed == \A i \in TxIds : IsMined(i) ~> ~IsMined(i)
=============================================================================
