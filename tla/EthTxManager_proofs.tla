------------------------ MODULE EthTxManager_proofs ------------------------
(***************************************************************************)
(* What EthTxManager does for every number of transactions, networks,      *)
(* accounts and nonces, and for every client: only the last theorem        *)
(* restricts Ops.                                                          *)
(***************************************************************************)
EXTENDS EthTxManager, FiniteSetTheorems, TLAPS

-----------------------------------------------------------------------------
(* Lemmas about the dictionaries *)

\* What is read from a dictionary is a transaction or nothing.
LEMMA GetTxType ==
  ASSUME NEW s \in Stores, NEW c \in Chains, NEW i \in TxIds
  PROVE  GetTx(s, c, i) \in Meta \cup {None}
BY DEF GetTx, Stores

\* Writing a transaction, or nothing, leaves dictionaries.
LEMMA PutType ==
  ASSUME NEW s \in Stores, NEW c \in Chains, NEW i \in TxIds,
         NEW m \in Meta \cup {None}
  PROVE  Put(s, c, i, m) \in Stores
BY DEF Put, Stores

\* Deleting a transaction leaves dictionaries.
LEMMA DeleteTxType ==
  ASSUME NEW s \in Stores, NEW c \in Chains, NEW i \in TxIds
  PROVE  DeleteTx(s, c, i) \in Stores
BY PutType DEF DeleteTx

\* So does deleting several of one network.
LEMMA DeleteAllType ==
  ASSUME NEW s \in Stores, NEW c \in Chains, NEW ids
  PROVE  DeleteAll(s, c, ids) \in Stores
BY DEF DeleteAll, Stores

\* And retiring one above the limit.
LEMMA RetireType ==
  ASSUME NEW s \in Stores, NEW c \in Chains, NEW st,
         NEW t \in RetireTxByStatus(s, c, st)
  PROVE  t \in Stores
BY DeleteTxType DEF RetireTxByStatus, ByStatus

\* Whatever AddOrUpdateTx retires, dictionaries remain.
LEMMA AddOrUpdateType ==
  ASSUME NEW s \in Stores, NEW c \in Chains, NEW i \in TxIds, NEW m \in Meta,
         NEW t \in AddOrUpdateTx(s, c, i, m)
  PROVE  t \in Stores
<1>1. Put(s, c, i, m) \in Stores
  BY PutType
<1>2. ASSUME NEW u \in RetireTxByStatus(Put(s, c, i, m), c, "Confirmed")
      PROVE  u \in Stores
  BY <1>1, RetireType
<1> QED
  BY <1>1, <1>2, RetireType DEF AddOrUpdateTx

\* The dictionaries of a fresh or reset profile.
LEMMA EmptyStoreType == EmptyStore \in Stores
BY DEF EmptyStore, Stores

-----------------------------------------------------------------------------
(* Lemmas about requests *)

\* A request in flight is of the kind its type names.
LEMMA CallKinds ==
  ASSUME NEW c \in Calls
  PROVE  /\ c.type = "gas" => c \in GasCalls
         /\ c.type = "nonce" => c \in NonceCalls
         /\ c.type = "publish" => c \in PublishCalls
         /\ c.type = "receipt" => c \in ReceiptCalls
         /\ c.type = "count" => c \in CountCalls
BY DEF Calls, GasCalls, NonceCalls, PublishCalls, ReceiptCalls, CountCalls

\* A request for a nonce, of either kind of account.
LEMMA NonceCallType ==
  ASSUME NEW i \in TxIds, NEW m \in Meta, NEW c \in Chains, NEW h \in BOOLEAN
  PROVE  [type |-> "nonce", id |-> i, meta |-> m, chain |-> c,
          hardware |-> h, again |-> CommandsOn(i) # {}] \in Calls
BY DEF Calls, NonceCalls

-----------------------------------------------------------------------------
(* Type correctness *)

\* What the selected network lists under an id is a transaction or nothing.
LEMMA TxType ==
  ASSUME TypeOK, NEW i \in TxIds
  PROVE  Tx(i) \in Meta \cup {None}
BY GetTxType DEF Tx, TypeOK

\* What a client may give a command on.
LEMMA CommandOnQueue ==
  ASSUME TypeOK, NEW i \in TxIds, ClientMayCommand(i) \/ ClientMayConfirm(i)
  PROVE  Tx(i) \in Meta /\ Tx(i).status = "Unapproved" /\ keyring = "unlocked"
BY TxType DEF ClientMayConfirm, ClientMayCommand, Queue, ByStatus, Tx, GetTx

\* The transactions a status selects exist and have that status.
LEMMA ByStatusType ==
  ASSUME NEW s \in Stores, NEW c \in Chains, NEW st, NEW i \in ByStatus(s, c, st)
  PROVE  /\ i \in TxIds
         /\ s[c][i] \in Meta
         /\ s[c][i].status = st
BY DEF ByStatus, Stores

\* The decision on the block tracker is a Boolean.
LEMMA ShouldRunType ==
  ASSUME TypeOK, NEW known, NEW run \in BOOLEAN
  PROVE  ShouldRun(known, run) \in BOOLEAN
BY DEF ShouldRun

\* The part of the state UpdatePendingTransactions sets keeps its type.
LEMMA UpdatePendingType ==
  ASSUME TypeOK, NEW s \in Stores, NEW cs \in SUBSET Calls,
         NEW run \in BOOLEAN, UpdatePendingTransactions(s, cs, run)
  PROVE  /\ txs' \in Stores
         /\ calls' \in SUBSET Calls
         /\ knownNoPending' \in BOOLEAN
         /\ running' \in BOOLEAN
<1> DEFINE pending == Pending(s, chain)
           call(i) == [type |-> "receipt", id |-> i, chain |-> chain,
                       hash |-> s[chain][i].hash]
<1>1. chain \in Chains
  BY DEF TypeOK
<1>2. txs' \in Stores
  BY <1>1, DeleteAllType DEF UpdatePendingTransactions
<1>3. ASSUME NEW i \in pending
      PROVE  call(i) \in Calls
  <2>1. i \in TxIds /\ s[chain][i] \in Meta
    BY <1>1, <1>3, ByStatusType DEF Pending
  <2>2. s[chain][i].hash \in Signatures
    BY <2>1 DEF Meta
  <2> QED
    BY <1>1, <2>1, <2>2 DEF Calls, ReceiptCalls
<1>4. calls' \in SUBSET Calls
  BY <1>3 DEF UpdatePendingTransactions
<1>5. knownNoPending' \in BOOLEAN
  BY DEF UpdatePendingTransactions
<1>6. running' \in BOOLEAN
  BY ShouldRunType DEF UpdatePendingTransactions
<1> QED
  BY <1>2, <1>4, <1>5, <1>6

\* SaveTx writes under the selected network.
LEMMA SaveTxType ==
  ASSUME TypeOK, NEW i \in TxIds, NEW m \in Meta, NEW cs \in SUBSET Calls,
         SaveTx(i, m, cs)
  PROVE  txs' \in Stores /\ calls' \in SUBSET Calls
<1>1. chain \in Chains /\ txs \in Stores
  BY DEF TypeOK
<1> QED
  BY <1>1, AddOrUpdateType DEF SaveTx

\* Adding a transaction, for any copy of an earlier one, keeps the types.
LEMMA ContinueAddType ==
  ASSUME TypeOK, NEW m \in Meta, NEW of \in 0 .. NumTxs,
         NEW cs \in SUBSET Calls, ContinueAddUnapprovedTransaction(m, of, cs)
  PROVE  /\ txs' \in Stores
         /\ calls' \in SUBSET Calls
         /\ intent' \in [TxIds -> 0 .. NumTxs]
<1>1. PICK i \in TxIds :
        /\ SaveTx(i, [m EXCEPT !.chain = chain], cs)
        /\ intent' = [intent EXCEPT ![i] = IF of = 0 THEN i ELSE of]
  BY DEF ContinueAddUnapprovedTransaction
<1>2. [m EXCEPT !.chain = chain] \in Meta
  BY DEF TypeOK, Meta
<1>3. i \in 0 .. NumTxs
  BY StoreAssumption DEF TxIds
<1> QED
  BY <1>1, <1>2, <1>3, SaveTxType DEF TypeOK

\* Signing, or failing to sign, with any nonce keeps the types.
LEMMA SignType ==
  ASSUME TypeOK, NEW i \in TxIds, NEW m \in Meta, NEW k \in Chains,
         NEW n \in Nonces, NEW cs \in SUBSET Calls, Sign(i, m, k, n, cs)
  PROVE  /\ txs' \in Stores
         /\ calls' \in SUBSET Calls
         /\ knownNoPending' \in BOOLEAN
         /\ running' \in BOOLEAN
         /\ polling' \in BOOLEAN
<1> DEFINE sig == IF keyring = "unlocked"
                    THEN [id |-> i, from |-> m.from, nonce |-> n, chain |-> k]
                    ELSE m.sig
           approved == [m EXCEPT !.status = "Approved", !.nonce = n,
                                 !.sig = sig]
           signed == [approved EXCEPT !.status = "Signed", !.hash = sig]
           call == [type |-> "publish", id |-> i, raw |-> sig,
                    chain |-> chain, accepted |-> FALSE]
<1>1. sig \in Signatures
  BY DEF Signatures, SignedTx, Meta
<1>2. approved \in Meta /\ signed \in Meta
  BY <1>1 DEF Meta, Status
<1>3. call \in Calls
  BY <1>1 DEF TypeOK, Calls, PublishCalls
<1>4. chain \in Chains /\ txs \in Stores
  BY DEF TypeOK
<1> HIDE DEF sig, approved, signed, call
<1>5. CASE /\ sig = None
           /\ SaveTx(i, approved, cs)
           /\ UNCHANGED managerVars
  BY <1>2, <1>5, SaveTxType DEF managerVars, TypeOK
<1>6. CASE /\ sig # None /\ m.signOnly
           /\ \E s \in AddOrUpdateTx(txs, chain, i, approved) :
                UpdatePendingTransactions(Put(s, chain, i, signed), cs, running)
           /\ UNCHANGED polling
  <2>1. PICK s \in AddOrUpdateTx(txs, chain, i, approved) :
          UpdatePendingTransactions(Put(s, chain, i, signed), cs, running)
    BY <1>6
  <2>2. Put(s, chain, i, signed) \in Stores
    BY <1>2, <1>4, AddOrUpdateType, PutType
  <2>3. running \in BOOLEAN /\ polling' \in BOOLEAN
    BY <1>6 DEF TypeOK
  <2> QED
    BY <2>1, <2>2, <2>3, UpdatePendingType
<1>7. CASE /\ sig # None /\ ~m.signOnly
           /\ SaveTx(i, approved, cs \cup {call})
           /\ UNCHANGED managerVars
  <2>1. cs \cup {call} \in SUBSET Calls
    BY <1>3
  <2> QED
    BY <1>2, <1>7, <2>1, SaveTxType DEF managerVars, TypeOK
<1> QED
  BY <1>5, <1>6, <1>7 DEF Sign, sig, approved, signed, call

\* A fresh profile has the types.
LEMMA TypeInit == Init => TypeOK
<1> SUFFICES ASSUME Init PROVE TypeOK
  OBVIOUS
<1>1. txs \in Stores
  BY EmptyStoreType DEF Init
<1>2. /\ nonceMap \in [Accounts -> Nonces \cup {None}]
      /\ dropCount \in [Signatures -> 0 .. 3]
      /\ netNonce \in [Chains -> [Accounts -> Nonces]]
      /\ intent \in [TxIds -> 0 .. NumTxs]
  BY StoreAssumption DEF Init, Nonces
<1>3. /\ pool \in [Chains -> SUBSET SignedTx]
      /\ mined \in [Chains -> SUBSET SignedTx]
      /\ reverted \in [Chains -> SUBSET SignedTx]
  BY DEF Init
<1>4. /\ chain \in Chains /\ keyring \in Keyring
      /\ calls \in SUBSET Calls
      /\ running \in BOOLEAN /\ polling \in BOOLEAN
      /\ knownNoPending \in BOOLEAN /\ dchecks \in SUBSET Assertions
  BY ManagerAssumption DEF Init, Keyring
<1>5. notices \in Seq(Notices)
  BY DEF Init
<1> QED
  BY <1>1, <1>2, <1>3, <1>4, <1>5 DEF TypeOK

\* One step of the user keeps every variable in its type.
LEMMA TypeUserStep ==
  ASSUME TypeOK, UserStep
  PROVE  TypeOK'
<1> USE DEF managerVars, trackerVars, networkVars
<1>1. ASSUME NEW a \in Accounts, NEW signOnly \in BOOLEAN,
             AddUnapprovedTransaction(a, signOnly)
      PROVE  TypeOK'
  <2> DEFINE m == [status |-> "Unapproved", from |-> a, nonce |-> None,
                   sig |-> None, hash |-> None, signOnly |-> signOnly,
                   chain |-> chain]
             call == [type |-> "gas", meta |-> m, intent |-> 0]
  <2>1. m \in Meta
    BY DEF TypeOK, Meta, Status, Signatures
  <2>2. call \in Calls
    BY <2>1, StoreAssumption DEF Calls, GasCalls
  <2>3. /\ txs' \in Stores
        /\ calls' \in SUBSET Calls
        /\ intent' \in [TxIds -> 0 .. NumTxs]
    <3>1. CASE ContinueAddUnapprovedTransaction(m, 0, calls)
      <4>1. 0 \in 0 .. NumTxs /\ calls \in SUBSET Calls
        BY StoreAssumption DEF TypeOK
      <4> QED
        BY <2>1, <3>1, <4>1, ContinueAddType
    <3>2. CASE calls' = calls \cup {call} /\ UNCHANGED <<txs, intent>>
      BY <2>2, <3>2 DEF TypeOK
    <3> QED
      BY <1>1, <3>1, <3>2 DEF AddUnapprovedTransaction
  <2> QED
    BY <1>1, <2>3 DEF AddUnapprovedTransaction, TypeOK
<1>2. ASSUME NEW i \in TxIds, SpeedupOrCancelTransaction(i)
      PROVE  TypeOK'
  <2> DEFINE m == [Tx(i) EXCEPT !.status = "Unapproved", !.hash = None,
                                !.signOnly = FALSE, !.sig = Stale]
             call == [type |-> "gas", intent |-> IntentOfCopy(i), meta |-> m]
  <2>1. Tx(i) \in Meta
    BY <1>2, TxType DEF SpeedupOrCancelTransaction
  <2>2. m \in Meta
    BY <2>1 DEF Meta, Status, Signatures
  <2>3. IntentOfCopy(i) \in 0 .. NumTxs
    BY StoreAssumption DEF IntentOfCopy, TypeOK
  <2>4. call \in Calls
    BY <2>2, <2>3 DEF Calls, GasCalls
  <2>5. calls' = calls \cup {call}
    BY <1>2 DEF SpeedupOrCancelTransaction
  <2> HIDE DEF call
  <2> QED
    BY <1>2, <2>4, <2>5 DEF SpeedupOrCancelTransaction, TypeOK
<1>3. ASSUME NEW i \in TxIds, RetryTransaction(i)
      PROVE  TypeOK'
  <2> DEFINE m == [Tx(i) EXCEPT !.status = "Unapproved", !.hash = None,
                                !.signOnly = FALSE]
  <2>1. Tx(i) \in Meta
    BY <1>3, TxType DEF RetryTransaction
  <2>2. m \in Meta
    BY <2>1 DEF Meta, Status, Signatures
  <2>3. IntentOfCopy(i) \in 0 .. NumTxs /\ calls \in SUBSET Calls
    BY StoreAssumption DEF IntentOfCopy, TypeOK
  <2>4. ContinueAddUnapprovedTransaction(m, IntentOfCopy(i), calls)
    BY <1>3 DEF RetryTransaction
  <2> HIDE DEF m
  <2>5. /\ txs' \in Stores
        /\ calls' \in SUBSET Calls
        /\ intent' \in [TxIds -> 0 .. NumTxs]
    BY <2>2, <2>3, <2>4, ContinueAddType
  <2> QED
    BY <1>3, <2>5 DEF RetryTransaction, TypeOK
<1>4. ASSUME NEW i \in TxIds, SetGasOrDataForUnapprovedTransaction(i)
      PROVE  TypeOK'
  <2>1. Tx(i) \in Meta
    BY <1>4, CommandOnQueue DEF SetGasOrDataForUnapprovedTransaction
  <2>2. Edited(Tx(i)) \in Meta /\ calls \in SUBSET Calls
    BY <2>1 DEF Edited, Meta, Signatures, TypeOK
  <2>3. txs' \in Stores /\ calls' \in SUBSET Calls
    BY <1>4, <2>2, SaveTxType DEF SetGasOrDataForUnapprovedTransaction
  <2> QED
    BY <1>4, <2>3 DEF SetGasOrDataForUnapprovedTransaction, TypeOK
<1>5. ASSUME NEW i \in TxIds, NEW n \in Nonces \cup {None},
             SetNonceForUnapprovedTransaction(i, n)
      PROVE  TypeOK'
  <2>1. Tx(i) \in Meta
    BY <1>5, CommandOnQueue DEF SetNonceForUnapprovedTransaction
  <2>2. /\ [Edited(Tx(i)) EXCEPT !.nonce = n] \in Meta
        /\ calls \in SUBSET Calls
    BY <2>1 DEF Edited, Meta, Signatures, TypeOK
  <2>3. txs' \in Stores /\ calls' \in SUBSET Calls
    BY <1>5, <2>2, SaveTxType DEF SetNonceForUnapprovedTransaction
  <2> QED
    BY <1>5, <2>3 DEF SetNonceForUnapprovedTransaction, TypeOK
<1>6. ASSUME NEW i \in TxIds, RejectTransaction(i)
      PROVE  TypeOK'
  <2>1. Tx(i) \in Meta
    BY <1>6, CommandOnQueue DEF RejectTransaction
  <2>2. /\ [Tx(i) EXCEPT !.status = "Rejected"] \in Meta
        /\ calls \in SUBSET Calls
    BY <2>1 DEF Meta, Status, TypeOK
  <2>3. txs' \in Stores /\ calls' \in SUBSET Calls
    BY <1>6, <2>2, SaveTxType DEF RejectTransaction
  <2> QED
    BY <1>6, <2>3 DEF RejectTransaction, TypeOK
<1>7. ASSUME NEW i \in TxIds, ApproveTransaction(i)
      PROVE  TypeOK'
  <2>1. Tx(i) \in Meta
    BY <1>7, CommandOnQueue DEF ApproveTransaction
  <2>2. CASE Tx(i).nonce = None
    <3>1. calls' = calls \cup
            {[type |-> "nonce", id |-> i, meta |-> Tx(i), chain |-> chain,
              hardware |-> FALSE, again |-> CommandsOn(i) # {}]}
      BY <1>7, <2>2 DEF ApproveTransaction
    <3>2. calls' \in SUBSET Calls
      <4>1. calls \in SUBSET Calls /\ chain \in Chains
        BY DEF TypeOK
      <4> QED
        BY <2>1, <3>1, <4>1, NonceCallType
    <3> QED
      BY <1>7, <2>2, <3>2 DEF ApproveTransaction, TypeOK
  <2>3. CASE Tx(i).nonce # None
    <3>1. Sign(i, Tx(i), chain, Tx(i).nonce, calls)
      BY <1>7, <2>3 DEF ApproveTransaction
    <3>2. Tx(i).nonce \in Nonces /\ chain \in Chains /\ calls \in SUBSET Calls
      BY <2>1, <2>3 DEF Meta, TypeOK
    <3>3. /\ txs' \in Stores
          /\ calls' \in SUBSET Calls
          /\ knownNoPending' \in BOOLEAN
          /\ running' \in BOOLEAN
          /\ polling' \in BOOLEAN
      BY <2>1, <3>1, <3>2, SignType
    <3>4. dchecks' \in SUBSET Assertions
      BY <1>7, <2>3
      DEF ApproveTransaction, CheckKeyringUnlocked, Assertions, TypeOK
    <3> QED
      BY <1>7, <3>3, <3>4 DEF ApproveTransaction, TypeOK
  <2> QED
    BY <2>2, <2>3
<1>8. ASSUME NEW i \in TxIds, GetNonceForHardwareTransaction(i)
      PROVE  TypeOK'
  <2>1. Tx(i) \in Meta
    BY <1>8, CommandOnQueue DEF GetNonceForHardwareTransaction
  <2>2. CASE Tx(i).nonce = None
    <3>1. calls' = calls \cup
            {[type |-> "nonce", id |-> i, meta |-> Tx(i), chain |-> chain,
              hardware |-> TRUE, again |-> CommandsOn(i) # {}]}
      BY <1>8, <2>2 DEF GetNonceForHardwareTransaction
    <3>2. calls' \in SUBSET Calls
      <4>1. calls \in SUBSET Calls /\ chain \in Chains
        BY DEF TypeOK
      <4> QED
        BY <2>1, <3>1, <4>1, NonceCallType
    <3> QED
      BY <1>8, <2>2, <3>2 DEF GetNonceForHardwareTransaction, TypeOK
  <2>3. CASE Tx(i).nonce # None
    <3>1. txs' \in Stores /\ calls' \in SUBSET Calls
      BY <1>8, <2>1, <2>3, SaveTxType DEF GetNonceForHardwareTransaction, TypeOK
    <3> QED
      BY <1>8, <3>1 DEF GetNonceForHardwareTransaction, TypeOK
  <2> QED
    BY <2>2, <2>3
<1>9. ASSUME NEW i \in TxIds, NEW k \in Chains, ProcessHardwareSignature(i, k)
      PROVE  TypeOK'
  <2> DEFINE sig == [id |-> i, from |-> Tx(i).from, nonce |-> Tx(i).nonce,
                     chain |-> k]
             approved == [Tx(i) EXCEPT !.status = "Approved", !.sig = sig]
             failed == [Tx(i) EXCEPT !.status = "Error"]
             call == [type |-> "publish", id |-> i, raw |-> sig,
                      chain |-> chain, accepted |-> FALSE]
  <2>1. Tx(i) \in Meta /\ Tx(i).nonce # None
    BY <1>9, CommandOnQueue DEF ProcessHardwareSignature
  <2>2. sig \in Signatures
    BY <2>1 DEF Signatures, SignedTx, Meta
  <2>3. approved \in Meta /\ failed \in Meta
    BY <2>1, <2>2 DEF Meta, Status
  <2>4. call \in Calls
    BY <2>2 DEF TypeOK, Calls, PublishCalls
  <2>5. \/ SaveTx(i, approved, calls \cup {call})
        \/ SaveTx(i, failed, calls)
    BY <1>9 DEF ProcessHardwareSignature
  <2> HIDE DEF approved, failed, call
  <2>6. calls \in SUBSET Calls /\ calls \cup {call} \in SUBSET Calls
    BY <2>4 DEF TypeOK
  <2>7. txs' \in Stores /\ calls' \in SUBSET Calls
    BY <2>3, <2>5, <2>6, SaveTxType
  <2> QED
    BY <1>9, <2>7 DEF ProcessHardwareSignature, TypeOK
<1>10. CASE RejectAllTransactions
  <2>1. \A i \in Queue :
          [txs[chain][i] EXCEPT !.status = "Rejected"] \in Meta
    <3>1. txs \in Stores /\ chain \in Chains
      BY DEF TypeOK
    <3> QED
      BY <3>1, ByStatusType DEF Queue, Meta, Status
  <2> DEFINE f == [i \in TxIds |->
                      IF i \in Queue
                        THEN [txs[chain][i] EXCEPT !.status = "Rejected"]
                        ELSE txs[chain][i]]
  <2>3. f \in [TxIds -> Meta \cup {None}]
    BY <2>1 DEF TypeOK, Stores
  <2>4. txs' = [txs EXCEPT ![chain] = f]
    BY <1>10 DEF RejectAllTransactions
  <2> HIDE DEF f
  <2>2. txs' \in Stores
    BY <2>3, <2>4 DEF TypeOK, Stores
  <2> QED
    BY <1>10, <2>2 DEF RejectAllTransactions, TypeOK
<1>11. CASE CreateWallet \/ Lock \/ Unlock
  <2>1. keyring' \in Keyring /\ notices' \in Seq(Notices)
    <3>1. notices \in Seq(Notices)
      BY DEF TypeOK
    <3> QED
      BY <1>11, <3>1 DEF CreateWallet, Lock, Unlock, Keyring, Notices
  <2> QED
    BY <1>11, <2>1 DEF CreateWallet, Lock, Unlock, TypeOK
<1>12. ASSUME NEW c \in Chains, SetNetwork(c)
       PROVE  TypeOK'
  BY <1>12 DEF SetNetwork, TypeOK
<1>13. CASE Reset
  <2>1. txs' \in Stores /\ chain' \in Chains
    BY <1>13, EmptyStoreType, ManagerAssumption DEF Reset
  <2>2. keyring' \in Keyring /\ notices' \in Seq(Notices)
    BY <1>13 DEF Reset, TypeOK, Keyring, Notices
  <2>3. /\ nonceMap' \in [Accounts -> Nonces \cup {None}]
        /\ dropCount' \in [Signatures -> 0 .. 3]
    BY <1>13 DEF Reset
  <2> QED
    BY <1>13, <2>1, <2>2, <2>3 DEF Reset, TypeOK
<1>14. CASE Restart
  <2>1. keyring' \in Keyring
    BY <1>14 DEF Restart, TypeOK, Keyring
  <2>3. notices' \in Seq(Notices)
    BY <1>14 DEF Restart
  <2>2. /\ nonceMap' \in [Accounts -> Nonces \cup {None}]
        /\ dropCount' \in [Signatures -> 0 .. 3]
    BY <1>14 DEF Restart
  <2> QED
    BY <1>14, <2>1, <2>2, <2>3 DEF Restart, TypeOK
<1> QED
  BY <1>1, <1>2, <1>3, <1>4, <1>5, <1>6, <1>7, <1>8, <1>9, <1>10, <1>11,
     <1>12, <1>13, <1>14
  DEF UserStep

\* One step of the wallet's own tasks keeps every variable in its type.
LEMMA TypeWalletStep ==
  ASSUME TypeOK, WalletStep
  PROVE  TypeOK'
<1> USE DEF managerVars, trackerVars, networkVars
<1>0. chain \in Chains /\ calls \in SUBSET Calls /\ txs \in Stores
  BY DEF TypeOK
<1>1. ASSUME NEW c \in CallsOf("gas"), OnGetGas(c)
      PROVE  TypeOK'
  <2>1. c \in GasCalls
    BY <1>0, CallKinds DEF CallsOf
  <2>2. c.meta \in Meta /\ c.intent \in 0 .. NumTxs
    BY <2>1 DEF GasCalls
  <2>3. calls \ {c} \in SUBSET Calls
    BY <1>0
  <2>4. /\ txs' \in Stores
        /\ calls' \in SUBSET Calls
        /\ intent' \in [TxIds -> 0 .. NumTxs]
    <3>1. CASE ContinueAddUnapprovedTransaction(c.meta, c.intent, calls \ {c})
      BY <2>2, <2>3, <3>1, ContinueAddType
    <3>2. CASE calls' = calls \ {c} /\ UNCHANGED <<txs, intent>>
      BY <2>3, <3>2 DEF TypeOK
    <3> QED
      BY <1>1, <3>1, <3>2 DEF OnGetGas
  <2> QED
    BY <1>1, <2>4 DEF OnGetGas, TypeOK
<1>2. ASSUME NEW c \in CallsOf("nonce"), OnGetNextNonce(c)
      PROVE  TypeOK'
  <2>1. c \in NonceCalls
    BY <1>0, CallKinds DEF CallsOf
  <2>2. c.id \in TxIds /\ c.meta \in Meta /\ c.chain \in Chains
    BY <2>1 DEF NonceCalls
  <2>3. PICK n \in Nonces : Sign(c.id, c.meta, c.chain, n, calls \ {c})
    BY <1>2 DEF OnGetNextNonce
  <2>4. calls \ {c} \in SUBSET Calls
    BY <1>0
  <2>5. /\ txs' \in Stores
        /\ calls' \in SUBSET Calls
        /\ knownNoPending' \in BOOLEAN
        /\ running' \in BOOLEAN
        /\ polling' \in BOOLEAN
    BY <2>2, <2>3, <2>4, SignType
  <2>6. dchecks' \in SUBSET Assertions
    BY <1>2 DEF OnGetNextNonce, CheckNonceSet, CheckKeyringUnlocked,
                Assertions, TypeOK
  <2> QED
    BY <1>2, <2>5, <2>6 DEF OnGetNextNonce, TypeOK
<1>3. ASSUME NEW c \in CallsOf("nonce"), OnGetNextNonceForHardware(c)
      PROVE  TypeOK'
  <2>1. c \in NonceCalls
    BY <1>0, CallKinds DEF CallsOf
  <2>2. c.id \in TxIds /\ c.meta \in Meta
    BY <2>1 DEF NonceCalls
  <2>3. PICK n \in Nonces :
          SaveTx(c.id, [c.meta EXCEPT !.nonce = n], calls \ {c})
    BY <1>3 DEF OnGetNextNonceForHardware
  <2>4. /\ [c.meta EXCEPT !.nonce = n] \in Meta
        /\ calls \ {c} \in SUBSET Calls
    BY <1>0, <2>2 DEF Meta
  <2>5. txs' \in Stores /\ calls' \in SUBSET Calls
    BY <2>2, <2>3, <2>4, SaveTxType
  <2>6. dchecks' \in SUBSET Assertions
    BY <1>3 DEF OnGetNextNonceForHardware, CheckNonceSet, Assertions, TypeOK
  <2> QED
    BY <1>3, <2>5, <2>6 DEF OnGetNextNonceForHardware, TypeOK
<1>4. ASSUME NEW c \in CallsOf("nonce"), OnGetNextNonceFailed(c)
      PROVE  TypeOK'
  <2>1. c \in NonceCalls
    BY <1>0, CallKinds DEF CallsOf
  <2>2. c.id \in TxIds /\ c.meta \in Meta
    BY <2>1 DEF NonceCalls
  <2>3. /\ [c.meta EXCEPT !.status = "Error"] \in Meta
        /\ calls \ {c} \in SUBSET Calls
    BY <1>0, <2>2 DEF Meta, Status
  <2>4. txs' \in Stores /\ calls' \in SUBSET Calls
    BY <1>4, <2>2, <2>3, SaveTxType DEF OnGetNextNonceFailed
  <2> QED
    BY <1>4, <2>4 DEF OnGetNextNonceFailed, TypeOK
<1>5. ASSUME NEW c \in CallsOf("publish"), OnPublishTransaction(c)
      PROVE  TypeOK'
  <2> DEFINE m == Tx(c.id)
             submitted == [m EXCEPT !.status = "Submitted", !.hash = c.raw]
  <2>1. c \in PublishCalls
    BY <1>0, CallKinds DEF CallsOf
  <2>2. c.id \in TxIds /\ c.raw \in Signatures
    BY <2>1 DEF PublishCalls
  <2>3. m \in Meta \cup {None}
    BY <2>2, TxType
  <2>4. calls \ {c} \in SUBSET Calls
    BY <1>0
  <2>5. CASE /\ m = None
             /\ calls' = calls \ {c}
             /\ dchecks' = dchecks \cup {"TransactionFound"}
             /\ UNCHANGED <<txs, managerVars>>
    BY <1>5, <2>4, <2>5 DEF OnPublishTransaction, TypeOK, Assertions
  <2>6. CASE /\ m # None /\ c.accepted
             /\ \E s \in AddOrUpdateTx(txs, chain, c.id, submitted) :
                  UpdatePendingTransactions(s, calls \ {c}, running)
             /\ UNCHANGED <<polling, dchecks>>
    <3>1. submitted \in Meta
      BY <2>2, <2>3, <2>6 DEF Meta, Status
    <3>2. PICK s \in AddOrUpdateTx(txs, chain, c.id, submitted) :
            UpdatePendingTransactions(s, calls \ {c}, running)
      BY <2>6
    <3>3. s \in Stores /\ running \in BOOLEAN
      BY <1>0, <2>2, <3>1, <3>2, AddOrUpdateType DEF TypeOK
    <3>4. /\ txs' \in Stores
          /\ calls' \in SUBSET Calls
          /\ knownNoPending' \in BOOLEAN
          /\ running' \in BOOLEAN
      BY <2>4, <3>2, <3>3, UpdatePendingType
    <3> QED
      BY <1>5, <2>6, <3>4 DEF OnPublishTransaction, TypeOK
  <2>7. CASE /\ m # None
             /\ SaveTx(c.id, PublishFailed(m), calls \ {c})
             /\ UNCHANGED <<managerVars, dchecks>>
    <3>1. PublishFailed(m) \in Meta
      BY <2>3, <2>7 DEF PublishFailed, Meta, Status
    <3>2. txs' \in Stores /\ calls' \in SUBSET Calls
      BY <2>2, <2>4, <2>7, <3>1, SaveTxType
    <3> QED
      BY <1>5, <2>7, <3>2 DEF OnPublishTransaction, TypeOK
  <2> QED
    BY <1>5, <2>5, <2>6, <2>7 DEF OnPublishTransaction
<1>6. ASSUME NEW c \in CallsOf("receipt"), OnGetTxReceipt(c)
      PROVE  TypeOK'
  <2> DEFINE m == Tx(c.id)
             confirmed == [m EXCEPT !.status = "Confirmed"]
  <2>1. c \in ReceiptCalls
    BY <1>0, CallKinds DEF CallsOf
  <2>2. c.id \in TxIds
    BY <2>1 DEF ReceiptCalls
  <2>3. m \in Meta
    BY <1>6, <2>2, TxType DEF OnGetTxReceipt
  <2>4. calls \ {c} \in SUBSET Calls
    BY <1>0
  <2>5. CASE SaveTx(c.id, confirmed, calls \ {c}) /\ UNCHANGED trackerVars
    <3>1. confirmed \in Meta
      BY <2>3 DEF Meta, Status
    <3>2. txs' \in Stores /\ calls' \in SUBSET Calls
      BY <2>2, <2>4, <2>5, <3>1, SaveTxType
    <3> QED
      BY <1>6, <2>5, <3>2 DEF OnGetTxReceipt, TypeOK
  <2>6. CASE ShouldTxDropped(c.id, m, calls \ {c})
    <3>1. m.from \in Accounts /\ m.hash \in Signatures
      BY <2>3 DEF Meta
    <3>2. [type |-> "count", from |-> m.from, chain |-> chain] \in Calls
      BY <1>0, <3>1 DEF Calls, CountCalls
    <3>3. calls' \in SUBSET Calls
      BY <2>4, <2>6, <3>2 DEF ShouldTxDropped
    <3>4. txs' \in Stores
      BY <1>0, <2>2, <2>6, DeleteTxType DEF ShouldTxDropped
    <3>5. nonceMap' \in [Accounts -> Nonces \cup {None}]
      BY <2>6, <3>1 DEF ShouldTxDropped, TypeOK
    <3>6. dropCount' \in [Signatures -> 0 .. 3]
      <4>1. PICK used \in BOOLEAN, dropped \in BOOLEAN :
              /\ dropCount' = CountDropped(m.hash, used, dropped)
              /\ dropped <=> used \/ dropCount[m.hash] >= 3
        BY <2>6 DEF ShouldTxDropped
      <4>2. dropCount \in [Signatures -> 0 .. 3] /\ dropCount[m.hash] \in 0 .. 3
        BY <3>1 DEF TypeOK
      <4>3. (IF dropped THEN 0 ELSE dropCount[m.hash] + 1) \in 0 .. 3
        BY <4>1, <4>2
      <4> QED
        BY <4>1, <4>2, <4>3 DEF CountDropped
    <3> QED
      BY <1>6, <3>3, <3>4, <3>5, <3>6 DEF OnGetTxReceipt, TypeOK
  <2> QED
    BY <1>6, <2>5, <2>6 DEF OnGetTxReceipt
<1>7. ASSUME NEW c \in CallsOf("receipt"), OnNoTxReceipt(c)
      PROVE  TypeOK'
  BY <1>7 DEF OnNoTxReceipt, TypeOK
<1>8. ASSUME NEW c \in CallsOf("count"), OnGetNetworkNonce(c)
      PROVE  TypeOK'
  <2>1. c \in CountCalls
    BY <1>0, CallKinds DEF CallsOf
  <2>2. c.from \in Accounts /\ c.chain \in Chains
    BY <2>1 DEF CountCalls
  <2>3. netNonce[c.chain][c.from] \in Nonces
    BY <2>2 DEF TypeOK
  <2>4. 0 .. netNonce[c.chain][c.from] \subseteq Nonces
    BY <2>3, StoreAssumption DEF Nonces
  <2>5. nonceMap' \in [Accounts -> Nonces \cup {None}]
    BY <1>8, <2>4 DEF OnGetNetworkNonce, TypeOK
  <2>6. calls' \in SUBSET Calls
    BY <1>0, <1>8 DEF OnGetNetworkNonce
  <2> QED
    BY <1>8, <2>5, <2>6 DEF OnGetNetworkNonce, TypeOK
<1>9. CASE GetBlockNumber \/ OnNoNewBlock
  BY <1>9 DEF GetBlockNumber, OnNoNewBlock, TypeOK
<1>10. CASE OnNewBlock
  <2>1. running \in BOOLEAN
    BY DEF TypeOK
  <2>2. /\ txs' \in Stores
        /\ calls' \in SUBSET Calls
        /\ knownNoPending' \in BOOLEAN
        /\ running' \in BOOLEAN
    BY <1>0, <1>10, <2>1, UpdatePendingType DEF OnNewBlock
  <2> QED
    BY <1>10, <2>2 DEF OnNewBlock, TypeOK
<1>11. CASE OnKeyringNotice
  <2>1. running \in BOOLEAN /\ ShouldRun(knownNoPending, running) \in BOOLEAN
    BY ShouldRunType DEF TypeOK
  <2>2. /\ txs' \in Stores
        /\ calls' \in SUBSET Calls
        /\ knownNoPending' \in BOOLEAN
        /\ running' \in BOOLEAN
    <3>1. CASE /\ running' = ShouldRun(knownNoPending, running)
               /\ UNCHANGED <<txs, calls, knownNoPending>>
      BY <2>1, <3>1 DEF TypeOK
    <3>2. CASE UpdatePendingTransactions(txs, calls,
                                         ShouldRun(knownNoPending, running))
      BY <1>0, <2>1, <3>2, UpdatePendingType
    <3>3. CASE UpdatePendingTransactions(txs, calls, running)
      BY <1>0, <2>1, <3>3, UpdatePendingType
    <3> QED
      BY <1>11, <3>1, <3>2, <3>3 DEF OnKeyringNotice
  <2>3. notices' \in Seq(Notices)
    <3>1. notices \in Seq(Notices)
      BY DEF TypeOK
    <3> QED
      BY <1>11, <3>1 DEF OnKeyringNotice
  <2> QED
    BY <1>11, <2>2, <2>3 DEF OnKeyringNotice, TypeOK
<1> QED
  BY <1>1, <1>2, <1>3, <1>4, <1>5, <1>6, <1>7, <1>8, <1>9, <1>10, <1>11
  DEF WalletStep

\* One step of the nodes keeps every variable in its type.
LEMMA TypeNetworkStep ==
  ASSUME TypeOK, NetworkStep
  PROVE  TypeOK'
<1> USE DEF managerVars, trackerVars, networkVars
<1>0. /\ calls \in SUBSET Calls /\ txs \in Stores
      /\ pool \in [Chains -> SUBSET SignedTx]
  BY DEF TypeOK
<1>1. ASSUME NEW c \in CallsOf("publish"), NodeAccepts(c)
      PROVE  TypeOK'
  <2>1. c \in PublishCalls
    BY <1>0, CallKinds DEF CallsOf
  <2>2. [c EXCEPT !.accepted = TRUE] \in PublishCalls
    BY <2>1 DEF PublishCalls
  <2>3. calls' \in SUBSET Calls
    BY <1>0, <1>1, <2>2 DEF NodeAccepts, Calls
  <2>4. pool' \in [Chains -> SUBSET SignedTx]
    BY <1>0, <1>1 DEF NodeAccepts, ValidAt
  <2> QED
    BY <1>1, <2>3, <2>4 DEF NodeAccepts, TypeOK
<1>2. ASSUME NEW c \in Chains, NEW i \in TxIds, PageBroadcasts(c, i)
      PROVE  TypeOK'
  <2>1. pool' \in [Chains -> SUBSET SignedTx]
    BY <1>0, <1>2 DEF PageBroadcasts, ValidAt
  <2> QED
    BY <1>2, <2>1 DEF PageBroadcasts, TypeOK
<1>3. ASSUME NEW c \in Chains, NEW a \in Accounts, UseNonce(c, a)
      PROVE  /\ netNonce' \in [Chains -> [Accounts -> Nonces]]
             /\ pool' \in [Chains -> SUBSET SignedTx]
  <2>1. netNonce[c][a] + 1 \in Nonces
    BY <1>3, StoreAssumption DEF UseNonce, TypeOK, Nonces
  <2>2. netNonce' \in [Chains -> [Accounts -> Nonces]]
    BY <1>3, <2>1 DEF UseNonce, TypeOK
  <2>3. pool' \in [Chains -> SUBSET SignedTx]
    BY <1>0, <1>3 DEF UseNonce
  <2> QED
    BY <2>2, <2>3
<1>4. ASSUME NEW c \in Chains, NEW raw \in pool[c], Mine(c, raw)
      PROVE  TypeOK'
  <2>1. raw \in SignedTx /\ raw.from \in Accounts
    BY <1>0 DEF SignedTx
  <2>2. /\ netNonce' \in [Chains -> [Accounts -> Nonces]]
        /\ pool' \in [Chains -> SUBSET SignedTx]
    BY <1>3, <1>4, <2>1 DEF Mine
  <2>3. /\ mined' \in [Chains -> SUBSET SignedTx]
        /\ reverted' \in [Chains -> SUBSET SignedTx]
    <3>1. /\ mined \in [Chains -> SUBSET SignedTx]
          /\ reverted \in [Chains -> SUBSET SignedTx]
      BY DEF TypeOK
    <3>2. CASE /\ mined' = [mined EXCEPT ![c] = @ \cup {raw}]
               /\ UNCHANGED reverted
      BY <2>1, <3>1, <3>2
    <3>3. CASE /\ reverted' = [reverted EXCEPT ![c] = @ \cup {raw}]
               /\ UNCHANGED mined
      BY <2>1, <3>1, <3>3
    <3> QED
      BY <1>4, <3>2, <3>3 DEF Mine
  <2> QED
    BY <1>4, <2>2, <2>3 DEF Mine, TypeOK
<1>5. ASSUME NEW c \in Chains, NEW a \in Accounts, OutsideTx(c, a)
      PROVE  TypeOK'
  <2>1. /\ netNonce' \in [Chains -> [Accounts -> Nonces]]
        /\ pool' \in [Chains -> SUBSET SignedTx]
    BY <1>3, <1>5 DEF OutsideTx
  <2> QED
    BY <1>5, <2>1 DEF OutsideTx, TypeOK
<1> QED
  BY <1>1, <1>2, <1>4, <1>5 DEF NetworkStep

\* Every step of anyone keeps every variable in its type.
LEMMA TypeStep == TypeOK /\ [Next]_vars => TypeOK'
<1>1. ASSUME TypeOK, UNCHANGED vars
      PROVE  TypeOK'
  BY <1>1 DEF vars, managerVars, trackerVars, networkVars, TypeOK
<1> QED
  BY <1>1, TypeUserStep, TypeWalletStep, TypeNetworkStep DEF Next

\* Every variable has its type in every reachable state, whatever the client,
\* the network and the nodes do.
THEOREM TypeCorrect == Spec => []TypeOK
BY TypeInit, TypeStep, PTL DEF Spec

-----------------------------------------------------------------------------
(* A locked wallet is not polled for.  LockedIsNotPolled is inductive        *)
(* together with TypeOK: whatever decides on the block tracker does so by    *)
(* ShouldRun, which stops it when the keyring is locked, and every step that *)
(* locks the keyring leaves a notice behind, or no tracker.                  *)

\* With the keyring locked, the decision is that the tracker stops.
LEMMA ShouldRunLocked ==
  ASSUME TypeOK, keyring = "locked", NEW known \in BOOLEAN, NEW run \in BOOLEAN
  PROVE  ShouldRun(known, run) = FALSE
BY DEF ShouldRun

\* A round of updates leaves no tracker running on a locked keyring.
LEMMA UpdatePendingLocked ==
  ASSUME TypeOK, keyring = "locked", NEW s, NEW cs, NEW run \in BOOLEAN,
         UpdatePendingTransactions(s, cs, run)
  PROVE  running' = FALSE
<1>1. (Pending(s, chain) = {}) \in BOOLEAN
  OBVIOUS
<1> QED
  BY <1>1, ShouldRunLocked DEF UpdatePendingTransactions

\* Nor does the signing of an approved transaction.
LEMMA SignLocked ==
  ASSUME TypeOK, keyring = "locked", NEW i, NEW m, NEW k, NEW n, NEW cs,
         Sign(i, m, k, n, cs)
  PROVE  running' => running
<1>1. \/ UNCHANGED managerVars
      \/ \E s, signed : UpdatePendingTransactions(signed, cs, running)
  BY DEF Sign
<1>2. running \in BOOLEAN
  BY DEF TypeOK
<1> QED
  BY <1>1, <1>2, UpdatePendingLocked DEF managerVars

\* What a step must leave alone for the property to stay true.
LEMMA QuietStep ==
  ASSUME LockedIsNotPolled, UNCHANGED <<keyring, notices>>,
         keyring = "locked" => (running' => running)
  PROVE  LockedIsNotPolled'
BY DEF LockedIsNotPolled

\* A user, whatever command it gives, keeps LockedIsNotPolled.
LEMMA LockedUserStep ==
  ASSUME TypeOK, LockedIsNotPolled, UserStep
  PROVE  LockedIsNotPolled'
<1> USE DEF managerVars
<1>1. ASSUME NEW a \in Accounts, NEW signOnly \in BOOLEAN,
             AddUnapprovedTransaction(a, signOnly)
      PROVE  LockedIsNotPolled'
  BY <1>1, QuietStep DEF AddUnapprovedTransaction
<1>2. ASSUME NEW i \in TxIds,
             \/ SpeedupOrCancelTransaction(i)
             \/ RetryTransaction(i)
             \/ SetGasOrDataForUnapprovedTransaction(i)
             \/ \E n \in Nonces \cup {None} :
                  SetNonceForUnapprovedTransaction(i, n)
             \/ RejectTransaction(i)
             \/ GetNonceForHardwareTransaction(i)
             \/ \E k \in Chains : ProcessHardwareSignature(i, k)
      PROVE  LockedIsNotPolled'
  <2>1. UNCHANGED <<keyring, notices, running>>
    BY <1>2 DEF SpeedupOrCancelTransaction, RetryTransaction,
                SetGasOrDataForUnapprovedTransaction,
                SetNonceForUnapprovedTransaction, RejectTransaction,
                GetNonceForHardwareTransaction, ProcessHardwareSignature
  <2> QED
    BY <2>1, QuietStep
<1>3. ASSUME NEW i \in TxIds, ApproveTransaction(i)
      PROVE  LockedIsNotPolled'
  <2>1. UNCHANGED <<keyring, notices>>
    BY <1>3 DEF ApproveTransaction
  <2>2. ASSUME keyring = "locked"
        PROVE  running' => running
    <3>1. \/ UNCHANGED managerVars
          \/ Sign(i, Tx(i), chain, Tx(i).nonce, calls)
      BY <1>3 DEF ApproveTransaction
    <3> QED
      BY <2>2, <3>1, SignLocked
  <2> QED
    BY <2>1, <2>2, QuietStep
<1>4. CASE RejectAllTransactions \/ \E c \in Chains : SetNetwork(c)
  BY <1>4, QuietStep DEF RejectAllTransactions, SetNetwork
<1>5. CASE CreateWallet \/ Unlock
  BY <1>5 DEF CreateWallet, Unlock, LockedIsNotPolled
<1>6. CASE Lock
  <2>1. notices \in Seq(Notices) /\ "Locked" \in Notices
    BY DEF TypeOK, Notices
  <2>2. notices' = Append(notices, "Locked")
    BY <1>6 DEF Lock
  <2>3. /\ Len(notices) + 1 \in 1 .. Len(notices')
        /\ notices'[Len(notices) + 1] = "Locked"
    BY <2>1, <2>2
  <2> QED
    BY <2>3 DEF LockedIsNotPolled
<1>7. CASE Reset \/ Restart
  BY <1>7 DEF Reset, Restart, LockedIsNotPolled
<1> QED
  BY <1>1, <1>2, <1>3, <1>4, <1>5, <1>6, <1>7 DEF UserStep

\* The callbacks, the block tracker and the observer keep LockedIsNotPolled.
LEMMA LockedWalletStep ==
  ASSUME TypeOK, LockedIsNotPolled, WalletStep
  PROVE  LockedIsNotPolled'
<1> USE DEF managerVars
<1>1. CASE \/ \E c \in CallsOf("gas") : OnGetGas(c)
           \/ \E c \in CallsOf("nonce") :
                OnGetNextNonceForHardware(c) \/ OnGetNextNonceFailed(c)
           \/ \E c \in CallsOf("receipt") : OnGetTxReceipt(c) \/ OnNoTxReceipt(c)
           \/ \E c \in CallsOf("count") : OnGetNetworkNonce(c)
           \/ GetBlockNumber
           \/ OnNoNewBlock
  <2>1. UNCHANGED <<keyring, notices, running>>
    BY <1>1 DEF OnGetGas, OnGetNextNonceForHardware, OnGetNextNonceFailed,
                OnGetTxReceipt, OnNoTxReceipt, OnGetNetworkNonce,
                GetBlockNumber, OnNoNewBlock
  <2> QED
    BY <2>1, QuietStep
<1>2. ASSUME NEW c \in CallsOf("nonce"), OnGetNextNonce(c)
      PROVE  LockedIsNotPolled'
  <2>1. PICK n \in Nonces : Sign(c.id, c.meta, c.chain, n, calls \ {c})
    BY <1>2 DEF OnGetNextNonce
  <2>2. UNCHANGED <<keyring, notices>>
    BY <1>2 DEF OnGetNextNonce
  <2> QED
    BY <2>1, <2>2, SignLocked, QuietStep
<1>3. ASSUME NEW c \in CallsOf("publish"), OnPublishTransaction(c)
      PROVE  LockedIsNotPolled'
  <2>1. UNCHANGED <<keyring, notices>>
    BY <1>3 DEF OnPublishTransaction
  <2>2. \/ UNCHANGED managerVars
        \/ \E s : UpdatePendingTransactions(s, calls \ {c}, running)
    BY <1>3 DEF OnPublishTransaction
  <2>3. running \in BOOLEAN
    BY DEF TypeOK
  <2>4. ASSUME keyring = "locked"
        PROVE  running' => running
    BY <2>2, <2>3, <2>4, UpdatePendingLocked
  <2> QED
    BY <2>1, <2>4, QuietStep
<1>4. CASE OnNewBlock
  <2>1. running \in BOOLEAN
    BY DEF TypeOK
  <2>2. ASSUME keyring = "locked"
        PROVE  running' = FALSE
    BY <1>4, <2>1, <2>2, UpdatePendingLocked DEF OnNewBlock
  <2> QED
    BY <1>4, <2>2, QuietStep DEF OnNewBlock
<1>5. CASE OnKeyringNotice
  <2>1. keyring' = keyring
    BY <1>5 DEF OnKeyringNotice
  <2>2. /\ running \in BOOLEAN /\ knownNoPending \in BOOLEAN
        /\ ShouldRun(knownNoPending, running) \in BOOLEAN
    BY ShouldRunType DEF TypeOK
  <2>3. ASSUME keyring = "locked"
        PROVE  running' = FALSE
    <3>1. CASE running' = ShouldRun(knownNoPending, running)
      BY <2>2, <2>3, <3>1, ShouldRunLocked
    <3>2. ASSUME NEW run \in BOOLEAN,
                 UpdatePendingTransactions(txs, calls, run)
          PROVE  running' = FALSE
      BY <2>3, <3>2, UpdatePendingLocked
    <3> QED
      BY <1>5, <2>2, <3>1, <3>2 DEF OnKeyringNotice
  <2> QED
    BY <2>1, <2>3 DEF LockedIsNotPolled
<1> QED
  BY <1>1, <1>2, <1>3, <1>4, <1>5 DEF WalletStep

\* The nodes touch none of what LockedIsNotPolled is about.
LEMMA LockedNetworkStep ==
  ASSUME LockedIsNotPolled, NetworkStep
  PROVE  LockedIsNotPolled'
<1>1. UNCHANGED <<keyring, notices, running>>
  BY DEF NetworkStep, NodeAccepts, PageBroadcasts, Mine, OutsideTx, managerVars
<1> QED
  BY <1>1, QuietStep

\* However locking, unlocking, notices, blocks, resets and restarts
\* interleave, the tracker of a locked wallet runs at most until the manager
\* has heard of the locking.
THEOREM LockedNeverPolled == Spec => []LockedIsNotPolled
<1>1. Init => LockedIsNotPolled
  BY DEF Init, LockedIsNotPolled
<1>2. TypeOK /\ LockedIsNotPolled /\ [Next]_vars => LockedIsNotPolled'
  <2>1. ASSUME LockedIsNotPolled, UNCHANGED vars
        PROVE  LockedIsNotPolled'
    BY <2>1, QuietStep DEF vars, managerVars
  <2> QED
    BY <2>1, LockedUserStep, LockedWalletStep, LockedNetworkStep DEF Next
<1> QED
  BY <1>1, <1>2, TypeCorrect, PTL DEF Spec

-----------------------------------------------------------------------------
(* What a handler does to the dictionaries and the requests *)

\* The statuses of a transaction that has been published or handed out.
Out == {"Submitted", "Signed", "Confirmed"}

\* A transaction that AddOrUpdateTx may retire or the tracker may drop.
MayGo(m) == m # None /\ m.status \in Out \cup {"Rejected"}

\* The dictionaries t are s with m written for i under network c, and then
\* some of the transactions that may go are gone.
IsRewritten(s, t, c, i, m) ==
  \A k \in Chains, j \in TxIds :
    LET w == IF k = c /\ j = i THEN m ELSE s[k][j]
    IN  \/ t[k][j] = w
        \/ k = c /\ MayGo(w) /\ t[k][j] = None

Rewrites(i, m) == IsRewritten(txs, txs', chain, i, m)

\* A request for the receipt of a transaction as the step leaves it.
FreshReceipt(c) ==
  /\ c.type = "receipt"
  /\ c.id \in TxIds
  /\ c.chain = chain
  /\ txs'[chain][c.id] # None
  /\ txs'[chain][c.id].status \in Out
  /\ txs'[chain][c.id].hash = c.hash

\* The requests of cs are in flight, and receipts the step has asked for.
Leaves(cs) == \A c \in calls' : c \in cs \/ FreshReceipt(c)

\* Writing to an entry leaves the others.
LEMMA PutRows ==
  ASSUME NEW s \in Stores, NEW c \in Chains, NEW i \in TxIds, NEW m,
         NEW k \in Chains, NEW j \in TxIds
  PROVE  Put(s, c, i, m)[k][j] = IF k = c /\ j = i THEN m ELSE s[k][j]
BY DEF Put, Stores

\* Retiring takes one transaction of the given status, or none.
LEMMA RetireRows ==
  ASSUME NEW s \in Stores, NEW c \in Chains, NEW st,
         NEW t \in RetireTxByStatus(s, c, st),
         NEW k \in Chains, NEW j \in TxIds
  PROVE  \/ t[k][j] = s[k][j]
         \/ k = c /\ s[k][j] # None /\ s[k][j].status = st /\ t[k][j] = None
<1>1. CASE t = s
  BY <1>1
<1>2. ASSUME NEW i \in ByStatus(s, c, st), t = DeleteTx(s, c, i)
      PROVE  \/ t[k][j] = s[k][j]
             \/ k = c /\ s[k][j] # None /\ s[k][j].status = st /\ t[k][j] = None
  <2>1. i \in TxIds /\ s[c][i] # None /\ s[c][i].status = st
    BY DEF ByStatus
  <2>2. t[k][j] = IF k = c /\ j = i THEN None ELSE s[k][j]
    BY <1>2, <2>1, PutRows DEF DeleteTx
  <2> QED
    BY <2>1, <2>2
<1> QED
  BY <1>1, <1>2 DEF RetireTxByStatus

\* AddOrUpdateTx writes one transaction; what it retires may go.
LEMMA AddOrUpdateRewrites ==
  ASSUME NEW s \in Stores, NEW c \in Chains, NEW i \in TxIds, NEW m \in Meta,
         NEW t \in AddOrUpdateTx(s, c, i, m)
  PROVE  IsRewritten(s, t, c, i, m)
<1> DEFINE p == Put(s, c, i, m)
<1>1. p \in Stores
  BY PutType
<1>2. ASSUME NEW k \in Chains, NEW j \in TxIds
      PROVE  p[k][j] = IF k = c /\ j = i THEN m ELSE s[k][j]
  BY PutRows
<1> HIDE DEF p
<1>3. CASE t = p
  BY <1>2, <1>3 DEF IsRewritten
<1>4. ASSUME NEW u \in RetireTxByStatus(p, c, "Confirmed"),
             t \in RetireTxByStatus(u, c, "Rejected")
      PROVE  IsRewritten(s, t, c, i, m)
  <2>1. u \in Stores
    BY <1>1, RetireType
  <2>2. ASSUME NEW k \in Chains, NEW j \in TxIds
        PROVE  \/ t[k][j] = p[k][j]
               \/ k = c /\ MayGo(p[k][j]) /\ t[k][j] = None
    <3>1. \/ u[k][j] = p[k][j]
          \/ /\ k = c /\ p[k][j] # None /\ u[k][j] = None
             /\ p[k][j].status = "Confirmed"
      BY <1>1, RetireRows
    <3>2. \/ t[k][j] = u[k][j]
          \/ /\ k = c /\ u[k][j] # None /\ t[k][j] = None
             /\ u[k][j].status = "Rejected"
      BY <1>4, <2>1, RetireRows
    <3> QED
      BY <3>1, <3>2 DEF MayGo, Out
  <2> QED
    BY <1>2, <2>2 DEF IsRewritten
<1> QED
  BY <1>3, <1>4 DEF AddOrUpdateTx, p

\* SaveTx does that under the selected network.
LEMMA SaveTxRewrites ==
  ASSUME TypeOK, NEW i \in TxIds, NEW m \in Meta, NEW cs, SaveTx(i, m, cs)
  PROVE  Rewrites(i, m) /\ Leaves(cs)
<1>1. txs \in Stores /\ chain \in Chains
  BY DEF TypeOK
<1>2. Rewrites(i, m)
  BY <1>1, AddOrUpdateRewrites DEF SaveTx, Rewrites
<1> QED
  BY <1>2 DEF SaveTx, Leaves

\* A round of updates drops some of the pending transactions and asks for the
\* receipts of the others.
LEMMA UpdatePendingRows ==
  ASSUME TypeOK, NEW s \in Stores, NEW cs, NEW run,
         UpdatePendingTransactions(s, cs, run)
  PROVE  /\ \A k \in Chains, j \in TxIds :
              \/ txs'[k][j] = s[k][j]
              \/ /\ k = chain
                 /\ s[k][j] # None
                 /\ s[k][j].status \in {"Submitted", "Signed"}
                 /\ txs'[k][j] = None
         /\ Leaves(cs)
<1> DEFINE pending == Pending(s, chain)
           taken   == {i \in pending : IsNonceTaken(s, chain, i)}
           call(i) == [type |-> "receipt", id |-> i, chain |-> chain,
                       hash |-> s[chain][i].hash]
<1>1. chain \in Chains
  BY DEF TypeOK
<1>2. pending \subseteq TxIds
  BY DEF Pending, ByStatus
<1>3. \A j \in pending :
         s[chain][j] # None /\ s[chain][j].status \in {"Submitted", "Signed"}
  BY DEF Pending, ByStatus
<1>4. \A k \in Chains, j \in TxIds :
         txs'[k][j] = IF k = chain /\ j \in taken THEN None ELSE s[k][j]
  <2>1. txs' = DeleteAll(s, chain, taken)
    BY DEF UpdatePendingTransactions
  <2> HIDE DEF taken
  <2> QED
    BY <1>1, <2>1 DEF DeleteAll, Stores
<1>5. calls' = cs \cup {call(i) : i \in pending \ taken}
  BY DEF UpdatePendingTransactions
<1>6. taken \subseteq pending
  OBVIOUS
<1> HIDE DEF pending, taken
<1>7. ASSUME NEW i \in pending \ taken
      PROVE  FreshReceipt(call(i))
  <2>1. i \in TxIds /\ txs'[chain][i] = s[chain][i]
    BY <1>1, <1>2, <1>4
  <2> QED
    BY <1>3, <2>1 DEF FreshReceipt, Out
<1>8. Leaves(cs)
  BY <1>5, <1>7 DEF Leaves
<1> QED
  BY <1>3, <1>4, <1>6, <1>8

\* A write followed by a round of updates.
LEMMA UpdateAfterWrite ==
  ASSUME TypeOK, NEW s \in Stores, NEW i \in TxIds, NEW m,
         IsRewritten(txs, s, chain, i, m),
         NEW cs, NEW run, UpdatePendingTransactions(s, cs, run)
  PROVE  Rewrites(i, m) /\ Leaves(cs)
<1>1. \A k \in Chains, j \in TxIds :
        \/ txs'[k][j] = s[k][j]
        \/ /\ k = chain
           /\ s[k][j] # None
           /\ s[k][j].status \in {"Submitted", "Signed"}
           /\ txs'[k][j] = None
  BY UpdatePendingRows
<1> QED
  BY <1>1, UpdatePendingRows DEF Rewrites, IsRewritten, MayGo, Out

\* A round of updates alone writes nothing.
LEMMA UpdateAlone ==
  ASSUME TypeOK, NEW i \in TxIds, NEW cs, NEW run,
         UpdatePendingTransactions(txs, cs, run)
  PROVE  Rewrites(i, Tx(i)) /\ Leaves(cs)
<1>1. txs \in Stores
  BY DEF TypeOK
<1>2. IsRewritten(txs, txs, chain, i, Tx(i))
  BY DEF IsRewritten, Tx, GetTx
<1> QED
  BY <1>1, <1>2, UpdateAfterWrite

-----------------------------------------------------------------------------
(* The poll of the pending transactions.  This needs no patience; it needs   *)
(* that the wallet stays on one network, because what the manager has learnt *)
(* of the pending transactions is not forgotten when the network changes,    *)
(* and that no reset comes while a command runs, because the callback would  *)
(* write into a wallet whose manager hears only that it was created.         *)

StaysOnNetwork ==
  /\ "switch" \notin Ops
  /\ "reset" \notin Ops \/ "interrupt" \notin Ops

IsPending(m) == m # None /\ m.status \in {"Submitted", "Signed"}

RequestsOfUser == {"gas", "nonce", "publish"}

\* What is asked for is not pending yet.
AskedIsUnapproved ==
  \A c \in calls : c.type \in {"gas", "nonce"} => c.meta.status = "Unapproved"

\* Without a wallet there is no command, and nothing is pending.
IdleWithoutWallet ==
  keyring = "none" =>
    /\ \A c \in calls : c.type \notin RequestsOfUser
    /\ \A j \in TxIds : ~IsPending(txs[chain][j])

\* known_no_pending_tx_ is right about the selected network.
KnownIsRight ==
  knownNoPending => \A j \in TxIds : ~IsPending(txs[chain][j])

Watched ==
  AskedIsUnapproved /\ IdleWithoutWallet /\ KnownIsRight /\ PendingIsPolled

\* What is pending, said of each transaction.
LEMMA PendingRows ==
  ASSUME NEW s \in Stores, NEW k \in Chains
  PROVE  Pending(s, k) = {j \in TxIds : IsPending(s[k][j])}
BY DEF Pending, ByStatus, IsPending

\* A step that makes nothing pending keeps the invariant.
LEMMA NothingMorePending ==
  ASSUME TypeOK, TypeOK', Watched,
         UNCHANGED <<chain, keyring, running, knownNoPending, notices>>,
         \A j \in TxIds :
           txs'[chain][j] = txs[chain][j] \/ ~IsPending(txs'[chain][j]),
         \A c \in calls' :
           \/ c \in calls
           \/ c.type \notin RequestsOfUser
           \/ /\ keyring # "none"
              /\ c.type \in {"gas", "nonce"} => c.meta.status = "Unapproved"
  PROVE  Watched'
<1>1. AskedIsUnapproved'
  BY DEF Watched, AskedIsUnapproved, RequestsOfUser
<1>2. IdleWithoutWallet'
  BY DEF Watched, IdleWithoutWallet
<1>3. KnownIsRight'
  BY DEF Watched, KnownIsRight
<1>4. PendingIsPolled'
  <2>1. /\ Pending(txs, chain) = {j \in TxIds : IsPending(txs[chain][j])}
        /\ Pending(txs, chain)' = {j \in TxIds : IsPending(txs'[chain][j])}
    BY PendingRows DEF TypeOK
  <2>2. Pending(txs, chain)' # {} => Pending(txs, chain) # {}
    BY <2>1
  <2> QED
    BY <2>2 DEF Watched, PendingIsPolled
<1> QED
  BY <1>1, <1>2, <1>3, <1>4 DEF Watched

\* A round of updates of what a handler has left restarts the tracker if it
\* is needed.
LEMMA UpdateWatched ==
  ASSUME TypeOK, TypeOK', Watched, NEW s \in Stores, NEW cs, NEW run \in BOOLEAN,
         UpdatePendingTransactions(s, cs, run), UNCHANGED <<chain, keyring>>,
         cs \subseteq calls, keyring = "none" => s = txs
  PROVE  Watched'
<1>1. chain \in Chains /\ txs \in Stores
  BY DEF TypeOK
<1>2. \A j \in TxIds : txs'[chain][j] = s[chain][j] \/ txs'[chain][j] = None
  BY <1>1, UpdatePendingRows
<1>3. \A c \in calls' : c \in calls \/ c.type = "receipt"
  BY DEF UpdatePendingTransactions
<1>4. Pending(s, chain) = {j \in TxIds : IsPending(s[chain][j])}
  BY <1>1, PendingRows
<1>5. /\ knownNoPending' = (Pending(s, chain) = {})
      /\ running' = ShouldRun(Pending(s, chain) = {}, run)
  BY DEF UpdatePendingTransactions
<1>6. \A j \in TxIds : IsPending(txs'[chain][j]) => IsPending(s[chain][j])
  BY <1>2 DEF IsPending
<1>7. AskedIsUnapproved'
  BY <1>3 DEF Watched, AskedIsUnapproved
<1>8. IdleWithoutWallet'
  BY <1>3, <1>6 DEF Watched, IdleWithoutWallet, RequestsOfUser
<1>9. KnownIsRight'
  BY <1>4, <1>5, <1>6 DEF KnownIsRight
<1>10. PendingIsPolled'
  <2>1. Pending(txs, chain)' = {j \in TxIds : IsPending(txs'[chain][j])}
    BY PendingRows DEF TypeOK
  <2>2. ASSUME keyring = "unlocked", Pending(s, chain) # {}
        PROVE  running' = TRUE
    BY <1>5, <2>2 DEF ShouldRun
  <2> QED
    BY <1>4, <1>6, <2>1, <2>2 DEF PendingIsPolled
<1> QED
  BY <1>7, <1>8, <1>9, <1>10 DEF Watched

\* Saving a transaction that is not pending does not need one.
LEMMA SaveWatched ==
  ASSUME TypeOK, TypeOK', Watched, NEW i \in TxIds, NEW m \in Meta,
         ~IsPending(m), NEW cs, SaveTx(i, m, cs),
         \A c \in cs :
           \/ c \in calls
           \/ /\ keyring # "none"
              /\ c.type \in {"gas", "nonce"} => c.meta.status = "Unapproved",
         UNCHANGED <<chain, keyring, running, knownNoPending, notices>>
  PROVE  Watched'
<1>1. Rewrites(i, m)
  BY SaveTxRewrites
<1>2. \A j \in TxIds :
        txs'[chain][j] = txs[chain][j] \/ ~IsPending(txs'[chain][j])
  BY <1>1 DEF TypeOK, Rewrites, IsRewritten, IsPending
<1>3. calls' = cs
  BY DEF SaveTx
<1> QED
  BY <1>2, <1>3, NothingMorePending

\* Signing keeps the invariant, whatever the keyring is by then.
LEMMA SignWatched ==
  ASSUME TypeOK, TypeOK', Watched, NEW i \in TxIds, NEW m \in Meta,
         NEW k \in Chains, NEW n \in Nonces, NEW cs \in SUBSET calls,
         Sign(i, m, k, n, cs), keyring # "none",
         UNCHANGED <<chain, keyring, notices>>
  PROVE  Watched'
<1> DEFINE sig == IF keyring = "unlocked"
                    THEN [id |-> i, from |-> m.from, nonce |-> n, chain |-> k]
                    ELSE m.sig
           approved == [m EXCEPT !.status = "Approved", !.nonce = n,
                                 !.sig = sig]
           signed == [approved EXCEPT !.status = "Signed", !.hash = sig]
           call == [type |-> "publish", id |-> i, raw |-> sig,
                    chain |-> chain, accepted |-> FALSE]
<1>1. sig \in Signatures
  BY DEF Signatures, SignedTx, Meta
<1>2. approved \in Meta /\ ~IsPending(approved) /\ signed \in Meta
  BY <1>1 DEF Meta, Status, IsPending
<1>3. call.type = "publish"
  OBVIOUS
<1>4. chain \in Chains /\ txs \in Stores /\ running \in BOOLEAN
  BY DEF TypeOK
<1>5. \/ /\ \/ SaveTx(i, approved, cs)
            \/ SaveTx(i, approved, cs \cup {call})
         /\ UNCHANGED managerVars
      \/ \E s \in AddOrUpdateTx(txs, chain, i, approved) :
           UpdatePendingTransactions(Put(s, chain, i, signed), cs, running)
  BY DEF Sign
<1> HIDE DEF sig, approved, signed, call
<1>6. CASE \E s \in AddOrUpdateTx(txs, chain, i, approved) :
             UpdatePendingTransactions(Put(s, chain, i, signed), cs, running)
  BY <1>2, <1>4, <1>6, AddOrUpdateType, PutType, UpdateWatched
<1>7. CASE /\ \/ SaveTx(i, approved, cs)
              \/ SaveTx(i, approved, cs \cup {call})
           /\ UNCHANGED managerVars
  BY <1>2, <1>3, <1>7, SaveWatched DEF managerVars
<1> QED
  BY <1>5, <1>6, <1>7

\* Adding a transaction does.
LEMMA AddWatched ==
  ASSUME TypeOK, TypeOK', Watched, NEW m \in Meta, m.status = "Unapproved",
         NEW of, NEW cs \in SUBSET calls,
         ContinueAddUnapprovedTransaction(m, of, cs),
         UNCHANGED <<chain, keyring, running, knownNoPending, notices>>
  PROVE  Watched'
<1>1. PICK i \in TxIds : SaveTx(i, [m EXCEPT !.chain = chain], cs)
  BY DEF ContinueAddUnapprovedTransaction
<1>2. /\ [m EXCEPT !.chain = chain] \in Meta
      /\ ~IsPending([m EXCEPT !.chain = chain])
  BY DEF TypeOK, Meta, IsPending
<1> QED
  BY <1>1, <1>2, SaveWatched

\* The user's commands keep the invariant.
LEMMA UserStepWatched ==
  ASSUME StaysOnNetwork, TypeOK, TypeOK', Watched, UserStep
  PROVE  Watched'
<1> USE DEF managerVars
<1>0. chain \in Chains /\ txs \in Stores
  BY DEF TypeOK
<1>1. ASSUME NEW a \in Accounts, NEW signOnly \in BOOLEAN,
             AddUnapprovedTransaction(a, signOnly)
      PROVE  Watched'
  <2> DEFINE m == [status |-> "Unapproved", from |-> a, nonce |-> None,
                   sig |-> None, hash |-> None, signOnly |-> signOnly,
                   chain |-> chain]
             call == [type |-> "gas", meta |-> m, intent |-> 0]
  <2>1. /\ m \in Meta /\ m.status = "Unapproved"
        /\ call.type = "gas" /\ call.meta = m
    BY DEF TypeOK, Meta, Status, Signatures
  <2>2. /\ keyring = "unlocked"
        /\ UNCHANGED <<chain, keyring, running, knownNoPending, notices>>
        /\ \/ ContinueAddUnapprovedTransaction(m, 0, calls)
           \/ calls' = calls \cup {call} /\ UNCHANGED txs
    BY <1>1 DEF AddUnapprovedTransaction
  <2> HIDE DEF m, call
  <2> QED
    BY <2>1, <2>2, AddWatched, NothingMorePending
<1>2. ASSUME NEW i \in TxIds, SpeedupOrCancelTransaction(i)
      PROVE  Watched'
  <2> DEFINE m == [Tx(i) EXCEPT !.status = "Unapproved", !.hash = None,
                                !.signOnly = FALSE, !.sig = Stale]
             call == [type |-> "gas", intent |-> IntentOfCopy(i), meta |-> m]
  <2>1. Tx(i) \in Meta
    BY <1>2, TxType DEF SpeedupOrCancelTransaction
  <2>2. call.type = "gas" /\ call.meta.status = "Unapproved"
    BY <2>1 DEF Meta
  <2>3. /\ calls' = calls \cup {call}
        /\ keyring = "unlocked"
        /\ UNCHANGED <<chain, keyring, running, knownNoPending, notices, txs>>
    BY <1>2 DEF SpeedupOrCancelTransaction
  <2> HIDE DEF call
  <2> QED
    BY <2>2, <2>3, NothingMorePending
<1>3. ASSUME NEW i \in TxIds, RetryTransaction(i)
      PROVE  Watched'
  <2> DEFINE m == [Tx(i) EXCEPT !.status = "Unapproved", !.hash = None,
                                !.signOnly = FALSE]
  <2>1. Tx(i) \in Meta
    BY <1>3, TxType DEF RetryTransaction
  <2>2. m \in Meta /\ m.status = "Unapproved"
    BY <2>1 DEF Meta, Status, Signatures
  <2>3. /\ ContinueAddUnapprovedTransaction(m, IntentOfCopy(i), calls)
        /\ UNCHANGED <<chain, keyring, running, knownNoPending, notices>>
    BY <1>3 DEF RetryTransaction
  <2> HIDE DEF m
  <2> QED
    BY <2>2, <2>3, AddWatched
<1>4. ASSUME NEW i \in TxIds, ClientMayCommand(i) \/ ClientMayConfirm(i)
      PROVE  Tx(i) \in Meta /\ Tx(i).status = "Unapproved" /\ keyring = "unlocked"
  BY <1>4, CommandOnQueue
<1>5. ASSUME NEW i \in TxIds,
             \/ SetGasOrDataForUnapprovedTransaction(i)
             \/ \E n \in Nonces \cup {None} :
                  SetNonceForUnapprovedTransaction(i, n)
             \/ RejectTransaction(i)
      PROVE  Watched'
  <2>1. /\ ClientMayCommand(i) \/ ClientMayConfirm(i)
        /\ UNCHANGED <<chain, keyring, running, knownNoPending, notices>>
    BY <1>5 DEF SetGasOrDataForUnapprovedTransaction,
                SetNonceForUnapprovedTransaction, RejectTransaction
  <2>2. \/ SaveTx(i, Edited(Tx(i)), calls)
        \/ \E n \in Nonces \cup {None} :
             SaveTx(i, [Edited(Tx(i)) EXCEPT !.nonce = n], calls)
        \/ SaveTx(i, [Tx(i) EXCEPT !.status = "Rejected"], calls)
    BY <1>5 DEF SetGasOrDataForUnapprovedTransaction,
                SetNonceForUnapprovedTransaction, RejectTransaction
  <2>3. /\ Edited(Tx(i)) \in Meta /\ ~IsPending(Edited(Tx(i)))
        /\ \A n \in Nonces \cup {None} :
             /\ [Edited(Tx(i)) EXCEPT !.nonce = n] \in Meta
             /\ ~IsPending([Edited(Tx(i)) EXCEPT !.nonce = n])
        /\ [Tx(i) EXCEPT !.status = "Rejected"] \in Meta
        /\ ~IsPending([Tx(i) EXCEPT !.status = "Rejected"])
    BY <1>4, <2>1 DEF Edited, Meta, Status, Signatures, IsPending
  <2> QED
    BY <2>1, <2>2, <2>3, SaveWatched
<1>6. ASSUME NEW i \in TxIds,
             ApproveTransaction(i) \/ GetNonceForHardwareTransaction(i)
      PROVE  Watched'
  <2>1. ClientMayConfirm(i) /\ UNCHANGED <<chain, keyring, notices>>
    BY <1>6 DEF ApproveTransaction, GetNonceForHardwareTransaction
  <2>2. Tx(i) \in Meta /\ Tx(i).status = "Unapproved" /\ keyring = "unlocked"
    BY <1>4, <2>1
  <2>3. CASE Tx(i).nonce = None
    <3> DEFINE ask(hardware) ==
                 [type |-> "nonce", id |-> i, meta |-> Tx(i), chain |-> chain,
                  hardware |-> hardware, again |-> CommandsOn(i) # {}]
    <3>1. \A h : ask(h).type = "nonce" /\ ask(h).meta = Tx(i)
      OBVIOUS
    <3>2. /\ \E h : calls' = calls \cup {ask(h)}
          /\ UNCHANGED <<txs, running, knownNoPending>>
      BY <1>6, <2>3 DEF ApproveTransaction, GetNonceForHardwareTransaction
    <3> HIDE DEF ask
    <3> QED
      BY <2>1, <2>2, <3>1, <3>2, NothingMorePending
  <2>4. CASE Tx(i).nonce # None /\ ApproveTransaction(i)
    <3>1. Tx(i).nonce \in Nonces
      BY <2>2, <2>4 DEF Meta
    <3>2. Sign(i, Tx(i), chain, Tx(i).nonce, calls)
      BY <2>4 DEF ApproveTransaction
    <3> QED
      BY <1>0, <2>1, <2>2, <3>1, <3>2, SignWatched
  <2>5. CASE Tx(i).nonce # None /\ GetNonceForHardwareTransaction(i)
    <3>1. ~IsPending(Tx(i))
      BY <2>2 DEF IsPending
    <3>2. SaveTx(i, Tx(i), calls) /\ UNCHANGED <<running, knownNoPending>>
      BY <2>5 DEF GetNonceForHardwareTransaction
    <3> QED
      BY <2>1, <2>2, <3>1, <3>2, SaveWatched
  <2> QED
    BY <1>6, <2>3, <2>4, <2>5
<1>7. ASSUME NEW i \in TxIds, NEW k \in Chains, ProcessHardwareSignature(i, k)
      PROVE  Watched'
  <2> DEFINE sig == [id |-> i, from |-> Tx(i).from, nonce |-> Tx(i).nonce,
                     chain |-> k]
             m == [Tx(i) EXCEPT !.status = "Approved", !.sig = sig]
             failed == [Tx(i) EXCEPT !.status = "Error"]
             call == [type |-> "publish", id |-> i, raw |-> sig,
                      chain |-> chain, accepted |-> FALSE]
  <2>1. /\ ClientMayConfirm(i) /\ Tx(i).nonce # None
        /\ UNCHANGED <<chain, keyring, running, knownNoPending, notices>>
        /\ SaveTx(i, m, calls \cup {call}) \/ SaveTx(i, failed, calls)
    BY <1>7 DEF ProcessHardwareSignature
  <2>2. Tx(i) \in Meta /\ keyring = "unlocked"
    BY <1>4, <2>1
  <2>3. sig \in Signatures
    BY <2>1, <2>2 DEF Meta, Signatures, SignedTx
  <2>4. /\ m \in Meta /\ ~IsPending(m)
        /\ failed \in Meta /\ ~IsPending(failed)
        /\ call.type = "publish"
    BY <2>2, <2>3 DEF Meta, Status, IsPending
  <2> HIDE DEF m, failed, call
  <2> QED
    BY <2>1, <2>2, <2>4, SaveWatched
<1>8. CASE RejectAllTransactions
  <2>1. UNCHANGED <<chain, keyring, running, knownNoPending, notices, calls>>
    BY <1>8 DEF RejectAllTransactions
  <2>2. ASSUME NEW j \in TxIds
        PROVE  txs'[chain][j] = txs[chain][j] \/ ~IsPending(txs'[chain][j])
    <3>1. \/ txs'[chain][j] = txs[chain][j]
          \/ /\ txs[chain][j] # None
             /\ txs'[chain][j] = [txs[chain][j] EXCEPT !.status = "Rejected"]
      BY <1>0, <1>8 DEF RejectAllTransactions, Queue, Stores, ByStatus
    <3> QED
      BY <1>0, <3>1 DEF Stores, Meta, IsPending
  <2> QED
    BY <2>1, <2>2, NothingMorePending
<1>9. CASE CreateWallet
  <2>1. keyring = "none" /\ UNCHANGED <<chain, txs, calls, knownNoPending>>
    BY <1>9 DEF CreateWallet
  <2>2. Pending(txs, chain)' = {j \in TxIds : IsPending(txs'[chain][j])}
    BY <2>1, PendingRows DEF TypeOK
  <2>3. \A j \in TxIds : ~IsPending(txs'[chain][j])
    BY <2>1 DEF Watched, IdleWithoutWallet
  <2>4. AskedIsUnapproved'
    BY <2>1 DEF Watched, AskedIsUnapproved
  <2>5. IdleWithoutWallet' /\ KnownIsRight' /\ PendingIsPolled'
    BY <1>9, <2>2, <2>3 DEF CreateWallet, IdleWithoutWallet, KnownIsRight,
                            PendingIsPolled
  <2> QED
    BY <2>4, <2>5 DEF Watched
<1>10. CASE Lock
  <2>1. keyring' = "locked" /\ UNCHANGED <<chain, txs, calls, knownNoPending>>
    BY <1>10 DEF Lock
  <2>2. AskedIsUnapproved' /\ IdleWithoutWallet' /\ KnownIsRight' /\ PendingIsPolled'
    BY <2>1 DEF Watched, AskedIsUnapproved, IdleWithoutWallet, KnownIsRight,
                PendingIsPolled
  <2> QED
    BY <2>2 DEF Watched
<1>11. CASE Unlock
  <2>1. /\ keyring' = "unlocked"
        /\ UNCHANGED <<chain, txs, calls, knownNoPending>>
        /\ notices' = Append(notices, "Unlocked")
    BY <1>11 DEF Unlock
  <2>2. /\ Len(notices) + 1 \in 1 .. Len(notices')
        /\ notices'[Len(notices) + 1] = "Unlocked"
    BY <2>1 DEF TypeOK, Notices
  <2>3. PendingIsPolled'
    BY <2>2 DEF PendingIsPolled
  <2>4. AskedIsUnapproved' /\ IdleWithoutWallet' /\ KnownIsRight'
    BY <2>1 DEF Watched, AskedIsUnapproved, IdleWithoutWallet, KnownIsRight
  <2> QED
    BY <2>3, <2>4 DEF Watched
<1>12. ~\E c \in Chains : SetNetwork(c)
  BY DEF SetNetwork, StaysOnNetwork, Does
<1>13. CASE Reset
  <2>1. /\ UNCHANGED calls
        /\ \A c \in calls : c.type \notin RequestsOfUser
    BY <1>13 DEF Reset, StaysOnNetwork, Does, NoCommandRuns, CallsOf,
                 RequestsOfUser
  <2>2. \A j \in TxIds : ~IsPending(txs'[chain'][j])
    BY <1>13 DEF Reset, EmptyStore, IsPending, TypeOK
  <2>3. keyring' = "none"
    BY <1>13 DEF Reset
  <2>4. AskedIsUnapproved' /\ IdleWithoutWallet' /\ KnownIsRight' /\ PendingIsPolled'
    BY <2>1, <2>2, <2>3 DEF Watched, AskedIsUnapproved, IdleWithoutWallet,
                            KnownIsRight, PendingIsPolled
  <2> QED
    BY <2>4 DEF Watched
<1>14. CASE Restart
  <2>1. /\ UNCHANGED <<chain, txs>> /\ calls' = {} /\ knownNoPending' = FALSE
        /\ keyring' # "unlocked" /\ (keyring' = "none" => keyring = "none")
    BY <1>14 DEF Restart
  <2>2. AskedIsUnapproved' /\ IdleWithoutWallet' /\ KnownIsRight' /\ PendingIsPolled'
    BY <2>1 DEF Watched, AskedIsUnapproved, IdleWithoutWallet, KnownIsRight,
                PendingIsPolled
  <2> QED
    BY <2>2 DEF Watched
<1> QED
  BY <1>1, <1>2, <1>3, <1>5, <1>6, <1>7, <1>8, <1>9, <1>10, <1>11, <1>12,
     <1>13, <1>14
  DEF UserStep

\* The callbacks, the tracker and the observer keep it.
LEMMA WalletStepWatched ==
  ASSUME TypeOK, TypeOK', Watched, WalletStep
  PROVE  Watched'
<1> USE DEF managerVars
<1>0. /\ chain \in Chains /\ txs \in Stores /\ running \in BOOLEAN
      /\ knownNoPending \in BOOLEAN
  BY DEF TypeOK
<1>1. ASSUME NEW c \in CallsOf("gas"), OnGetGas(c)
      PROVE  Watched'
  <2>1. c.meta \in Meta /\ c.meta.status = "Unapproved"
    BY CallKinds DEF TypeOK, CallsOf, GasCalls, Watched, AskedIsUnapproved
  <2>2. /\ UNCHANGED <<chain, keyring, running, knownNoPending, notices>>
        /\ \/ ContinueAddUnapprovedTransaction(c.meta, c.intent, calls \ {c})
           \/ calls' = calls \ {c} /\ UNCHANGED txs
    BY <1>1 DEF OnGetGas
  <2>3. calls \ {c} \in SUBSET calls
    OBVIOUS
  <2> QED
    BY <2>1, <2>2, <2>3, AddWatched, NothingMorePending
<1>2. ASSUME NEW c \in CallsOf("nonce")
      PROVE  /\ c.id \in TxIds /\ c.meta \in Meta /\ c.chain \in Chains
             /\ c.meta.status = "Unapproved" /\ keyring # "none"
             /\ calls \ {c} \in SUBSET calls
  BY CallKinds DEF TypeOK, CallsOf, NonceCalls, Watched, AskedIsUnapproved,
                   IdleWithoutWallet, RequestsOfUser
<1>3. ASSUME NEW c \in CallsOf("nonce"), OnGetNextNonce(c)
      PROVE  Watched'
  <2>1. /\ \E n \in Nonces : Sign(c.id, c.meta, c.chain, n, calls \ {c})
        /\ UNCHANGED <<chain, keyring, notices>>
    BY <1>3 DEF OnGetNextNonce
  <2> QED
    BY <1>2, <2>1, SignWatched
<1>4. ASSUME NEW c \in CallsOf("nonce"),
             OnGetNextNonceForHardware(c) \/ OnGetNextNonceFailed(c)
      PROVE  Watched'
  <2>1. /\ \/ \E n \in Nonces :
                SaveTx(c.id, [c.meta EXCEPT !.nonce = n], calls \ {c})
           \/ SaveTx(c.id, [c.meta EXCEPT !.status = "Error"], calls \ {c})
        /\ UNCHANGED <<chain, keyring, running, knownNoPending, notices>>
    BY <1>4 DEF OnGetNextNonceForHardware, OnGetNextNonceFailed
  <2>2. /\ \A n \in Nonces : /\ [c.meta EXCEPT !.nonce = n] \in Meta
                             /\ ~IsPending([c.meta EXCEPT !.nonce = n])
        /\ [c.meta EXCEPT !.status = "Error"] \in Meta
        /\ ~IsPending([c.meta EXCEPT !.status = "Error"])
    BY <1>2 DEF Meta, Status, IsPending
  <2> QED
    BY <1>2, <2>1, <2>2, SaveWatched
<1>5. ASSUME NEW c \in CallsOf("publish"), OnPublishTransaction(c)
      PROVE  Watched'
  <2> DEFINE m == Tx(c.id)
             sent == [m EXCEPT !.status = "Submitted", !.hash = c.raw]
             failed == [m EXCEPT !.status = "Error"]
  <2>1. c.id \in TxIds /\ c.raw \in Signatures /\ keyring # "none"
    BY CallKinds DEF TypeOK, CallsOf, PublishCalls, Watched,
                     IdleWithoutWallet, RequestsOfUser
  <2>2. m # None => /\ sent \in Meta
                    /\ failed \in Meta /\ ~IsPending(failed)
    <3>1. m \in Meta \cup {None}
      BY <2>1, TxType
    <3> QED
      BY <2>1, <3>1 DEF Meta, Status, IsPending
  <2>3. UNCHANGED <<chain, keyring, notices>>
    BY <1>5 DEF OnPublishTransaction
  <2>4. \/ calls' = calls \ {c} /\ UNCHANGED <<txs, running, knownNoPending>>
        \/ /\ m # None
           /\ \E s \in AddOrUpdateTx(txs, chain, c.id, sent) :
                UpdatePendingTransactions(s, calls \ {c}, running)
        \/ /\ m # None
           /\ SaveTx(c.id, failed, calls \ {c})
           /\ UNCHANGED <<running, knownNoPending>>
    BY <1>5 DEF OnPublishTransaction, PublishFailed
  <2> HIDE DEF m, sent, failed
  <2>5. CASE calls' = calls \ {c} /\ UNCHANGED <<txs, running, knownNoPending>>
    BY <2>3, <2>5, NothingMorePending
  <2>6. CASE /\ m # None
             /\ \E s \in AddOrUpdateTx(txs, chain, c.id, sent) :
                  UpdatePendingTransactions(s, calls \ {c}, running)
    BY <1>0, <2>1, <2>2, <2>3, <2>6, AddOrUpdateType, UpdateWatched
  <2>7. CASE /\ m # None
             /\ SaveTx(c.id, failed, calls \ {c})
             /\ UNCHANGED <<running, knownNoPending>>
    BY <2>1, <2>2, <2>3, <2>7, SaveWatched
  <2> QED
    BY <2>4, <2>5, <2>6, <2>7
<1>6. ASSUME NEW c \in CallsOf("receipt"), OnGetTxReceipt(c)
      PROVE  Watched'
  <2> DEFINE m == Tx(c.id)
             sure == [m EXCEPT !.status = "Confirmed"]
  <2>1. c.id \in TxIds /\ m # None
    BY <1>6, CallKinds DEF TypeOK, CallsOf, ReceiptCalls, OnGetTxReceipt
  <2>2. sure \in Meta /\ ~IsPending(sure)
    <3>1. m \in Meta \cup {None}
      BY <2>1, TxType
    <3> QED
      BY <2>1, <3>1 DEF Meta, Status, IsPending
  <2>3. /\ UNCHANGED <<chain, keyring, running, knownNoPending, notices>>
        /\ \/ SaveTx(c.id, sure, calls \ {c})
           \/ ShouldTxDropped(c.id, m, calls \ {c})
    BY <1>6 DEF OnGetTxReceipt
  <2> HIDE DEF m, sure
  <2>4. CASE SaveTx(c.id, sure, calls \ {c})
    BY <2>1, <2>2, <2>3, <2>4, SaveWatched
  <2>5. CASE ShouldTxDropped(c.id, m, calls \ {c})
    <3>1. txs' = txs \/ txs' = DeleteTx(txs, chain, c.id)
      BY <2>5 DEF ShouldTxDropped
    <3>2. \A j \in TxIds :
            txs'[chain][j] = txs[chain][j] \/ ~IsPending(txs'[chain][j])
      BY <1>0, <2>1, <3>1, PutRows DEF DeleteTx, IsPending
    <3>3. \A d \in calls' : d \in calls \/ d.type \notin RequestsOfUser
      BY <2>5 DEF ShouldTxDropped, RequestsOfUser
    <3> QED
      BY <2>3, <3>2, <3>3, NothingMorePending
  <2> QED
    BY <2>3, <2>4, <2>5
<1>7. CASE \/ \E c \in CallsOf("receipt") : OnNoTxReceipt(c)
           \/ \E c \in CallsOf("count") : OnGetNetworkNonce(c)
           \/ GetBlockNumber
           \/ OnNoNewBlock
  <2>1. /\ UNCHANGED <<chain, keyring, txs, running, knownNoPending, notices>>
        /\ calls' \subseteq calls
    BY <1>7 DEF OnNoTxReceipt, OnGetNetworkNonce, GetBlockNumber, OnNoNewBlock
  <2> QED
    BY <2>1, NothingMorePending
<1>8. CASE OnNewBlock
  BY <1>0, <1>8, UpdateWatched DEF OnNewBlock
<1>9. CASE OnKeyringNotice
  <2>1. ShouldRun(knownNoPending, running) \in BOOLEAN
    BY <1>0, ShouldRunType
  <2>2. CASE \E run \in BOOLEAN : UpdatePendingTransactions(txs, calls, run)
    BY <1>0, <1>9, <2>2, UpdateWatched DEF OnKeyringNotice
  <2>3. CASE /\ running' = ShouldRun(knownNoPending, running)
             /\ UNCHANGED <<txs, calls, knownNoPending>>
    <3>1. UNCHANGED <<chain, keyring>>
      BY <1>9 DEF OnKeyringNotice
    <3>2. AskedIsUnapproved' /\ IdleWithoutWallet' /\ KnownIsRight'
      BY <2>3, <3>1 DEF Watched, AskedIsUnapproved, IdleWithoutWallet,
                        KnownIsRight
    <3>3. Pending(txs, chain)' = {j \in TxIds : IsPending(txs'[chain][j])}
      BY <3>1, PendingRows DEF TypeOK
    <3>4. knownNoPending => Pending(txs, chain)' = {}
      BY <2>3, <3>1, <3>3 DEF Watched, KnownIsRight
    <3>5. keyring = "unlocked" /\ ~knownNoPending => running'
      BY <2>3 DEF ShouldRun
    <3>6. PendingIsPolled'
      BY <3>1, <3>4, <3>5 DEF PendingIsPolled
    <3> QED
      BY <3>2, <3>6 DEF Watched
  <2> QED
    BY <1>0, <1>9, <2>1, <2>2, <2>3 DEF OnKeyringNotice
<1> QED
  BY <1>1, <1>3, <1>4, <1>5, <1>6, <1>7, <1>8, <1>9 DEF WalletStep

\* The nodes change nothing of it.
LEMMA NetworkStepWatched ==
  ASSUME TypeOK, TypeOK', Watched, NetworkStep
  PROVE  Watched'
<1>1. CASE \E c \in CallsOf("publish") : NodeAccepts(c)
  <2>1. PICK c \in CallsOf("publish") : NodeAccepts(c)
    BY <1>1
  <2>2. c \in calls /\ c \in PublishCalls /\ c.type = "publish"
    BY CallKinds DEF TypeOK, CallsOf
  <2>3. [c EXCEPT !.accepted = TRUE].type = "publish" /\ keyring # "none"
    BY <2>2 DEF PublishCalls, Watched, IdleWithoutWallet, RequestsOfUser
  <2>4. /\ UNCHANGED <<chain, keyring, running, knownNoPending, notices, txs>>
        /\ calls' = (calls \ {c}) \cup {[c EXCEPT !.accepted = TRUE]}
    BY <2>1 DEF NodeAccepts, managerVars
  <2> QED
    BY <2>3, <2>4, NothingMorePending
<1>2. CASE UNCHANGED <<chain, keyring, managerVars, notices, txs, calls>>
  BY <1>2, NothingMorePending DEF managerVars
<1> QED
  BY <1>1, <1>2 DEF NetworkStep, PageBroadcasts, Mine, OutsideTx

\* While the wallet stays on its network, a transaction that is pending on it
\* is polled for whenever the wallet is unlocked, or the message that will
\* start the tracker is on its way: however locking, unlocking, dropped
\* blocks, published and lost transactions, resets and restarts interleave.
THEOREM PendingAlwaysPolled ==
  ASSUME StaysOnNetwork
  PROVE  Spec => []PendingIsPolled
<1>1. Init => Watched
  BY ManagerAssumption DEF Init, EmptyStore, Watched, AskedIsUnapproved,
     IdleWithoutWallet, KnownIsRight, PendingIsPolled, IsPending
<1>2. TypeOK /\ TypeOK' /\ Watched /\ [Next]_vars => Watched'
  <2>1. ASSUME TypeOK, TypeOK', Watched, UNCHANGED vars
        PROVE  Watched'
    BY <2>1, NothingMorePending DEF vars, managerVars
  <2> QED
    BY <2>1, UserStepWatched, WalletStepWatched, NetworkStepWatched DEF Next
<1>3. Watched => PendingIsPolled
  BY DEF Watched
<1> QED
  BY <1>1, <1>2, <1>3, TypeCorrect, PTL DEF Spec
=============================================================================
