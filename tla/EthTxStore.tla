----------------------------- MODULE EthTxStore -----------------------------
(***************************************************************************)
(* The preference dictionary that holds the Ethereum transactions of the   *)
(* wallet, as tx_state_manager.cc reads and writes it: one dictionary per  *)
(* network, keyed by transaction id.  Every operation of the manager works *)
(* on the dictionary of ONE network, the one selected at that moment.      *)
(*                                                                         *)
(* Ids are random UUIDs and the dictionary iterates in the order of its    *)
(* keys, so an id is modelled by its rank in that order: which number a    *)
(* new transaction gets says nothing of when it was created.               *)
(***************************************************************************)
EXTENDS Naturals, FiniteSets

CONSTANTS
  NumTxs,     \* bound: how many transactions are ever created
  Chains,     \* the networks the user can select
  Accounts,   \* the addresses transactions are sent from
  MaxNonce,   \* bound: the highest nonce of the model
  MaxKept,    \* kMaxConfirmedTxNum and kMaxRejectedTxNum
  None,       \* the absent value: no meta, no nonce, no hash, no signature
  Stale       \* a signature left on a transaction whose payload was edited

ASSUME StoreAssumption ==
  /\ NumTxs \in Nat \ {0}
  /\ MaxNonce \in Nat
  /\ MaxKept \in Nat
  /\ Chains # {} /\ Accounts # {}
  /\ None \notin Nat

TxIds  == 1 .. NumTxs
Nonces == 0 .. MaxNonce

\* mojom::TransactionStatus, without Dropped, which no code of the browser
\* ever assigns: a dropped transaction is deleted.
Status == {"Unapproved", "Approved", "Rejected", "Submitted", "Confirmed",
           "Error", "Signed"}

\* A signed transaction.  It stands for its own hash.  "id" names the payload
\* (recipient, value, data, gas) that was signed.
SignedTx == [id: TxIds, from: Accounts, nonce: Nonces, chain: Chains]

ASSUME SignatureAssumption ==
  None \notin SignedTx /\ Stale \notin SignedTx /\ None # Stale

Signatures == SignedTx \cup {None, Stale}

\* EthTxMeta: what the properties tell apart.  "sig" is what the signature in
\* tx() covers, "hash" is tx_hash(), "chain" is chain_id().
Meta == [status: Status, from: Accounts, nonce: Nonces \cup {None},
         sig: Signatures, hash: Signatures, signOnly: BOOLEAN, chain: Chains]

ASSUME NoMetaAssumption == None \notin Meta

Stores == [Chains -> [TxIds -> Meta \cup {None}]]

EmptyStore == [c \in Chains |-> [i \in TxIds |-> None]]

-----------------------------------------------------------------------------
(* Reading *)

GetTx(s, c, i) == s[c][i]

\* GetTransactionsByStatus(status, nullopt)
ByStatus(s, c, st) == {i \in TxIds : s[c][i] # None /\ s[c][i].status = st}

\* GetTransactionsByStatus(status, from)
ByStatusFrom(s, c, st, a) == {i \in ByStatus(s, c, st) : s[c][i].from = a}

-----------------------------------------------------------------------------
(* Writing *)

\* FAULT: the nonce is not written to the dictionary.
PutWithoutNonce(s, c, i, m) ==
  [s EXCEPT ![c][i] = IF m = None THEN None ELSE [m EXCEPT !.nonce = None]]

Put(s, c, i, m) == [s EXCEPT ![c][i] = m]

DeleteTx(s, c, i) == Put(s, c, i, None)

DeleteAll(s, c, ids) ==
  [s EXCEPT ![c] = [i \in TxIds |-> IF i \in ids THEN None ELSE @[i]]]

\* The dictionaries RetireTxByStatus may leave: at most one transaction goes,
\* and only above the limit.  Times are not part of the model, so which of
\* the surplus transactions is the oldest is left open.
RetireTxByStatus(s, c, st) ==
  IF Cardinality(ByStatus(s, c, st)) <= MaxKept
    THEN {s}
    ELSE {DeleteTx(s, c, i) : i \in ByStatus(s, c, st)}

\* The dictionaries AddOrUpdateTx may leave.  Only a write under a new key
\* retires old transactions.
AddOrUpdateTx(s, c, i, m) ==
  IF GetTx(s, c, i) # None
    THEN {Put(s, c, i, m)}
    ELSE UNION {RetireTxByStatus(t, c, "Rejected") :
                  t \in RetireTxByStatus(Put(s, c, i, m), c, "Confirmed")}
=============================================================================
