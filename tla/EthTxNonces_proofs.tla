------------------------ MODULE EthTxNonces_proofs -------------------------
(***************************************************************************)
(* The nonces of the wallet, for clients that wait: what the user asks for *)
(* once happens at most once, the nonces the wallet picks leave no gap,    *)
(* and what is dropped from the list is dead.  For every number of         *)
(* transactions, networks and nonces, and whatever is sped up, cancelled,  *)
(* retried, lost, restarted, reset or sent from another wallet.            *)
(***************************************************************************)
EXTENDS EthTxClients_proofs, WellFoundedInduction

-----------------------------------------------------------------------------
(* The chain.  This is about the nodes alone and holds for every client.   *)

\* Nonces are used in order and once: what the nodes hold has its nonce to
\* come, what they have mined has it behind, and no two of these share one.
ChainInOrder ==
  \A k \in Chains :
    /\ \A r \in pool[k] : r.chain = k /\ r.nonce >= netNonce[k][r.from]
    /\ \A r \in mined[k] \cup reverted[k] :
         r.chain = k /\ r.nonce < netNonce[k][r.from]
    /\ \A r, q \in mined[k] \cup reverted[k] :
         r.from = q.from /\ r.nonce = q.nonce => r = q
    /\ mined[k] \cap reverted[k] = {}

\* What using the next nonce of an account leaves.
LEMMA UseNonceEffect ==
  ASSUME TypeOK, NEW c \in Chains, NEW a \in Accounts, UseNonce(c, a)
  PROVE  /\ \A k \in Chains, b \in Accounts :
              /\ netNonce[k][b] \in Nat
              /\ netNonce'[k][b] = IF k = c /\ b = a THEN netNonce[k][b] + 1
                                                     ELSE netNonce[k][b]
         /\ \A k \in Chains : \A r :
              r \in pool'[k] <=>
                /\ r \in pool[k]
                /\ ~(k = c /\ r.from = a /\ r.nonce = netNonce[c][a])
<1>1. /\ netNonce \in [Chains -> [Accounts -> Nonces]]
      /\ pool \in [Chains -> SUBSET SignedTx]
  BY DEF TypeOK
<1>2. /\ netNonce' = [netNonce EXCEPT ![c][a] = @ + 1]
      /\ pool' = [pool EXCEPT ![c] =
                    {r \in @ : r.from # a \/ r.nonce # netNonce[c][a]}]
  BY DEF UseNonce
<1>3. \A k \in Chains, b \in Accounts :
        /\ netNonce[k][b] \in Nat
        /\ netNonce'[k][b] = IF k = c /\ b = a THEN netNonce[k][b] + 1
                                               ELSE netNonce[k][b]
  BY <1>1, <1>2 DEF Nonces
<1>4. \A k \in Chains : \A r :
        r \in pool'[k] <=>
          /\ r \in pool[k]
          /\ ~(k = c /\ r.from = a /\ r.nonce = netNonce[c][a])
  BY <1>1, <1>2
<1> QED
  BY <1>3, <1>4

\* A nonce that passes leaves the pool in order.
LEMMA PoolStaysInOrder ==
  ASSUME TypeOK, ChainInOrder, NEW c \in Chains, NEW a \in Accounts,
         UseNonce(c, a), NEW k \in Chains
  PROVE  /\ \A r \in pool'[k] : r.chain = k /\ r.nonce >= netNonce'[k][r.from]
         /\ \A r \in mined[k] \cup reverted[k] : r.nonce < netNonce'[k][r.from]
<1>1. /\ \A r \in pool[k] : r \in SignedTx
      /\ \A r \in mined[k] \cup reverted[k] : r \in SignedTx
  BY DEF TypeOK
<1>2. \A r \in SignedTx : r.from \in Accounts /\ r.nonce \in Nat
  BY DEF SignedTx, Nonces
<1>3. \A r \in pool'[k] : r.chain = k /\ r.nonce >= netNonce'[k][r.from]
  <2> SUFFICES ASSUME NEW r \in pool'[k]
               PROVE  r.chain = k /\ r.nonce >= netNonce'[k][r.from]
    OBVIOUS
  <2>1. /\ r \in pool[k] /\ r.from \in Accounts /\ r.nonce \in Nat
        /\ ~(k = c /\ r.from = a /\ r.nonce = netNonce[c][a])
    BY <1>1, <1>2, UseNonceEffect
  <2>2. r.chain = k /\ r.nonce >= netNonce[k][r.from]
    BY <2>1 DEF ChainInOrder
  <2> QED
    BY <2>1, <2>2, UseNonceEffect
<1>4. \A r \in mined[k] \cup reverted[k] : r.nonce < netNonce'[k][r.from]
  <2> SUFFICES ASSUME NEW r \in mined[k] \cup reverted[k]
               PROVE  r.nonce < netNonce'[k][r.from]
    OBVIOUS
  <2>1. /\ r.from \in Accounts /\ r.nonce \in Nat
        /\ r.nonce < netNonce[k][r.from]
    BY <1>1, <1>2 DEF ChainInOrder
  <2> QED
    BY <2>1, UseNonceEffect
<1> QED
  BY <1>3, <1>4

\* Every step of anyone leaves the chain in order.
LEMMA ChainStep == TypeOK /\ ChainInOrder /\ [Next]_vars => ChainInOrder'
<1> SUFFICES ASSUME TypeOK, ChainInOrder, [Next]_vars
             PROVE  ChainInOrder'
  OBVIOUS
<1>0. /\ pool \in [Chains -> SUBSET SignedTx]
      /\ mined \in [Chains -> SUBSET SignedTx]
      /\ reverted \in [Chains -> SUBSET SignedTx]
  BY DEF TypeOK
<1>1. CASE UNCHANGED networkVars
  BY <1>1 DEF networkVars, ChainInOrder
<1>2. ASSUME NEW c \in Chains, NEW h \in SignedTx, ValidAt(h, c),
             pool' = [pool EXCEPT ![c] = @ \cup {h}],
             UNCHANGED <<netNonce, mined, reverted>>
      PROVE  ChainInOrder'
  <2>1. \A k \in Chains : \A r \in pool'[k] : r \in pool[k] \/ (k = c /\ r = h)
    BY <1>0, <1>2
  <2> QED
    BY <1>2, <2>1 DEF ChainInOrder, ValidAt
<1>3. ASSUME NEW c \in CallsOf("publish"), NodeAccepts(c)
      PROVE  ChainInOrder'
  <2>1. c.chain \in Chains
    BY CallKinds DEF TypeOK, CallsOf, PublishCalls
  <2> QED
    BY <1>2, <1>3, <2>1 DEF NodeAccepts, ValidAt
<1>4. ASSUME NEW c \in Chains, NEW i \in TxIds, PageBroadcasts(c, i)
      PROVE  ChainInOrder'
  BY <1>2, <1>4 DEF PageBroadcasts, ValidAt
<1>5. ASSUME NEW c \in Chains, NEW a \in Accounts, OutsideTx(c, a)
      PROVE  ChainInOrder'
  <2>1. UseNonce(c, a) /\ UNCHANGED <<mined, reverted>>
    BY <1>5 DEF OutsideTx
  <2>2. \A k \in Chains :
          /\ \A r \in pool'[k] : r.chain = k /\ r.nonce >= netNonce'[k][r.from]
          /\ \A r \in mined[k] \cup reverted[k] : r.nonce < netNonce'[k][r.from]
    BY <2>1, PoolStaysInOrder
  <2> QED
    BY <2>1, <2>2 DEF ChainInOrder
<1>6. ASSUME NEW c \in Chains, NEW raw \in pool[c], Mine(c, raw)
      PROVE  ChainInOrder'
  <2>1. /\ raw \in SignedTx /\ raw.from \in Accounts /\ raw.nonce \in Nat
        /\ raw.chain = c
    BY <1>0 DEF SignedTx, Nonces, ChainInOrder
  <2>2. UseNonce(c, raw.from) /\ raw.nonce = netNonce[c][raw.from]
    BY <1>6 DEF Mine
  <2>3. \A k \in Chains :
          /\ \A r \in pool'[k] : r.chain = k /\ r.nonce >= netNonce'[k][r.from]
          /\ \A r \in mined[k] \cup reverted[k] : r.nonce < netNonce'[k][r.from]
    BY <2>1, <2>2, PoolStaysInOrder
  <2>4. raw.nonce < netNonce'[c][raw.from]
    BY <2>1, <2>2, UseNonceEffect
  <2>5. \/ mined' = [mined EXCEPT ![c] = @ \cup {raw}] /\ reverted' = reverted
        \/ reverted' = [reverted EXCEPT ![c] = @ \cup {raw}] /\ mined' = mined
    BY <1>6 DEF Mine
  <2>6. \A r \in mined[c] \cup reverted[c] :
          ~(r.from = raw.from /\ r.nonce = raw.nonce)
    <3> SUFFICES ASSUME NEW r \in mined[c] \cup reverted[c],
                        r.from = raw.from, r.nonce = raw.nonce
                 PROVE  FALSE
      OBVIOUS
    <3>1. r.nonce < netNonce[c][r.from]
      BY DEF ChainInOrder
    <3> QED
      BY <2>1, <2>2, <3>1
  <2>7. \A k \in Chains :
          \A r \in mined'[k] \cup reverted'[k] :
            r \in mined[k] \cup reverted[k] \/ (k = c /\ r = raw)
    BY <1>0, <2>5
  <2>8. \A k \in Chains : mined'[k] \cap reverted'[k] = {}
    <3>1. raw \notin mined[c] \cup reverted[c]
      BY <2>6
    <3> QED
      BY <1>0, <2>5, <3>1 DEF ChainInOrder
  <2>9. \A k \in Chains : \A r, q \in mined'[k] \cup reverted'[k] :
          r.from = q.from /\ r.nonce = q.nonce => r = q
    BY <2>6, <2>7 DEF ChainInOrder
  <2>10. \A k \in Chains : \A r \in mined'[k] \cup reverted'[k] :
           r.chain = k /\ r.nonce < netNonce'[k][r.from]
    BY <2>1, <2>3, <2>4, <2>7 DEF ChainInOrder
  <2> QED
    BY <2>3, <2>8, <2>9, <2>10 DEF ChainInOrder
<1>7. UserStep => UNCHANGED networkVars
  BY DEF UserStep, AddUnapprovedTransaction, SpeedupOrCancelTransaction,
         RetryTransaction, SetGasOrDataForUnapprovedTransaction,
         SetNonceForUnapprovedTransaction, RejectTransaction,
         ApproveTransaction, GetNonceForHardwareTransaction,
         ProcessHardwareSignature, RejectAllTransactions, CreateWallet, Lock,
         Unlock, SetNetwork, Reset, Restart
<1>8. WalletStep => UNCHANGED networkVars
  BY DEF WalletStep, OnGetGas, OnGetNextNonce, OnGetNextNonceForHardware,
         OnGetNextNonceFailed, OnPublishTransaction, OnGetTxReceipt,
         OnNoTxReceipt, OnGetNetworkNonce, GetBlockNumber, OnNewBlock,
         OnNoNewBlock, OnKeyringNotice
<1> QED
  BY <1>1, <1>3, <1>4, <1>5, <1>6, <1>7, <1>8 DEF Next, NetworkStep, vars

\* The chain is in order in every reachable state.
LEMMA ChainAlwaysInOrder == Spec => []ChainInOrder
<1>1. Init => ChainInOrder
  BY DEF Init, ChainInOrder
<1> QED
  BY <1>1, ChainStep, TypeCorrect, PTL DEF Spec

-----------------------------------------------------------------------------
(* Intents.  What the user asked for once is an intent; its transaction and  *)
(* the copies that speed it up, cancel it or repeat it share it.  The nonces *)
(* are the wallet's own here: a user who sets one by hand chooses to repeat  *)
(* an intent.                                                                *)

OwnNonces == PatientClients /\ "setnonce" \notin Ops

\* Intent w is tied to nonce n of account a on network k: by a transaction
\* listed there, by a copy that waits for its gas price, or by what the nodes
\* have taken.
Uses(w, a, n, k) ==
  \/ \E i \in TxIds : /\ Listed(k, i) /\ intent[i] = w
                      /\ txs[k][i].from = a /\ txs[k][i].nonce = n
  \/ k = chain /\ \E c \in CallsOf("gas") : /\ c.intent = w
                                            /\ c.meta.from = a
                                            /\ c.meta.nonce = n
  \/ \E r \in Sent(k) : intent[r.id] = w /\ r.from = a /\ r.nonce = n

\* Transaction i is an intent of its own, not tied to a nonce yet.
Undecided(i) ==
  /\ intent[i] = i
  /\ \A a \in Accounts, n \in Nonces, k \in Chains : ~Uses(i, a, n, k)

\* An intent is tied to one nonce.
OneNonce ==
  \A w \in TxIds, a, b \in Accounts, m, n \in Nonces, k, l \in Chains :
    Uses(w, a, m, k) /\ Uses(w, b, n, l) => a = b /\ m = n /\ k = l

\* It is named after its first transaction.
NamedAfterFirst ==
  \A w \in TxIds, a \in Accounts, n \in Nonces, k \in Chains :
    Uses(w, a, n, k) => intent[w] = w

\* A copy that waits for its gas price has a nonce, anything else that does
\* has none.
GasCallsFit ==
  \A c \in CallsOf("gas") : c.intent = 0 <=> c.meta.nonce = None

\* Without a nonce a transaction is undecided.
NoneIsUndecided ==
  /\ \A k \in Chains, i \in TxIds :
       Listed(k, i) /\ txs[k][i].nonce = None => Undecided(i)
  /\ \A c \in CallsOf("nonce") : Undecided(c.id)

Decided ==
  OneNonce /\ NamedAfterFirst /\ GasCallsFit /\ NoneIsUndecided

\* A step that ties no intent to a nonce it was not tied to.
LEMMA NoNewUse ==
  ASSUME TypeOK, TypeOK', Decided,
         \A w \in TxIds : intent[w] # 0 => intent'[w] = intent[w],
         \A k \in Chains, j \in TxIds : Listed(k, j)' =>
           \/ /\ txs'[k][j].nonce # None
              /\ Uses(intent'[j], txs'[k][j].from, txs'[k][j].nonce, k)
           \/ /\ txs'[k][j].nonce = None
              /\ Undecided(j) \/ (intent[j] = 0 /\ intent'[j] = j),
         \A c \in CallsOf("gas")' :
           \/ c.intent = 0 /\ c.meta.nonce = None
           \/ /\ c.intent # 0 /\ c.meta.nonce # None
              /\ Uses(c.intent, c.meta.from, c.meta.nonce, chain'),
         \A c \in CallsOf("nonce")' : Undecided(c.id) /\ c.id \in TxIds,
         \A k \in Chains : \A r \in Sent(k)' :
           Uses(intent'[r.id], r.from, r.nonce, k)
  PROVE  Decided'
<1>1. ASSUME NEW w \in TxIds, NEW a \in Accounts, NEW n \in Nonces,
             NEW k \in Chains, Uses(w, a, n, k)'
      PROVE  Uses(w, a, n, k)
  <2>1. n # None /\ w # 0
    BY StoreAssumption DEF Nonces, TxIds
  <2>2. CASE \E i \in TxIds : /\ Listed(k, i)' /\ intent'[i] = w
                              /\ txs'[k][i].from = a /\ txs'[k][i].nonce = n
    BY <2>1, <2>2
  <2>3. CASE k = chain' /\ \E c \in CallsOf("gas")' : /\ c.intent = w
                                                      /\ c.meta.from = a
                                                      /\ c.meta.nonce = n
    BY <2>1, <2>3
  <2>4. CASE \E r \in Sent(k)' :
               intent'[r.id] = w /\ r.from = a /\ r.nonce = n
    BY <2>4
  <2> QED
    BY <1>1, <2>2, <2>3, <2>4 DEF Uses
<1>2. OneNonce'
  BY <1>1 DEF OneNonce, Decided
<1>3. NamedAfterFirst'
  BY <1>1, StoreAssumption DEF NamedAfterFirst, Decided, TxIds
<1>4. GasCallsFit'
  BY DEF GasCallsFit
<1>5. ASSUME NEW i \in TxIds, Undecided(i)
      PROVE  Undecided(i)'
  BY <1>1, <1>5, StoreAssumption DEF Undecided, TxIds
<1>6. ASSUME NEW i \in TxIds, intent[i] = 0, intent'[i] = i
      PROVE  Undecided(i)'
  <2>1. \A a \in Accounts, n \in Nonces, k \in Chains : ~Uses(i, a, n, k)
    BY <1>6, StoreAssumption DEF Decided, NamedAfterFirst, TxIds
  <2> QED
    BY <1>1, <1>6, <2>1 DEF Undecided
<1>7. NoneIsUndecided'
  BY <1>5, <1>6 DEF NoneIsUndecided
<1> QED
  BY <1>2, <1>3, <1>4, <1>7 DEF Decided

\* A step that ties one undecided intent to a nonce, under the selected
\* network.
LEMMA OneNewUse ==
  ASSUME TypeOK, TypeOK', Decided, UNCHANGED <<chain, intent>>,
         NEW i \in TxIds, Undecided(i),
         NEW b \in Accounts, NEW m \in Nonces,
         \A k \in Chains, j \in TxIds : Listed(k, j)' =>
           \/ /\ k = chain /\ j = i
              /\ txs'[k][j].from = b /\ txs'[k][j].nonce = m
           \/ /\ Listed(k, j) /\ j # i
              /\ txs'[k][j].from = txs[k][j].from
              /\ txs'[k][j].nonce = txs[k][j].nonce,
         \A c \in CallsOf("gas")' : c \in calls,
         \A c \in CallsOf("nonce")' : c \in calls /\ c.id # i,
         \A k \in Chains : Sent(k)' = Sent(k)
  PROVE  Decided'
<1>1. ASSUME NEW w \in TxIds, NEW a \in Accounts, NEW n \in Nonces,
             NEW k \in Chains, Uses(w, a, n, k)'
      PROVE  Uses(w, a, n, k) \/ (w = i /\ a = b /\ n = m /\ k = chain)
  <2>1. CASE \E j \in TxIds : /\ Listed(k, j)' /\ intent'[j] = w
                              /\ txs'[k][j].from = a /\ txs'[k][j].nonce = n
    BY <2>1 DEF Uses, Undecided
  <2>2. CASE k = chain' /\ \E c \in CallsOf("gas")' : /\ c.intent = w
                                                      /\ c.meta.from = a
                                                      /\ c.meta.nonce = n
    BY <2>2 DEF Uses, CallsOf
  <2>3. CASE \E r \in Sent(k)' :
               intent'[r.id] = w /\ r.from = a /\ r.nonce = n
    BY <2>3 DEF Uses
  <2> QED
    BY <1>1, <2>1, <2>2, <2>3 DEF Uses
<1>2. OneNonce'
  BY <1>1 DEF OneNonce, Decided, Undecided
<1>3. NamedAfterFirst'
  BY <1>1 DEF NamedAfterFirst, Decided, Undecided
<1>4. GasCallsFit'
  BY DEF GasCallsFit, Decided, CallsOf
<1>5. ASSUME NEW j \in TxIds, Undecided(j), j # i
      PROVE  Undecided(j)'
  BY <1>1, <1>5 DEF Undecided
<1>6. NoneIsUndecided'
  <2>1. ASSUME NEW k \in Chains, NEW j \in TxIds, Listed(k, j)',
               txs'[k][j].nonce = None
        PROVE  Undecided(j)'
    BY <1>5, <2>1, StoreAssumption DEF Decided, NoneIsUndecided, Nonces
  <2>2. ASSUME NEW c \in CallsOf("nonce")'
        PROVE  Undecided(c.id)'
    <3>1. c \in CallsOf("nonce") /\ c.id # i
      BY DEF CallsOf
    <3>2. c.id \in TxIds
      BY <3>1, CallKinds DEF TypeOK, CallsOf, NonceCalls
    <3> QED
      BY <1>5, <3>1, <3>2 DEF Decided, NoneIsUndecided
  <2> QED
    BY <2>1, <2>2 DEF NoneIsUndecided
<1> QED
  BY <1>2, <1>3, <1>4, <1>6 DEF Decided

\* What a listed transaction says of its intent.
LEMMA RowUse ==
  ASSUME Decided, NEW k \in Chains, NEW j \in TxIds, Listed(k, j)
  PROVE  \/ /\ txs[k][j].nonce # None
            /\ Uses(intent[j], txs[k][j].from, txs[k][j].nonce, k)
         \/ txs[k][j].nonce = None /\ Undecided(j)
BY DEF Decided, NoneIsUndecided, Uses

\* What a copy that waits for its gas price does.
LEMMA GasUse ==
  ASSUME Decided, NEW c \in CallsOf("gas")
  PROVE  \/ c.intent = 0 /\ c.meta.nonce = None
         \/ /\ c.intent # 0 /\ c.meta.nonce # None
            /\ Uses(c.intent, c.meta.from, c.meta.nonce, chain)
BY DEF Decided, GasCallsFit, Uses

\* A request for a nonce is about a transaction.
LEMMA NonceUse ==
  ASSUME TypeOK, Decided, NEW c \in CallsOf("nonce")
  PROVE  Undecided(c.id) /\ c.id \in TxIds
BY CallKinds DEF TypeOK, CallsOf, NonceCalls, Decided, NoneIsUndecided

\* A step that leaves the intents alone.
LEMMA SameUses ==
  ASSUME TypeOK, TypeOK', Decided, UNCHANGED intent,
         \A k \in Chains, j \in TxIds : Listed(k, j)' =>
           \/ /\ Listed(k, j)
              /\ txs'[k][j].from = txs[k][j].from
              /\ txs'[k][j].nonce = txs[k][j].nonce
           \/ txs'[k][j].nonce = None /\ Undecided(j),
         \A c \in CallsOf("gas")' :
           \/ c \in calls /\ chain' = chain
           \/ c.intent = 0 /\ c.meta.nonce = None
           \/ /\ c.intent # 0 /\ c.meta.nonce # None
              /\ Uses(c.intent, c.meta.from, c.meta.nonce, chain'),
         \A c \in CallsOf("nonce")' :
           c \in calls \/ (Undecided(c.id) /\ c.id \in TxIds),
         \A k \in Chains : \A r \in Sent(k)' :
           r \in Sent(k) \/ Uses(intent[r.id], r.from, r.nonce, k)
  PROVE  Decided'
<1>1. ASSUME NEW k \in Chains, NEW j \in TxIds, Listed(k, j)'
      PROVE  \/ /\ txs'[k][j].nonce # None
                /\ Uses(intent'[j], txs'[k][j].from, txs'[k][j].nonce, k)
             \/ /\ txs'[k][j].nonce = None
                /\ Undecided(j) \/ (intent[j] = 0 /\ intent'[j] = j)
  BY <1>1, RowUse
<1>2. ASSUME NEW c \in CallsOf("gas")'
      PROVE  \/ c.intent = 0 /\ c.meta.nonce = None
             \/ /\ c.intent # 0 /\ c.meta.nonce # None
                /\ Uses(c.intent, c.meta.from, c.meta.nonce, chain')
  <2>1. CASE c \in calls /\ chain' = chain
    <3>1. c \in CallsOf("gas")
      BY <2>1 DEF CallsOf
    <3> QED
      BY <2>1, <3>1, GasUse
  <2> QED
    BY <2>1
<1>3. ASSUME NEW c \in CallsOf("nonce")'
      PROVE  Undecided(c.id) /\ c.id \in TxIds
  <2>1. CASE c \in calls
    <3>1. c \in CallsOf("nonce")
      BY <2>1 DEF CallsOf
    <3> QED
      BY <3>1, NonceUse
  <2> QED
    BY <2>1
<1>4. \A k \in Chains : \A r \in Sent(k)' :
        Uses(intent'[r.id], r.from, r.nonce, k)
  BY DEF Uses
<1> QED
  BY <1>1, <1>2, <1>3, <1>4, NoNewUse

\* Writing a listed transaction anew with the nonce it had.
LEMMA SameNonceDecided ==
  ASSUME TypeOK, TypeOK', Decided, NEW i \in TxIds, NEW m, Rewrites(i, m),
         Listed(chain, i),
         m.from = txs[chain][i].from, m.nonce = txs[chain][i].nonce,
         \A c \in calls' : c.type \in {"gas", "nonce"} => c \in calls,
         UNCHANGED <<chain, networkVars, intent>>
  PROVE  Decided'
<1>1. ASSUME NEW k \in Chains, NEW j \in TxIds, Listed(k, j)'
      PROVE  /\ Listed(k, j)
             /\ txs'[k][j].from = txs[k][j].from
             /\ txs'[k][j].nonce = txs[k][j].nonce
  BY <1>1 DEF Rewrites, IsRewritten, Listed
<1>2. \A k \in Chains : Sent(k)' = Sent(k)
  BY DEF networkVars, Sent
<1> QED
  BY <1>1, <1>2, SameUses DEF CallsOf

\* Writing an undecided transaction, still without a nonce.
LEMMA NoNonceDecided ==
  ASSUME TypeOK, TypeOK', Decided, NEW i \in TxIds, NEW m, Rewrites(i, m),
         Undecided(i), m.nonce = None,
         \A c \in calls' : c.type \in {"gas", "nonce"} => c \in calls,
         \A k \in Chains : Listed(k, i) => k = chain,
         UNCHANGED <<chain, networkVars, intent>>
  PROVE  Decided'
<1>1. ASSUME NEW k \in Chains, NEW j \in TxIds, Listed(k, j)'
      PROVE  \/ /\ Listed(k, j)
                /\ txs'[k][j].from = txs[k][j].from
                /\ txs'[k][j].nonce = txs[k][j].nonce
             \/ txs'[k][j].nonce = None /\ Undecided(j)
  BY <1>1 DEF Rewrites, IsRewritten, Listed
<1>2. \A k \in Chains : Sent(k)' = Sent(k)
  BY DEF networkVars, Sent
<1> QED
  BY <1>1, <1>2, SameUses DEF CallsOf

\* Writing an undecided transaction with a nonce, once no other request for
\* one is left.
LEMMA NewNonceDecided ==
  ASSUME TypeOK, TypeOK', Decided, NEW i \in TxIds, NEW m \in Meta,
         Rewrites(i, m), Undecided(i), m.nonce # None,
         \A c \in calls' : c.type \in {"gas", "nonce"} => c \in calls,
         \A c \in calls' : c.type = "nonce" => c.id # i,
         \A k \in Chains : Listed(k, i) => k = chain,
         UNCHANGED <<chain, networkVars, intent>>
  PROVE  Decided'
<1>1. m.from \in Accounts /\ m.nonce \in Nonces
  BY DEF Meta
<1>2. ASSUME NEW k \in Chains, NEW j \in TxIds, Listed(k, j)'
      PROVE  \/ /\ k = chain /\ j = i
                /\ txs'[k][j].from = m.from /\ txs'[k][j].nonce = m.nonce
             \/ /\ Listed(k, j) /\ j # i
                /\ txs'[k][j].from = txs[k][j].from
                /\ txs'[k][j].nonce = txs[k][j].nonce
  BY <1>2 DEF Rewrites, IsRewritten, Listed
<1>3. \A k \in Chains : Sent(k)' = Sent(k)
  BY DEF networkVars, Sent
<1>4. /\ \A c \in CallsOf("gas")' : c \in calls
      /\ \A c \in CallsOf("nonce")' : c \in calls /\ c.id # i
  BY DEF CallsOf
<1> QED
  BY <1>1, <1>2, <1>3, <1>4, OneNewUse

\* A step that writes no transaction and asks for no nonce.
LEMMA QuietDecided ==
  ASSUME TypeOK, TypeOK', Decided, UNCHANGED intent,
         \A k \in Chains, j \in TxIds :
           txs'[k][j] = txs[k][j] \/ txs'[k][j] = None,
         \A c \in calls' : c.type \in {"gas", "nonce"} =>
           c \in calls /\ (c.type = "gas" => chain' = chain),
         \A k \in Chains : \A r \in Sent(k)' :
           r \in Sent(k) \/ Uses(intent[r.id], r.from, r.nonce, k)
  PROVE  Decided'
<1>1. ASSUME NEW k \in Chains, NEW j \in TxIds, Listed(k, j)'
      PROVE  Listed(k, j) /\ txs'[k][j] = txs[k][j]
  BY <1>1 DEF Listed
<1> QED
  BY <1>1, SameUses DEF CallsOf

\* Adding a transaction: an intent of its own without a nonce, or a copy that
\* takes over the intent and its nonce.
LEMMA AddDecided ==
  ASSUME TypeOK, TypeOK', Orderly, Decided, NEW m \in Meta,
         NEW of \in 0 .. NumTxs, NEW cs \in SUBSET calls,
         ContinueAddUnapprovedTransaction(m, of, cs),
         \/ of = 0 /\ m.nonce = None
         \/ of # 0 /\ m.nonce # None /\ Uses(of, m.from, m.nonce, chain),
         UNCHANGED <<chain, networkVars>>
  PROVE  Decided'
<1>1. PICK i \in TxIds :
        /\ intent[i] = 0
        /\ SaveTx(i, [m EXCEPT !.chain = chain], cs)
        /\ intent' = [intent EXCEPT ![i] = IF of = 0 THEN i ELSE of]
  BY DEF ContinueAddUnapprovedTransaction
<1> DEFINE n == [m EXCEPT !.chain = chain]
<1>2. n \in Meta /\ n.from = m.from /\ n.nonce = m.nonce
  BY DEF TypeOK, Meta
<1>3. SaveTx(i, n, cs)
  BY <1>1
<1> HIDE DEF n
<1>4. Rewrites(i, n) /\ calls' = cs
  BY <1>2, <1>3, SaveTxRewrites DEF SaveTx
<1>5. /\ intent'[i] = IF of = 0 THEN i ELSE of
      /\ \A j \in TxIds : j # i => intent'[j] = intent[j]
  BY <1>1 DEF TypeOK
<1>6. \A k \in Chains : ~Listed(k, i) /\ \A r \in Sent(k) : r.id # i
  BY <1>1 DEF Orderly, Proper, UnusedIsUnknown
<1>7. ASSUME NEW k \in Chains, NEW j \in TxIds, Listed(k, j)'
      PROVE  \/ /\ txs'[k][j].nonce # None
                /\ Uses(intent'[j], txs'[k][j].from, txs'[k][j].nonce, k)
             \/ /\ txs'[k][j].nonce = None
                /\ Undecided(j) \/ (intent[j] = 0 /\ intent'[j] = j)
  <2>1. CASE j = i
    <3>1. k = chain /\ txs'[k][j] = n
      BY <1>4, <1>6, <1>7, <2>1 DEF Rewrites, IsRewritten, Listed
    <3> QED
      BY <1>1, <1>2, <1>5, <2>1, <3>1
  <2>2. CASE j # i
    <3>1. Listed(k, j) /\ txs'[k][j] = txs[k][j]
      BY <1>4, <1>7, <2>2 DEF Rewrites, IsRewritten, Listed
    <3> QED
      BY <1>5, <2>2, <3>1, RowUse
  <2> QED
    BY <2>1, <2>2
<1>8. ASSUME NEW c \in CallsOf("gas")'
      PROVE  \/ c.intent = 0 /\ c.meta.nonce = None
             \/ /\ c.intent # 0 /\ c.meta.nonce # None
                /\ Uses(c.intent, c.meta.from, c.meta.nonce, chain')
  <2>1. c \in CallsOf("gas")
    BY <1>4 DEF CallsOf
  <2> QED
    BY <2>1, GasUse
<1>9. ASSUME NEW c \in CallsOf("nonce")'
      PROVE  Undecided(c.id) /\ c.id \in TxIds
  <2>1. c \in CallsOf("nonce")
    BY <1>4 DEF CallsOf
  <2> QED
    BY <2>1, NonceUse
<1>10. ASSUME NEW k \in Chains, NEW r \in Sent(k)'
       PROVE  Uses(intent'[r.id], r.from, r.nonce, k)
  <2>1. r \in Sent(k) /\ r.id # i
    BY <1>6 DEF networkVars, Sent
  <2>2. r.id \in TxIds
    BY <2>1 DEF TypeOK, Sent, SignedTx
  <2> QED
    BY <1>5, <2>1, <2>2 DEF Uses
<1>11. \A w \in TxIds : intent[w] # 0 => intent'[w] = intent[w]
  BY <1>1, <1>5
<1> QED
  BY <1>7, <1>8, <1>9, <1>10, <1>11, NoNewUse

\* The user's commands, one case for each.
LEMMA UserStepDecided ==
  ASSUME TypeOK, TypeOK', Orderly, Decided, OwnNonces, UserStep
  PROVE  Decided'
<1> USE DEF managerVars, trackerVars
<1>0. /\ \A j \in TxIds : Proper(j)
      /\ PatientClients
      /\ chain \in Chains /\ txs \in Stores
  BY DEF Orderly, OwnNonces, TypeOK
<1>1. ASSUME NEW a \in Accounts, NEW signOnly \in BOOLEAN,
             AddUnapprovedTransaction(a, signOnly)
      PROVE  Decided'
  <2> DEFINE m == [status |-> "Unapproved", from |-> a, nonce |-> None,
                   sig |-> None, hash |-> None, signOnly |-> signOnly,
                   chain |-> chain]
             call == [type |-> "gas", meta |-> m, intent |-> 0]
  <2>1. m \in Meta /\ m.nonce = None
    BY <1>0 DEF Meta, Status, Signatures
  <2>2. call.type = "gas" /\ call.meta = m /\ call.intent = 0
    OBVIOUS
  <2>3. \/ ContinueAddUnapprovedTransaction(m, 0, calls)
        \/ calls' = calls \cup {call} /\ UNCHANGED <<txs, intent>>
    BY <1>1 DEF AddUnapprovedTransaction
  <2>4. UNCHANGED <<chain, networkVars>>
    BY <1>1 DEF AddUnapprovedTransaction
  <2>5. 0 \in 0 .. NumTxs
    BY StoreAssumption
  <2> HIDE DEF m, call
  <2>6. CASE ContinueAddUnapprovedTransaction(m, 0, calls)
    BY <2>1, <2>4, <2>5, <2>6, AddDecided
  <2>7. CASE calls' = calls \cup {call} /\ UNCHANGED <<txs, intent>>
    <3>1. \A k \in Chains, j \in TxIds : Listed(k, j)' =>
            /\ Listed(k, j)
            /\ txs'[k][j].from = txs[k][j].from
            /\ txs'[k][j].nonce = txs[k][j].nonce
      BY <2>7 DEF Listed
    <3>2. \A k \in Chains : Sent(k)' = Sent(k)
      BY <2>4 DEF networkVars, Sent
    <3> QED
      BY <2>1, <2>2, <2>4, <2>7, <3>1, <3>2, SameUses DEF CallsOf
  <2> QED
    BY <2>3, <2>6, <2>7
<1>2. ASSUME NEW i \in TxIds, SpeedupOrCancelTransaction(i)
      PROVE  Decided'
  <2> DEFINE m == [Tx(i) EXCEPT !.status = "Unapproved", !.hash = None,
                                !.signOnly = FALSE, !.sig = Stale]
             call == [type |-> "gas", intent |-> IntentOfCopy(i), meta |-> m]
  <2>1. /\ Tx(i) \in Meta /\ Tx(i) = txs[chain][i] /\ Listed(chain, i)
        /\ Tx(i).status = "Submitted"
    BY <1>2, TxType DEF SpeedupOrCancelTransaction, Tx, GetTx, Listed
  <2>2. Tx(i).nonce # None /\ intent[i] # 0
    BY <1>0, <2>1 DEF Proper, OutIsSealed, Out, UnusedIsUnknown
  <2>3. Uses(intent[i], Tx(i).from, Tx(i).nonce, chain)
    BY <1>0, <2>1, <2>2, RowUse
  <2>4. /\ call.type = "gas" /\ call.intent = intent[i]
        /\ call.meta.from = Tx(i).from /\ call.meta.nonce = Tx(i).nonce
    BY <2>1, <2>2 DEF Meta, IntentOfCopy
  <2>5. calls' = calls \cup {call}
    BY <1>2 DEF SpeedupOrCancelTransaction
  <2>6. UNCHANGED <<chain, networkVars, txs, intent>>
    BY <1>2 DEF SpeedupOrCancelTransaction
  <2> HIDE DEF call
  <2>7. \A k \in Chains, j \in TxIds : Listed(k, j)' =>
          /\ Listed(k, j)
          /\ txs'[k][j].from = txs[k][j].from
          /\ txs'[k][j].nonce = txs[k][j].nonce
    BY <2>6 DEF Listed
  <2>8. \A k \in Chains : Sent(k)' = Sent(k)
    BY <2>6 DEF networkVars, Sent
  <2> QED
    BY <2>2, <2>3, <2>4, <2>5, <2>6, <2>7, <2>8, SameUses DEF CallsOf
<1>3. ASSUME NEW i \in TxIds, RetryTransaction(i)
      PROVE  Decided'
  <2> DEFINE m == [Tx(i) EXCEPT !.status = "Unapproved", !.hash = None,
                                !.signOnly = FALSE]
  <2>1. Tx(i) \in Meta /\ Tx(i) = txs[chain][i] /\ Listed(chain, i)
    BY <1>3, TxType DEF RetryTransaction, Tx, GetTx, Listed
  <2>2. m \in Meta /\ m.from = Tx(i).from /\ m.nonce = Tx(i).nonce
    BY <2>1 DEF Meta, Status, Signatures
  <2>3. IntentOfCopy(i) \in 0 .. NumTxs
    BY StoreAssumption DEF IntentOfCopy, TypeOK
  <2>4. /\ ContinueAddUnapprovedTransaction(m, IntentOfCopy(i), calls)
        /\ UNCHANGED <<chain, networkVars>>
    BY <1>3 DEF RetryTransaction
  <2> HIDE DEF m
  <2>5. \/ IntentOfCopy(i) = 0 /\ m.nonce = None
        \/ /\ IntentOfCopy(i) # 0 /\ m.nonce # None
           /\ Uses(IntentOfCopy(i), m.from, m.nonce, chain)
    <3>1. intent[i] # 0
      BY <1>0, <2>1 DEF Proper, UnusedIsUnknown
    <3>2. CASE Tx(i).nonce = None
      BY <2>2, <3>2 DEF IntentOfCopy
    <3>3. CASE Tx(i).nonce # None
      BY <1>0, <2>1, <2>2, <3>1, <3>3, RowUse DEF IntentOfCopy
    <3> QED
      BY <3>2, <3>3
  <2>6. calls \in SUBSET calls
    OBVIOUS
  <2> QED
    BY <2>2, <2>3, <2>4, <2>5, <2>6, AddDecided
<1>4. ASSUME NEW i \in TxIds,
             ClientMayCommand(i) \/ ClientMayConfirm(i), NEW m \in Meta,
             m.from = Tx(i).from, m.nonce = Tx(i).nonce,
             Rewrites(i, m),
             \A c \in calls' : c.type \in {"gas", "nonce"} => c \in calls,
             UNCHANGED <<chain, networkVars, intent>>
      PROVE  Decided'
  <2>1. Tx(i) = txs[chain][i] /\ Listed(chain, i)
    BY <1>0, <1>4, CommandOnListed
  <2> QED
    BY <1>4, <2>1, SameNonceDecided
<1>5. ASSUME NEW i \in TxIds,
             ClientMayCommand(i) \/ ClientMayConfirm(i), NEW m \in Meta,
             m.from = Tx(i).from, m.nonce = Tx(i).nonce,
             SaveTx(i, m, calls), UNCHANGED <<chain, networkVars, intent>>
      PROVE  Decided'
  <2>1. Rewrites(i, m) /\ calls' = calls
    BY <1>5, SaveTxRewrites DEF SaveTx
  <2> QED
    BY <1>4, <1>5, <2>1
<1>6. ASSUME NEW i \in TxIds, SetGasOrDataForUnapprovedTransaction(i)
      PROVE  Decided'
  <2>1. ClientMayCommand(i)
    BY <1>6 DEF SetGasOrDataForUnapprovedTransaction
  <2>2. Tx(i) \in Meta
    BY <1>0, <2>1, CommandOnListed
  <2>3. /\ Edited(Tx(i)) \in Meta
        /\ Edited(Tx(i)).from = Tx(i).from /\ Edited(Tx(i)).nonce = Tx(i).nonce
    BY <2>2 DEF Edited, Meta, Signatures
  <2> QED
    BY <1>5, <1>6, <2>1, <2>3 DEF SetGasOrDataForUnapprovedTransaction
<1>7. ASSUME NEW i \in TxIds, RejectTransaction(i)
      PROVE  Decided'
  <2> DEFINE m == [Tx(i) EXCEPT !.status = "Rejected"]
  <2>1. ClientMayConfirm(i)
    BY <1>7 DEF RejectTransaction
  <2>2. Tx(i) \in Meta
    BY <1>0, <2>1, CommandOnListed
  <2>3. m \in Meta /\ m.from = Tx(i).from /\ m.nonce = Tx(i).nonce
    BY <2>2 DEF Meta, Status
  <2>4. SaveTx(i, m, calls) /\ UNCHANGED <<chain, networkVars, intent>>
    BY <1>7 DEF RejectTransaction
  <2> HIDE DEF m
  <2> QED
    BY <1>5, <2>1, <2>3, <2>4
<1>8. ASSUME NEW i \in TxIds,
             ClientMayCommand(i) \/ ClientMayConfirm(i), Tx(i).nonce = None,
             NEW p, p.type = "nonce", p.id = i, calls' = calls \cup {p},
             UNCHANGED <<chain, txs, networkVars, intent>>
      PROVE  Decided'
  <2>1. Tx(i) = txs[chain][i] /\ Listed(chain, i)
    BY <1>0, <1>8, CommandOnListed
  <2>2. Undecided(i)
    BY <1>0, <1>8, <2>1 DEF Decided, NoneIsUndecided
  <2>3. \A k \in Chains, j \in TxIds : Listed(k, j)' =>
          /\ Listed(k, j)
          /\ txs'[k][j].from = txs[k][j].from
          /\ txs'[k][j].nonce = txs[k][j].nonce
    BY <1>8 DEF Listed
  <2>4. \A k \in Chains : Sent(k)' = Sent(k)
    BY <1>8 DEF networkVars, Sent
  <2> QED
    BY <1>8, <2>2, <2>3, <2>4, SameUses DEF CallsOf
<1>9. ASSUME NEW i \in TxIds, ApproveTransaction(i)
      PROVE  Decided'
  <2>1. ClientMayConfirm(i) /\ UNCHANGED <<chain, networkVars, intent>>
    BY <1>9 DEF ApproveTransaction
  <2>2. CASE Tx(i).nonce = None
    <3> DEFINE p == [type |-> "nonce", id |-> i, meta |-> Tx(i),
                     chain |-> chain, hardware |-> FALSE,
                     again |-> CommandsOn(i) # {}]
    <3>1. p.type = "nonce" /\ p.id = i
      OBVIOUS
    <3>2. calls' = calls \cup {p} /\ UNCHANGED txs
      BY <1>9, <2>2 DEF ApproveTransaction
    <3> HIDE DEF p
    <3> QED
      BY <1>8, <2>1, <2>2, <3>1, <3>2
  <2>3. CASE Tx(i).nonce # None
    <3>1. Tx(i) \in Meta /\ keyring = "unlocked"
      BY <1>0, <2>1, CommandOnListed
    <3>2. Tx(i).nonce \in Nonces
      BY <2>3, <3>1 DEF Meta
    <3>3. Sign(i, Tx(i), chain, Tx(i).nonce, calls)
      BY <1>9, <2>3 DEF ApproveTransaction
    <3>4. PICK w \in Meta :
            /\ w.from = Tx(i).from /\ w.nonce = Tx(i).nonce
            /\ Rewrites(i, w)
            /\ \/ calls' = calls \cup {[type |-> "publish", id |-> i,
                                        raw |-> SignatureOf(i, w, chain),
                                        chain |-> chain, accepted |-> FALSE]}
               \/ Leaves(calls)
      BY <3>1, <3>2, <3>3, SignEffect
    <3>5. \A c \in calls' : c.type \in {"gas", "nonce"} => c \in calls
      BY <3>4 DEF Leaves, FreshReceipt
    <3> QED
      BY <1>4, <2>1, <3>4, <3>5
  <2> QED
    BY <2>2, <2>3
<1>10. ASSUME NEW i \in TxIds, GetNonceForHardwareTransaction(i)
       PROVE  Decided'
  <2>1. ClientMayConfirm(i) /\ UNCHANGED <<chain, networkVars, intent>>
    BY <1>10 DEF GetNonceForHardwareTransaction
  <2>2. CASE Tx(i).nonce = None
    <3> DEFINE p == [type |-> "nonce", id |-> i, meta |-> Tx(i),
                     chain |-> chain, hardware |-> TRUE,
                     again |-> CommandsOn(i) # {}]
    <3>1. p.type = "nonce" /\ p.id = i
      OBVIOUS
    <3>2. calls' = calls \cup {p} /\ UNCHANGED txs
      BY <1>10, <2>2 DEF GetNonceForHardwareTransaction
    <3> HIDE DEF p
    <3> QED
      BY <1>8, <2>1, <2>2, <3>1, <3>2
  <2>3. CASE Tx(i).nonce # None
    <3>1. Tx(i) \in Meta
      BY <1>0, <2>1, CommandOnListed
    <3>2. SaveTx(i, Tx(i), calls)
      BY <1>10, <2>3 DEF GetNonceForHardwareTransaction
    <3> QED
      BY <1>5, <2>1, <3>1, <3>2
  <2> QED
    BY <2>2, <2>3
<1>11. ASSUME NEW i \in TxIds, NEW k \in Chains, ProcessHardwareSignature(i, k)
       PROVE  Decided'
  <2> DEFINE sig == [id |-> i, from |-> Tx(i).from, nonce |-> Tx(i).nonce,
                     chain |-> k]
             m == [Tx(i) EXCEPT !.status = "Approved", !.sig = sig]
             failed == [Tx(i) EXCEPT !.status = "Error"]
             call == [type |-> "publish", id |-> i, raw |-> sig,
                      chain |-> chain, accepted |-> FALSE]
  <2>1. /\ ClientMayConfirm(i)
        /\ Tx(i).nonce # None
        /\ UNCHANGED <<chain, networkVars, intent>>
    BY <1>11 DEF ProcessHardwareSignature
  <2>2. Tx(i) \in Meta
    BY <1>0, <2>1, CommandOnListed
  <2>3. sig \in Signatures
    BY <2>1, <2>2 DEF Meta, Signatures, SignedTx
  <2>4. m \in Meta /\ m.from = Tx(i).from /\ m.nonce = Tx(i).nonce
    BY <2>2, <2>3 DEF Meta, Status
  <2>5. /\ failed \in Meta
        /\ failed.from = Tx(i).from /\ failed.nonce = Tx(i).nonce
    BY <2>2 DEF Meta, Status
  <2>6. SaveTx(i, m, calls \cup {call}) \/ SaveTx(i, failed, calls)
    BY <1>11 DEF ProcessHardwareSignature
  <2>7. call.type = "publish"
    OBVIOUS
  <2> HIDE DEF sig, m, failed, call
  <2>8. CASE SaveTx(i, failed, calls)
    BY <1>5, <2>1, <2>5, <2>8
  <2>9. CASE SaveTx(i, m, calls \cup {call})
    <3>1. Rewrites(i, m) /\ calls' = calls \cup {call}
      BY <2>4, <2>9, SaveTxRewrites DEF SaveTx
    <3> QED
      BY <1>4, <2>1, <2>4, <2>7, <3>1
  <2> QED
    BY <2>6, <2>8, <2>9
<1>12. CASE RejectAllTransactions
  <2>1. UNCHANGED <<chain, calls, networkVars, intent>>
    BY <1>12 DEF RejectAllTransactions
  <2>2. \A k \in Chains, j \in TxIds :
          txs'[k][j] = IF k = chain /\ Listed(k, j)
                            /\ txs[k][j].status = "Unapproved"
                         THEN [txs[k][j] EXCEPT !.status = "Rejected"]
                         ELSE txs[k][j]
    BY <1>0, <1>12 DEF RejectAllTransactions, Queue, Stores, ByStatus, Listed
  <2>3. ASSUME NEW k \in Chains, NEW j \in TxIds, Listed(k, j)'
        PROVE  /\ Listed(k, j)
               /\ txs'[k][j].from = txs[k][j].from
               /\ txs'[k][j].nonce = txs[k][j].nonce
    <3>1. Listed(k, j)
      BY <2>2, <2>3 DEF Listed
    <3>2. txs[k][j] \in Meta
      BY <3>1, ListedType
    <3> QED
      BY <2>2, <3>1, <3>2 DEF Meta
  <2>4. \A k \in Chains : Sent(k)' = Sent(k)
    BY <2>1 DEF networkVars, Sent
  <2> QED
    BY <2>1, <2>3, <2>4, SameUses DEF CallsOf
<1>13. ASSUME UNCHANGED <<networkVars, intent>>,
              \A k \in Chains, j \in TxIds :
                txs'[k][j] = txs[k][j] \/ txs'[k][j] = None,
              \A c \in calls' :
                /\ c \in calls
                /\ chain' # chain => c.type # "gas"
       PROVE  Decided'
  <2>1. \A k \in Chains : Sent(k)' = Sent(k)
    BY <1>13 DEF networkVars, Sent
  <2> QED
    BY <1>13, <2>1, QuietDecided
<1>14. CASE CreateWallet \/ Lock \/ Unlock \/ Restart
  <2>1. /\ UNCHANGED <<networkVars, intent, txs, chain>>
        /\ calls' \subseteq calls
    BY <1>14 DEF CreateWallet, Lock, Unlock, Restart
  <2> QED
    BY <1>13, <2>1
<1>15. NoCommandRuns => \A c \in calls : c.type # "gas"
  BY <1>0 DEF NoCommandRuns, Does, PatientClients, CallsOf
<1>16. ASSUME NEW c \in Chains, SetNetwork(c)
       PROVE  Decided'
  <2>1. UNCHANGED <<networkVars, intent, txs, calls>> /\ NoCommandRuns
    BY <1>16 DEF SetNetwork
  <2> QED
    BY <1>13, <1>15, <2>1
<1>17. CASE Reset
  <2>1. /\ UNCHANGED <<networkVars, intent, calls>> /\ NoCommandRuns
        /\ txs' = EmptyStore
    BY <1>17 DEF Reset
  <2>2. \A k \in Chains, j \in TxIds : txs'[k][j] = None
    BY <2>1 DEF EmptyStore
  <2> QED
    BY <1>13, <1>15, <2>1, <2>2
<1>18. \A i \in TxIds, n \in Nonces \cup {None} :
         ~SetNonceForUnapprovedTransaction(i, n)
  BY DEF SetNonceForUnapprovedTransaction, Does, OwnNonces
<1> QED
  BY <1>1, <1>2, <1>3, <1>6, <1>7, <1>9, <1>10, <1>11, <1>12, <1>14, <1>16,
     <1>17, <1>18
  DEF UserStep

\* The callbacks, one case for each.
LEMMA WalletStepDecided ==
  ASSUME TypeOK, TypeOK', Orderly, Decided, WalletStep
  PROVE  Decided'
<1> USE DEF managerVars, trackerVars
<1>0. /\ \A j \in TxIds : Proper(j)
      /\ chain \in Chains /\ txs \in Stores /\ calls \in SUBSET Calls
  BY DEF Orderly, TypeOK
<1>1. ASSUME UNCHANGED <<chain, networkVars, intent>>,
             \A k \in Chains, j \in TxIds :
               txs'[k][j] = txs[k][j] \/ txs'[k][j] = None,
             \A c \in calls' : c.type \in {"gas", "nonce"} => c \in calls
      PROVE  Decided'
  <2>1. \A k \in Chains : Sent(k)' = Sent(k)
    BY <1>1 DEF networkVars, Sent
  <2> QED
    BY <1>1, <2>1, QuietDecided
<1>2. ASSUME NEW c \in CallsOf("gas"), OnGetGas(c)
      PROVE  Decided'
  <2>1. c \in calls /\ c \in GasCalls
    BY <1>0, CallKinds DEF CallsOf
  <2>2. c.meta \in Meta /\ c.intent \in 0 .. NumTxs
    BY <2>1 DEF GasCalls
  <2>3. UNCHANGED <<chain, networkVars>>
    BY <1>2 DEF OnGetGas
  <2>4. CASE ContinueAddUnapprovedTransaction(c.meta, c.intent, calls \ {c})
    <3>1. calls \ {c} \in SUBSET calls
      OBVIOUS
    <3> QED
      BY <2>2, <2>3, <2>4, <3>1, GasUse, AddDecided
  <2>5. CASE calls' = calls \ {c} /\ UNCHANGED <<txs, intent>>
    BY <1>1, <2>3, <2>5
  <2> QED
    BY <1>2, <2>4, <2>5 DEF OnGetGas
<1>3. ASSUME NEW c \in CallsOf("nonce"), NEW m \in Meta, m.nonce # None,
             Rewrites(c.id, m),
             \A d \in calls' : d.type \in {"gas", "nonce"} => d \in calls \ {c},
             UNCHANGED <<chain, networkVars, intent>>
      PROVE  Decided'
  <2>1. /\ c.id \in TxIds
        /\ \A k \in Chains : Listed(k, c.id) => k = chain
        /\ \A d \in calls \ {c} : d.type \in RequestTypes => d.id # c.id
    BY NonceAnswered
  <2>2. Undecided(c.id)
    BY NonceUse
  <2>3. \A d \in calls' : d.type = "nonce" => d.id # c.id
    BY <1>3, <2>1 DEF RequestTypes
  <2> QED
    BY <1>3, <2>1, <2>2, <2>3, NewNonceDecided
<1>4. ASSUME NEW c \in CallsOf("nonce"), OnGetNextNonce(c)
      PROVE  Decided'
  <2>1. PICK n \in Nonces : Sign(c.id, c.meta, c.chain, n, calls \ {c})
    BY <1>4 DEF OnGetNextNonce
  <2>2. /\ c.id \in TxIds /\ c.meta \in Meta /\ c.chain = chain
        /\ keyring = "unlocked"
    BY NonceAnswered
  <2>3. PICK w \in Meta :
          /\ w.nonce = n
          /\ Rewrites(c.id, w)
          /\ \/ calls' = (calls \ {c}) \cup
                           {[type |-> "publish", id |-> c.id,
                             raw |-> SignatureOf(c.id, w, chain),
                             chain |-> chain, accepted |-> FALSE]}
             \/ Leaves(calls \ {c})
    BY <2>1, <2>2, SignEffect
  <2>4. w.nonce # None
    BY <2>3, StoreAssumption DEF Nonces
  <2>5. \A d \in calls' : d.type \in {"gas", "nonce"} => d \in calls \ {c}
    BY <2>3 DEF Leaves, FreshReceipt
  <2>6. UNCHANGED <<chain, networkVars, intent>>
    BY <1>4 DEF OnGetNextNonce
  <2> QED
    BY <1>3, <2>3, <2>4, <2>5, <2>6
<1>5. ASSUME NEW c \in CallsOf("nonce"), OnGetNextNonceForHardware(c)
      PROVE  Decided'
  <2>1. PICK n \in Nonces :
          SaveTx(c.id, [c.meta EXCEPT !.nonce = n], calls \ {c})
    BY <1>5 DEF OnGetNextNonceForHardware
  <2> DEFINE m == [c.meta EXCEPT !.nonce = n]
  <2>2. c.id \in TxIds /\ c.meta \in Meta
    BY NonceAnswered
  <2>3. m \in Meta /\ m.nonce # None
    BY <2>2, StoreAssumption DEF Meta, Nonces
  <2>4. /\ SaveTx(c.id, m, calls \ {c})
        /\ UNCHANGED <<chain, networkVars, intent>>
    BY <1>5, <2>1 DEF OnGetNextNonceForHardware
  <2> HIDE DEF m
  <2>5. Rewrites(c.id, m) /\ calls' = calls \ {c}
    BY <2>2, <2>3, <2>4, SaveTxRewrites DEF SaveTx
  <2> QED
    BY <1>3, <2>3, <2>4, <2>5
<1>6. ASSUME NEW c \in CallsOf("nonce"), OnGetNextNonceFailed(c)
      PROVE  Decided'
  <2> DEFINE m == [c.meta EXCEPT !.status = "Error"]
  <2>1. /\ c.id \in TxIds /\ c.meta \in Meta
        /\ \A k \in Chains : Listed(k, c.id) => k = chain
    BY NonceAnswered
  <2>2. c.meta.nonce = None
    BY <1>0, <2>1 DEF Proper, AwaitsNonce
  <2>3. m \in Meta /\ m.nonce = None
    BY <2>1, <2>2 DEF Meta, Status
  <2>4. /\ SaveTx(c.id, m, calls \ {c})
        /\ UNCHANGED <<chain, networkVars, intent>>
    BY <1>6 DEF OnGetNextNonceFailed
  <2> HIDE DEF m
  <2>5. Rewrites(c.id, m) /\ calls' = calls \ {c}
    BY <2>1, <2>3, <2>4, SaveTxRewrites DEF SaveTx
  <2> QED
    BY <2>1, <2>3, <2>4, <2>5, NonceUse, NoNonceDecided
<1>7. ASSUME NEW c \in CallsOf("publish"), OnPublishTransaction(c)
      PROVE  Decided'
  <2> DEFINE i == c.id
             m == txs[chain][i]
             sent == [m EXCEPT !.status = "Submitted", !.hash = c.raw]
             failed == [m EXCEPT !.status = "Error"]
  <2>1. /\ i \in TxIds /\ m # None /\ m \in Meta /\ Listed(chain, i)
    BY PublishAnswered DEF Listed
  <2>2. c.raw \in Signatures
    BY <1>0, CallKinds DEF CallsOf, PublishCalls
  <2>3. sent \in Meta /\ sent.from = m.from /\ sent.nonce = m.nonce
    BY <2>1, <2>2 DEF Meta, Status
  <2>4. failed \in Meta /\ failed.from = m.from /\ failed.nonce = m.nonce
    BY <2>1 DEF Meta, Status
  <2>5. \/ \E s \in AddOrUpdateTx(txs, chain, i, sent) :
             UpdatePendingTransactions(s, calls \ {c}, running)
        \/ SaveTx(i, failed, calls \ {c})
    BY <1>7, <2>1 DEF OnPublishTransaction, PublishFailed, Tx, GetTx
  <2>6. UNCHANGED <<chain, networkVars, intent>>
    BY <1>7 DEF OnPublishTransaction
  <2> HIDE DEF i, m, sent, failed
  <2>7. CASE SaveTx(i, failed, calls \ {c})
    <3>1. Rewrites(i, failed) /\ calls' = calls \ {c}
      BY <2>1, <2>4, <2>7, SaveTxRewrites DEF SaveTx
    <3> QED
      BY <2>1, <2>4, <2>6, <3>1, SameNonceDecided DEF m
  <2>8. CASE \E s \in AddOrUpdateTx(txs, chain, i, sent) :
               UpdatePendingTransactions(s, calls \ {c}, running)
    <3>1. PICK s \in AddOrUpdateTx(txs, chain, i, sent) :
            UpdatePendingTransactions(s, calls \ {c}, running)
      BY <2>8
    <3>2. s \in Stores
      BY <1>0, <2>1, <2>3, AddOrUpdateType
    <3>3. IsRewritten(txs, s, chain, i, sent)
      BY <1>0, <2>1, <2>3, AddOrUpdateRewrites
    <3>4. Rewrites(i, sent) /\ Leaves(calls \ {c})
      BY <2>1, <3>1, <3>2, <3>3, UpdateAfterWrite
    <3>5. \A d \in calls' : d.type \in {"gas", "nonce"} => d \in calls
      BY <3>4 DEF Leaves, FreshReceipt
    <3> QED
      BY <2>1, <2>3, <2>6, <3>4, <3>5, SameNonceDecided DEF m
  <2> QED
    BY <2>5, <2>7, <2>8
<1>8. ASSUME NEW c \in CallsOf("receipt"), OnGetTxReceipt(c)
      PROVE  Decided'
  <2> DEFINE i == c.id
             m == txs[chain][i]
             sure == [m EXCEPT !.status = "Confirmed"]
  <2>1. i \in TxIds /\ m # None /\ m \in Meta /\ Listed(chain, i)
    <3>1. i \in TxIds
      BY <1>0, CallKinds DEF CallsOf, ReceiptCalls
    <3> QED
      BY <1>0, <1>8, <3>1, ListedType DEF OnGetTxReceipt, Tx, GetTx, Listed
  <2>2. sure \in Meta /\ sure.from = m.from /\ sure.nonce = m.nonce
    BY <2>1 DEF Meta, Status
  <2>3. UNCHANGED <<chain, networkVars, intent>>
    BY <1>8 DEF OnGetTxReceipt
  <2>4. \/ SaveTx(i, sure, calls \ {c})
        \/ ShouldTxDropped(i, m, calls \ {c})
    BY <1>8 DEF OnGetTxReceipt, Tx, GetTx
  <2> HIDE DEF i, m, sure
  <2>5. CASE SaveTx(i, sure, calls \ {c})
    <3>1. Rewrites(i, sure) /\ calls' = calls \ {c}
      BY <2>1, <2>2, <2>5, SaveTxRewrites DEF SaveTx
    <3> QED
      BY <2>1, <2>2, <2>3, <3>1, SameNonceDecided DEF m
  <2>6. CASE ShouldTxDropped(i, m, calls \ {c})
    <3>1. txs' = txs \/ txs' = DeleteTx(txs, chain, i)
      BY <2>6 DEF ShouldTxDropped
    <3>2. \A k \in Chains, j \in TxIds :
            txs'[k][j] = txs[k][j] \/ txs'[k][j] = None
      BY <1>0, <2>1, <3>1, PutRows DEF DeleteTx
    <3>3. \A d \in calls' : d \in calls \/ d.type = "count"
      BY <2>6 DEF ShouldTxDropped
    <3> QED
      BY <1>1, <2>3, <3>2, <3>3
  <2> QED
    BY <2>4, <2>5, <2>6
<1>9. CASE \/ \E c \in CallsOf("receipt") : OnNoTxReceipt(c)
           \/ \E c \in CallsOf("count") : OnGetNetworkNonce(c)
           \/ GetBlockNumber
           \/ OnNoNewBlock
  <2>1. /\ UNCHANGED <<chain, txs, intent, networkVars>>
        /\ calls' \subseteq calls
    BY <1>9 DEF OnNoTxReceipt, OnGetNetworkNonce, GetBlockNumber, OnNoNewBlock
  <2> QED
    BY <1>1, <2>1
<1>10. CASE OnNewBlock \/ OnKeyringNotice
  <2>1. UNCHANGED <<chain, intent, networkVars>>
    BY <1>10 DEF OnNewBlock, OnKeyringNotice
  <2>2. \/ UNCHANGED <<txs, calls>>
        \/ \E run : UpdatePendingTransactions(txs, calls, run)
    BY <1>10 DEF OnNewBlock, OnKeyringNotice
  <2>3. CASE \E run : UpdatePendingTransactions(txs, calls, run)
    <3>1. /\ \A k \in Chains, j \in TxIds :
               txs'[k][j] = txs[k][j] \/ txs'[k][j] = None
          /\ Leaves(calls)
      BY <1>0, <2>3, UpdatePendingRows
    <3> QED
      BY <1>1, <2>1, <3>1 DEF Leaves, FreshReceipt
  <2> QED
    BY <1>1, <2>1, <2>2, <2>3
<1> QED
  BY <1>2, <1>4, <1>5, <1>6, <1>7, <1>8, <1>9, <1>10 DEF WalletStep

\* The nodes: what they take is tied to the nonce its transaction is.
LEMMA NetworkStepDecided ==
  ASSUME TypeOK, TypeOK', Orderly, Decided, NetworkStep
  PROVE  Decided'
<1> USE DEF managerVars, trackerVars
<1>0. /\ \A j \in TxIds : Proper(j)
      /\ chain \in Chains
      /\ pool \in [Chains -> SUBSET SignedTx]
      /\ mined \in [Chains -> SUBSET SignedTx]
      /\ reverted \in [Chains -> SUBSET SignedTx]
  BY DEF Orderly, TypeOK
<1>1. ASSUME UNCHANGED <<chain, txs, intent>>,
             \A c \in calls' : c.type \in {"gas", "nonce"} => c \in calls,
             \A k \in Chains : \A r \in Sent(k)' :
               r \in Sent(k) \/ Uses(intent[r.id], r.from, r.nonce, k)
      PROVE  Decided'
  BY <1>1, QuietDecided
<1>2. ASSUME NEW k \in Chains, NEW i \in TxIds, Listed(k, i),
             txs[k][i].nonce # None, NEW r, r = SignatureOf(i, txs[k][i], k)
      PROVE  Uses(intent[r.id], r.from, r.nonce, k)
  BY <1>2, RowUse DEF SignatureOf
<1>3. ASSUME NEW c \in CallsOf("publish"), NodeAccepts(c)
      PROVE  Decided'
  <2>1. /\ c.id \in TxIds /\ c.chain = chain /\ Listed(chain, c.id)
        /\ txs[chain][c.id].nonce # None
        /\ c.raw = SignatureOf(c.id, txs[chain][c.id], chain)
    BY PublishAnswered
  <2>2. [c EXCEPT !.accepted = TRUE].type = "publish"
    <3>1. c \in PublishCalls /\ c.type = "publish"
      BY CallKinds DEF TypeOK, CallsOf
    <3> QED
      BY <3>1 DEF PublishCalls
  <2>3. /\ UNCHANGED <<chain, txs, mined, reverted, intent>>
        /\ calls' = (calls \ {c}) \cup {[c EXCEPT !.accepted = TRUE]}
        /\ pool' = [pool EXCEPT ![chain] = @ \cup {c.raw}]
    BY <1>3, <2>1 DEF NodeAccepts
  <2>4. \A k \in Chains : \A r \in Sent(k)' :
          r \in Sent(k) \/ (k = chain /\ r = c.raw)
    BY <1>0, <2>3 DEF Sent
  <2>5. Uses(intent[c.raw.id], c.raw.from, c.raw.nonce, chain)
    BY <1>0, <1>2, <2>1
  <2> QED
    BY <1>1, <2>2, <2>3, <2>4, <2>5
<1>4. ASSUME NEW k \in Chains, NEW i \in TxIds, PageBroadcasts(k, i)
      PROVE  Decided'
  <2> DEFINE h == txs[k][i].hash
  <2>1. Listed(k, i) /\ txs[k][i].status = "Signed"
    BY <1>4 DEF PageBroadcasts, ByStatus, Listed
  <2>2. h = SignatureOf(i, txs[k][i], k) /\ txs[k][i].nonce # None
    BY <1>0, <2>1 DEF Proper, OutIsSealed, Out
  <2>3. /\ UNCHANGED <<chain, txs, calls, mined, reverted, intent>>
        /\ pool' = [pool EXCEPT ![k] = @ \cup {h}]
    BY <1>4 DEF PageBroadcasts
  <2>4. Uses(intent[h.id], h.from, h.nonce, k)
    BY <1>2, <2>1, <2>2
  <2> HIDE DEF h
  <2>5. \A l \in Chains : \A r \in Sent(l)' :
          r \in Sent(l) \/ (l = k /\ r = h)
    BY <1>0, <2>3 DEF Sent
  <2> QED
    BY <1>1, <2>3, <2>4, <2>5
<1>5. ASSUME NEW k \in Chains, NEW raw \in pool[k], Mine(k, raw)
      PROVE  Decided'
  <2>1. pool' = [pool EXCEPT ![k] =
                   {r \in @ : r.from # raw.from
                                \/ r.nonce # netNonce[k][raw.from]}]
    BY <1>5 DEF Mine, UseNonce
  <2>2. \/ mined' = [mined EXCEPT ![k] = @ \cup {raw}] /\ reverted' = reverted
        \/ reverted' = [reverted EXCEPT ![k] = @ \cup {raw}] /\ mined' = mined
    BY <1>5 DEF Mine
  <2>3. \A l \in Chains : Sent(l)' \subseteq Sent(l)
    BY <1>0, <2>1, <2>2 DEF Sent
  <2> QED
    BY <1>1, <1>5, <2>3 DEF Mine
<1>6. ASSUME NEW k \in Chains, NEW a \in Accounts, OutsideTx(k, a)
      PROVE  Decided'
  <2>1. /\ pool' = [pool EXCEPT ![k] =
                      {r \in @ : r.from # a \/ r.nonce # netNonce[k][a]}]
        /\ UNCHANGED <<mined, reverted>>
    BY <1>6 DEF OutsideTx, UseNonce
  <2>2. \A l \in Chains : Sent(l)' \subseteq Sent(l)
    BY <1>0, <2>1 DEF Sent
  <2> QED
    BY <1>1, <1>6, <2>2 DEF OutsideTx
<1> QED
  BY <1>3, <1>4, <1>5, <1>6 DEF NetworkStep

\* A fresh profile has no intent.
LEMMA DecidedInit == Init => Decided
<1> SUFFICES ASSUME Init PROVE Decided
  OBVIOUS
<1>1. /\ calls = {}
      /\ \A k \in Chains : Sent(k) = {}
      /\ \A k \in Chains, i \in TxIds : ~Listed(k, i)
  BY DEF Init, Sent, Listed, EmptyStore
<1> QED
  BY <1>1 DEF Decided, OneNonce, NamedAfterFirst, GasCallsFit,
              NoneIsUndecided, Uses, CallsOf

\* With nonces of the wallet's own, every intent is tied to one nonce.
LEMMA AlwaysDecided ==
  ASSUME OwnNonces
  PROVE  Spec => []Decided
<1>1. TypeOK /\ TypeOK' /\ Orderly /\ Decided /\ [Next]_vars => Decided'
  <2> SUFFICES ASSUME TypeOK, TypeOK', Orderly, Decided, [Next]_vars
               PROVE  Decided'
    OBVIOUS
  <2>1. CASE UNCHANGED vars
    <3>1. /\ UNCHANGED <<intent, chain, txs, calls>>
          /\ \A k \in Chains : Sent(k)' = Sent(k)
      BY <2>1 DEF vars, networkVars, Sent
    <3> QED
      BY <3>1, QuietDecided
  <2> QED
    BY <2>1, UserStepDecided, WalletStepDecided, NetworkStepDecided DEF Next
<1>2. Spec => []Orderly
  BY AlwaysOrderly DEF OwnNonces
<1> QED
  BY <1>1, <1>2, DecidedInit, TypeCorrect, PTL DEF Spec

\* What the user asked for once happens at most once, on whatever network and
\* through however many copies: speeding up, cancelling and retrying keep the
\* nonce, and a nonce is used once.
THEOREM HappensAtMostOnce ==
  ASSUME OwnNonces
  PROVE  Spec => []AtMostOnce
<1>1. TypeOK /\ Orderly /\ Decided /\ ChainInOrder => AtMostOnce
  <2> SUFFICES ASSUME TypeOK, Orderly, Decided, ChainInOrder,
                      NEW r \in Executed, NEW q \in Executed,
                      intent[r.id] = intent[q.id]
               PROVE  r = q
    BY DEF AtMostOnce
  <2>1. PICK k \in Chains : r \in mined[k] \cup reverted[k]
    BY DEF Executed
  <2>2. PICK l \in Chains : q \in mined[l] \cup reverted[l]
    BY DEF Executed
  <2>3. r \in SignedTx /\ q \in SignedTx
    BY <2>1, <2>2 DEF TypeOK
  <2>4. /\ r.id \in TxIds /\ r.from \in Accounts /\ r.nonce \in Nonces
        /\ q.from \in Accounts /\ q.nonce \in Nonces
    BY <2>3 DEF SignedTx
  <2>5. /\ Uses(intent[r.id], r.from, r.nonce, k)
        /\ Uses(intent[r.id], q.from, q.nonce, l)
    BY <2>1, <2>2 DEF Uses, Sent
  <2>6. intent[r.id] \in TxIds
    <3>1. intent[r.id] # 0
      BY <2>1, <2>4 DEF Orderly, Proper, UnusedIsUnknown, Sent
    <3> QED
      BY <2>4, <3>1, StoreAssumption DEF TypeOK, TxIds
  <2>7. r.from = q.from /\ r.nonce = q.nonce /\ k = l
    BY <2>4, <2>5, <2>6 DEF Decided, OneNonce
  <2> QED
    BY <2>1, <2>2, <2>7 DEF ChainInOrder
<1>2. Spec => []Orderly
  BY AlwaysOrderly DEF OwnNonces
<1> QED
  BY <1>1, <1>2, AlwaysDecided, ChainAlwaysInOrder, TypeCorrect, PTL

-----------------------------------------------------------------------------
(* Nonces without a gap.                                                   *)

\* Every nonce of account a from the next one on and below n is used by a
\* transaction in the pool.
Covered(k, a, n) ==
  \A m \in netNonce[k][a] .. (n - 1) :
    \E q \in pool[k] : q.from = a /\ q.nonce = m

\* The nodes have taken r, or its nonce has been used.
Spent(k, r) == r \in pool[k] \/ r.nonce < netNonce[k][r.from]

\* A transaction has a nonce only when the ones before it are covered.
RowsCovered ==
  \A k \in Chains, i \in TxIds : Listed(k, i) /\ txs[k][i].nonce # None =>
    Covered(k, txs[k][i].from, txs[k][i].nonce)

DraftsCovered ==
  \A c \in CallsOf("gas") : c.meta.nonce # None =>
    Covered(chain, c.meta.from, c.meta.nonce)

PoolCovered ==
  \A k \in Chains : \A r \in pool[k] : Covered(k, r.from, r.nonce)

\* What the wallet shows as submitted the nodes have taken.
SubmittedIsSpent ==
  \A k \in Chains, i \in TxIds :
    Listed(k, i) /\ txs[k][i].status = "Submitted" => Spent(k, txs[k][i].hash)

AcceptedIsSpent ==
  \A c \in CallsOf("publish") : c.accepted => Spent(c.chain, c.raw)

Gapless ==
  /\ RowsCovered
  /\ DraftsCovered
  /\ PoolCovered
  /\ SubmittedIsSpent
  /\ AcceptedIsSpent

\* A set of numbers that is not empty has a smallest one.
LEMMA Smallest ==
  ASSUME NEW T, T \subseteq Nat, T # {}
  PROVE  \E m \in T : \A n \in T : m <= n
<1>1. PICK m \in T : \A n \in T : ~(<<n, m>> \in OpToRel(<, Nat))
  BY NatLessThanWellFounded, WFMin
<1>2. ASSUME NEW n \in T PROVE m <= n
  <2>1. m \in Nat /\ n \in Nat
    OBVIOUS
  <2>2. ~(n < m)
    BY <1>1, <2>1 DEF OpToRel
  <2> QED
    BY <2>1, <2>2
<1> QED
  BY <1>1, <1>2

\* What the pass over the submitted transactions makes of the value so far.
Advance(s, c, a, k, highest) ==
  IF k \in ByStatusFrom(s, c, "Submitted", a) /\ s[c][k].nonce = highest
    THEN highest + 1
    ELSE highest

\* f holds the values of the pass over the ids up to n.
IsPass(f, s, c, a, start, n) ==
  f = [k \in 0 .. n |-> IF k = 0 THEN start ELSE Advance(s, c, a, k, f[k - 1])]

\* The pass goes through, for any number of ids.
LEMMA PassExists ==
  ASSUME NEW s, NEW c, NEW a, NEW start, NEW n \in Nat
  PROVE  \E f : IsPass(f, s, c, a, start, n)
<1> DEFINE T == {k \in Nat : ~(\E f : IsPass(f, s, c, a, start, k))}
<1>1. SUFFICES ASSUME T # {} PROVE FALSE
  OBVIOUS
<1>2. PICK k \in T : \A l \in T : k <= l
  BY <1>1, Smallest
<1>3. k \in Nat /\ ~(\E f : IsPass(f, s, c, a, start, k))
  OBVIOUS
<1>4. CASE k = 0
  <2> DEFINE f == [l \in 0 .. 0 |-> start]
  <2>1. f = [l \in 0 .. 0 |->
               IF l = 0 THEN start ELSE Advance(s, c, a, l, f[l - 1])]
    OBVIOUS
  <2> QED
    BY <1>3, <1>4, <2>1 DEF IsPass
<1>5. CASE k # 0
  <2>1. k - 1 \in Nat /\ ~(k <= k - 1)
    BY <1>3, <1>5
  <2>2. k - 1 \notin T
    BY <1>2, <2>1
  <2>3. PICK g : IsPass(g, s, c, a, start, k - 1)
    BY <2>1, <2>2
  <2> DEFINE f == [l \in 0 .. k |-> IF l < k THEN g[l]
                                    ELSE Advance(s, c, a, k, g[k - 1])]
             h == [l \in 0 .. k |-> IF l = 0 THEN start
                                    ELSE Advance(s, c, a, l, f[l - 1])]
  <2>4. ASSUME NEW l \in 0 .. k
        PROVE  f[l] = h[l]
    <3>1. CASE l = 0
      BY <1>3, <1>5, <2>3, <3>1 DEF IsPass
    <3>2. CASE l # 0
      <4>1. l - 1 \in 0 .. k /\ l - 1 < k /\ f[l - 1] = g[l - 1]
        BY <1>3, <3>2
      <4>2. h[l] = Advance(s, c, a, l, g[l - 1])
        BY <3>2, <4>1
      <4>3. CASE l = k
        BY <1>3, <4>2, <4>3
      <4>4. CASE l # k
        <5>1. l \in 0 .. (k - 1) /\ l < k
          BY <1>3, <4>4
        <5>2. g[l] = Advance(s, c, a, l, g[l - 1])
          BY <2>3, <3>2, <5>1 DEF IsPass
        <5> QED
          BY <4>2, <5>1, <5>2
      <4> QED
        BY <4>3, <4>4
    <3> QED
      BY <3>1, <3>2
  <2>5. f = h
    <3> HIDE DEF T
    <3> QED
      BY <2>4
  <2>6. IsPass(f, s, c, a, start, k)
    BY <2>5 DEF IsPass
  <2> QED
    BY <1>3, <2>6
<1> QED
  BY <1>4, <1>5

\* GetHighestContinuousFrom is the last value of the pass.
LEMMA PassOfSubmitted ==
  ASSUME NEW s, NEW c, NEW a, NEW start
  PROVE  \E f : /\ f[0] = start
                /\ \A k \in 1 .. NumTxs : f[k] = Advance(s, c, a, k, f[k - 1])
                /\ GetHighestContinuousFrom(s, c, a, start) = f[NumTxs]
<1> DEFINE Step(f) == [k \in 0 .. NumTxs |->
                         IF k = 0 THEN start
                         ELSE IF k \in ByStatusFrom(s, c, "Submitted", a)
                                   /\ s[c][k].nonce = f[k - 1]
                                THEN f[k - 1] + 1
                                ELSE f[k - 1]]
           g == CHOOSE f : f = Step(f)
<1>1. GetHighestContinuousFrom(s, c, a, start) = g[NumTxs]
  BY DEF GetHighestContinuousFrom
<1>2. NumTxs \in Nat
  BY StoreAssumption
<1>3. \E f : f = Step(f)
  <2>1. PICK f : IsPass(f, s, c, a, start, NumTxs)
    BY <1>2, PassExists
  <2>2. f = Step(f)
    BY <2>1 DEF IsPass, Advance
  <2> QED
    BY <2>2
<1>4. g = Step(g)
  <2> HIDE DEF Step
  <2> QED
    BY <1>3
<1> HIDE DEF g
<1>5. g[0] = start
  BY <1>2, <1>4
<1>6. \A k \in 1 .. NumTxs : g[k] = Advance(s, c, a, k, g[k - 1])
  BY <1>2, <1>4 DEF Advance
<1> QED
  BY <1>1, <1>5, <1>6

\* A bounded set of numbers that is not empty has a largest one.
LEMMA Largest ==
  ASSUME NEW T, T \subseteq Nat, T # {}, NEW b \in Nat, \A n \in T : n <= b
  PROVE  \E m \in T : \A n \in T : m >= n
<1> DEFINE below == {b - n : n \in T}
<1>1. below \subseteq Nat /\ below # {}
  <2>1. \A n \in T : n \in Nat /\ n <= b
    OBVIOUS
  <2>2. \A n \in T : b - n \in Nat
    BY <2>1
  <2> QED
    BY <2>2
<1>2. PICK d \in below : \A e \in below : d <= e
  BY <1>1, Smallest
<1>3. PICK m \in T : d = b - m
  OBVIOUS
<1>4. ASSUME NEW n \in T PROVE m >= n
  <2>1. b - m <= b - n
    BY <1>2, <1>3
  <2>2. m \in Nat /\ n \in Nat
    OBVIOUS
  <2> QED
    BY <2>1, <2>2
<1> QED
  BY <1>4

\* The confirmed transactions of an account have their nonces behind it.
LEMMA ConfirmedNonces ==
  ASSUME TypeOK, Orderly, ChainInOrder, NEW a \in Accounts,
         NEW i \in ByStatusFrom(txs, chain, "Confirmed", a)
  PROVE  /\ txs[chain][i].nonce \in Nat
         /\ txs[chain][i].nonce < netNonce[chain][a]
<1>1. chain \in Chains
  BY DEF TypeOK
<1>2. /\ i \in TxIds /\ Listed(chain, i)
      /\ txs[chain][i].status = "Confirmed" /\ txs[chain][i].from = a
  BY DEF ByStatusFrom, ByStatus, Listed
<1>3. txs[chain][i] \in Meta
  BY <1>1, <1>2, ListedType
<1>4. /\ txs[chain][i].nonce # None
      /\ txs[chain][i].hash = SignatureOf(i, txs[chain][i], chain)
      /\ txs[chain][i].hash \in mined[chain]
  BY <1>1, <1>2 DEF Orderly, Proper, OutIsSealed, ConfirmedIsMined, Out
<1>5. txs[chain][i].hash.nonce < netNonce[chain][txs[chain][i].hash.from]
  BY <1>1, <1>4 DEF ChainInOrder
<1> QED
  BY <1>2, <1>3, <1>4, <1>5 DEF Meta, Nonces, SignatureOf

\* So the highest of them leads no further than the next nonce.
LEMMA ConfirmedIsBehind ==
  ASSUME TypeOK, Orderly, ChainInOrder, NEW a \in Accounts
  PROVE  /\ GetHighestLocallyConfirmed(txs, chain, a) \in Nat
         /\ GetHighestLocallyConfirmed(txs, chain, a) <= netNonce[chain][a]
<1> DEFINE confirmed == NoncesOf(txs, chain,
                                 ByStatusFrom(txs, chain, "Confirmed", a))
           next == {n + 1 : n \in confirmed}
<1>1. netNonce[chain][a] \in Nat
  BY DEF TypeOK, Nonces
<1>2. \A n \in confirmed : n \in Nat /\ n < netNonce[chain][a]
  BY ConfirmedNonces DEF NoncesOf
<1> HIDE DEF confirmed
<1>3. \A n \in next \cup {0} : n \in Nat /\ n <= netNonce[chain][a]
  BY <1>1, <1>2
<1>4. GetHighestLocallyConfirmed(txs, chain, a) =
        CHOOSE h \in next \cup {0} : \A n \in next : h >= n
  BY DEF GetHighestLocallyConfirmed, confirmed
<1> HIDE DEF next
<1>5. \E h \in next \cup {0} : \A n \in next : h >= n
  <2>1. PICK h \in next \cup {0} : \A n \in next \cup {0} : h >= n
    BY <1>1, <1>3, Largest
  <2> QED
    BY <2>1
<1>6. GetHighestLocallyConfirmed(txs, chain, a) \in next \cup {0}
  BY <1>4, <1>5
<1> QED
  BY <1>3, <1>6

\* The nonce of a submitted transaction is used, in the pool or on chain.
LEMMA SubmittedNonces ==
  ASSUME TypeOK, Orderly, Gapless, NEW a \in Accounts,
         NEW i \in ByStatusFrom(txs, chain, "Submitted", a)
  PROVE  \/ txs[chain][i].nonce < netNonce[chain][a]
         \/ \E q \in pool[chain] : q.from = a /\ q.nonce = txs[chain][i].nonce
<1>1. chain \in Chains
  BY DEF TypeOK
<1>2. /\ i \in TxIds /\ Listed(chain, i)
      /\ txs[chain][i].status = "Submitted" /\ txs[chain][i].from = a
  BY DEF ByStatusFrom, ByStatus, Listed
<1>3. txs[chain][i].hash = SignatureOf(i, txs[chain][i], chain)
  BY <1>1, <1>2 DEF Orderly, Proper, OutIsSealed, Out
<1>4. Spent(chain, txs[chain][i].hash)
  BY <1>1, <1>2 DEF Gapless, SubmittedIsSpent
<1> QED
  BY <1>2, <1>3, <1>4 DEF Spent, SignatureOf

\* Every nonce below the one the wallet picks is used: counting on from the
\* confirmed transactions over the submitted ones does not jump.
LEMMA FinalNonceCovered ==
  ASSUME TypeOK, Orderly, ChainInOrder, Gapless, NEW a \in Accounts,
         NEW reported \in 0 .. netNonce[chain][a]
  PROVE  Covered(chain, a, GetFinalNonce(txs, chain, a, reported))
<1> DEFINE start == Larger(reported, GetHighestLocallyConfirmed(txs, chain, a))
<1>1. netNonce[chain][a] \in Nat
  BY DEF TypeOK, Nonces
<1>2. start \in Nat /\ start <= netNonce[chain][a]
  BY <1>1, ConfirmedIsBehind DEF Larger
<1> HIDE DEF start
<1>3. PICK f : /\ f[0] = start
               /\ \A k \in 1 .. NumTxs :
                    f[k] = Advance(txs, chain, a, k, f[k - 1])
               /\ GetHighestContinuousFrom(txs, chain, a, start) = f[NumTxs]
  BY PassOfSubmitted
<1>4. \A n \in Nat : n <= netNonce[chain][a] => Covered(chain, a, n)
  BY <1>1 DEF Covered
<1> DEFINE Good(k) == f[k] \in Nat /\ Covered(chain, a, f[k])
           T == {k \in 0 .. NumTxs : ~Good(k)}
<1>5. T = {}
  <2> SUFFICES ASSUME T # {} PROVE FALSE
    OBVIOUS
  <2>1. T \subseteq Nat
    OBVIOUS
  <2>2. PICK k \in T : \A l \in T : k <= l
    BY <2>1, Smallest
  <2>3. k \in 0 .. NumTxs /\ ~Good(k) /\ NumTxs \in Nat
    BY StoreAssumption
  <2>4. k # 0
    BY <1>2, <1>3, <1>4, <2>3
  <2>5. /\ k \in 1 .. NumTxs /\ k - 1 \in 0 .. NumTxs
        /\ ~(k <= k - 1)
    BY <2>3, <2>4
  <2>6. Good(k - 1)
    BY <2>2, <2>5
  <2>7. f[k] = Advance(txs, chain, a, k, f[k - 1])
    BY <1>3, <2>5
  <2>8. CASE f[k] = f[k - 1]
    BY <2>3, <2>6, <2>8
  <2>9. CASE /\ k \in ByStatusFrom(txs, chain, "Submitted", a)
             /\ txs[chain][k].nonce = f[k - 1]
             /\ f[k] = f[k - 1] + 1
    <3> DEFINE n == f[k - 1]
    <3>1. \/ n < netNonce[chain][a]
          \/ \E q \in pool[chain] : q.from = a /\ q.nonce = n
      BY <2>9, SubmittedNonces
    <3>2. n \in Nat /\ Covered(chain, a, n) /\ f[k] = n + 1
      BY <2>6, <2>9
    <3> HIDE DEF n
    <3>3. Covered(chain, a, n + 1)
      <4> SUFFICES ASSUME NEW m \in netNonce[chain][a] .. n
                   PROVE  \E q \in pool[chain] : q.from = a /\ q.nonce = m
        BY <1>1, <3>2 DEF Covered
      <4>1. CASE m = n
        BY <1>1, <3>1, <3>2, <4>1
      <4>2. CASE m # n
        <5>1. m \in netNonce[chain][a] .. (n - 1)
          BY <1>1, <3>2, <4>2
        <5> QED
          BY <3>2, <5>1 DEF Covered
      <4> QED
        BY <4>1, <4>2
    <3> QED
      BY <2>3, <3>2, <3>3
  <2> QED
    BY <2>7, <2>8, <2>9 DEF Advance
<1>6. Good(NumTxs)
  <2>1. NumTxs \in 0 .. NumTxs
    BY StoreAssumption
  <2> QED
    BY <1>5, <2>1
<1>7. \/ GetFinalNonce(txs, chain, a, reported) = reported
      \/ GetFinalNonce(txs, chain, a, reported) = f[NumTxs]
  BY <1>3 DEF GetFinalNonce, Larger, start
<1>8. reported \in Nat /\ reported <= netNonce[chain][a]
  BY <1>1
<1> QED
  BY <1>4, <1>6, <1>7, <1>8

\* A step of the wallet: whatever it gives a nonce to is covered, and whatever
\* it shows as submitted or published has been taken.
LEMMA WalletGapless ==
  ASSUME Gapless, UNCHANGED networkVars,
         \A k \in Chains, j \in TxIds : Listed(k, j)' =>
           /\ \/ txs'[k][j].nonce = None
              \/ Covered(k, txs'[k][j].from, txs'[k][j].nonce)
           /\ txs'[k][j].status = "Submitted" => Spent(k, txs'[k][j].hash),
         \A c \in calls' :
           \/ c.type \notin {"gas", "publish"}
           \/ c \in calls /\ (c.type = "gas" => chain' = chain)
           \/ /\ c.type = "gas"
              /\ \/ c.meta.nonce = None
                 \/ Covered(chain', c.meta.from, c.meta.nonce)
           \/ c.type = "publish" /\ c.accepted = FALSE
  PROVE  Gapless'
<1>1. RowsCovered'
  BY DEF RowsCovered, Covered, networkVars
<1>2. SubmittedIsSpent'
  BY DEF SubmittedIsSpent, Spent, networkVars
<1>3. DraftsCovered'
  BY DEF Gapless, DraftsCovered, Covered, CallsOf, networkVars
<1>4. PoolCovered'
  BY DEF Gapless, PoolCovered, Covered, networkVars
<1>5. AcceptedIsSpent'
  BY DEF Gapless, AcceptedIsSpent, Spent, CallsOf, networkVars
<1> QED
  BY <1>1, <1>2, <1>3, <1>4, <1>5 DEF Gapless

\* What is listed is covered.
LEMMA RowCovered ==
  ASSUME Gapless, NEW k \in Chains, NEW j \in TxIds, Listed(k, j)
  PROVE  /\ \/ txs[k][j].nonce = None
            \/ Covered(k, txs[k][j].from, txs[k][j].nonce)
         /\ txs[k][j].status = "Submitted" => Spent(k, txs[k][j].hash)
BY DEF Gapless, RowsCovered, SubmittedIsSpent

\* Writing a transaction that is covered.
LEMMA WriteGapless ==
  ASSUME TypeOK, Gapless, NEW i \in TxIds, NEW m, Rewrites(i, m),
         m.nonce = None \/ Covered(chain, m.from, m.nonce),
         m.status = "Submitted" => Spent(chain, m.hash),
         \A c \in calls' :
           \/ c.type \notin {"gas", "publish"}
           \/ c \in calls
           \/ c.type = "publish" /\ c.accepted = FALSE,
         UNCHANGED <<chain, networkVars>>
  PROVE  Gapless'
<1>1. ASSUME NEW k \in Chains, NEW j \in TxIds, Listed(k, j)'
      PROVE  /\ \/ txs'[k][j].nonce = None
                \/ Covered(k, txs'[k][j].from, txs'[k][j].nonce)
             /\ txs'[k][j].status = "Submitted" => Spent(k, txs'[k][j].hash)
  <2>1. CASE k = chain /\ j = i
    <3>1. txs'[k][j] = m
      BY <1>1, <2>1 DEF Rewrites, IsRewritten, Listed
    <3> QED
      BY <2>1, <3>1
  <2>2. CASE ~(k = chain /\ j = i)
    <3>1. Listed(k, j) /\ txs'[k][j] = txs[k][j]
      BY <1>1, <2>2 DEF Rewrites, IsRewritten, Listed
    <3> QED
      BY <3>1, RowCovered
  <2> QED
    BY <2>1, <2>2
<1> QED
  BY <1>1, WalletGapless

\* Writing nothing.
LEMMA QuietGapless ==
  ASSUME Gapless, UNCHANGED networkVars,
         \A k \in Chains, j \in TxIds :
           txs'[k][j] = txs[k][j] \/ txs'[k][j] = None,
         \A c \in calls' : c.type \in {"gas", "publish"} =>
           c \in calls /\ (c.type = "gas" => chain' = chain)
  PROVE  Gapless'
<1>1. ASSUME NEW k \in Chains, NEW j \in TxIds, Listed(k, j)'
      PROVE  Listed(k, j) /\ txs'[k][j] = txs[k][j]
  BY <1>1 DEF Listed
<1> QED
  BY <1>1, RowCovered, WalletGapless

\* Adding a transaction that is covered.
LEMMA AddGapless ==
  ASSUME TypeOK, Gapless, NEW m \in Meta, m.status = "Unapproved",
         m.nonce = None \/ Covered(chain, m.from, m.nonce),
         NEW of, NEW cs \in SUBSET calls,
         ContinueAddUnapprovedTransaction(m, of, cs),
         UNCHANGED <<chain, networkVars>>
  PROVE  Gapless'
<1> DEFINE n == [m EXCEPT !.chain = chain]
<1>1. PICK i \in TxIds : SaveTx(i, n, cs)
  BY DEF ContinueAddUnapprovedTransaction
<1>2. /\ n \in Meta /\ n.status = "Unapproved"
      /\ n.from = m.from /\ n.nonce = m.nonce
  BY DEF TypeOK, Meta
<1> HIDE DEF n
<1>3. Rewrites(i, n) /\ calls' = cs
  BY <1>1, <1>2, SaveTxRewrites DEF SaveTx
<1> QED
  BY <1>2, <1>3, WriteGapless

\* The user's commands, one case for each.
LEMMA UserStepGapless ==
  ASSUME TypeOK, Orderly, Gapless, OwnNonces, UserStep
  PROVE  Gapless'
<1> USE DEF managerVars, trackerVars
<1>0. /\ \A j \in TxIds : Proper(j)
      /\ PatientClients
      /\ chain \in Chains /\ txs \in Stores
  BY DEF Orderly, OwnNonces, TypeOK
<1>1. ASSUME NEW a \in Accounts, NEW signOnly \in BOOLEAN,
             AddUnapprovedTransaction(a, signOnly)
      PROVE  Gapless'
  <2> DEFINE m == [status |-> "Unapproved", from |-> a, nonce |-> None,
                   sig |-> None, hash |-> None, signOnly |-> signOnly,
                   chain |-> chain]
             call == [type |-> "gas", meta |-> m, intent |-> 0]
  <2>1. m \in Meta /\ m.nonce = None /\ m.status = "Unapproved"
    BY <1>0 DEF Meta, Status, Signatures
  <2>2. call.type = "gas" /\ call.meta = m
    OBVIOUS
  <2>3. \/ ContinueAddUnapprovedTransaction(m, 0, calls)
        \/ calls' = calls \cup {call} /\ UNCHANGED <<txs, intent>>
    BY <1>1 DEF AddUnapprovedTransaction
  <2>4. UNCHANGED <<chain, networkVars>>
    BY <1>1 DEF AddUnapprovedTransaction
  <2> HIDE DEF m, call
  <2>5. CASE ContinueAddUnapprovedTransaction(m, 0, calls)
    <3>1. calls \in SUBSET calls
      OBVIOUS
    <3> QED
      BY <2>1, <2>4, <2>5, <3>1, AddGapless
  <2>6. CASE calls' = calls \cup {call} /\ UNCHANGED <<txs, intent>>
    <3>1. ASSUME NEW k \in Chains, NEW j \in TxIds, Listed(k, j)'
          PROVE  Listed(k, j) /\ txs'[k][j] = txs[k][j]
      BY <2>6, <3>1 DEF Listed
    <3> QED
      BY <2>1, <2>2, <2>4, <2>6, <3>1, RowCovered, WalletGapless
  <2> QED
    BY <2>3, <2>5, <2>6
<1>2. ASSUME NEW i \in TxIds, SpeedupOrCancelTransaction(i)
      PROVE  Gapless'
  <2> DEFINE m == [Tx(i) EXCEPT !.status = "Unapproved", !.hash = None,
                                !.signOnly = FALSE, !.sig = Stale]
             call == [type |-> "gas", intent |-> IntentOfCopy(i), meta |-> m]
  <2>1. Tx(i) \in Meta /\ Tx(i) = txs[chain][i] /\ Listed(chain, i)
    BY <1>2, TxType DEF SpeedupOrCancelTransaction, Tx, GetTx, Listed
  <2>2. Tx(i).nonce = None \/ Covered(chain, Tx(i).from, Tx(i).nonce)
    BY <1>0, <2>1, RowCovered
  <2>3. /\ call.type = "gas"
        /\ call.meta.from = Tx(i).from /\ call.meta.nonce = Tx(i).nonce
    BY <2>1 DEF Meta
  <2>4. calls' = calls \cup {call}
    BY <1>2 DEF SpeedupOrCancelTransaction
  <2>5. UNCHANGED <<chain, networkVars, txs>>
    BY <1>2 DEF SpeedupOrCancelTransaction
  <2> HIDE DEF call
  <2>6. ASSUME NEW k \in Chains, NEW j \in TxIds, Listed(k, j)'
        PROVE  Listed(k, j) /\ txs'[k][j] = txs[k][j]
    BY <2>5, <2>6 DEF Listed
  <2> QED
    BY <2>2, <2>3, <2>4, <2>5, <2>6, RowCovered, WalletGapless
<1>3. ASSUME NEW i \in TxIds, RetryTransaction(i)
      PROVE  Gapless'
  <2> DEFINE m == [Tx(i) EXCEPT !.status = "Unapproved", !.hash = None,
                                !.signOnly = FALSE]
  <2>1. Tx(i) \in Meta /\ Tx(i) = txs[chain][i] /\ Listed(chain, i)
    BY <1>3, TxType DEF RetryTransaction, Tx, GetTx, Listed
  <2>2. /\ m \in Meta /\ m.from = Tx(i).from /\ m.nonce = Tx(i).nonce
        /\ m.status = "Unapproved"
    BY <2>1 DEF Meta, Status, Signatures
  <2>3. /\ ContinueAddUnapprovedTransaction(m, IntentOfCopy(i), calls)
        /\ UNCHANGED <<chain, networkVars>>
    BY <1>3 DEF RetryTransaction
  <2> HIDE DEF m
  <2>4. m.nonce = None \/ Covered(chain, m.from, m.nonce)
    BY <1>0, <2>1, <2>2, RowCovered
  <2>5. calls \in SUBSET calls
    OBVIOUS
  <2> QED
    BY <2>2, <2>3, <2>4, <2>5, AddGapless
<1>4. ASSUME NEW i \in TxIds,
             ClientMayCommand(i) \/ ClientMayConfirm(i), NEW m \in Meta,
             m.from = Tx(i).from, m.nonce = Tx(i).nonce,
             m.status # "Submitted", Rewrites(i, m),
             \A c \in calls' :
               \/ c.type \notin {"gas", "publish"}
               \/ c \in calls
               \/ c.type = "publish" /\ c.accepted = FALSE,
             UNCHANGED <<chain, networkVars>>
      PROVE  Gapless'
  <2>1. Tx(i) = txs[chain][i] /\ Listed(chain, i)
    BY <1>0, <1>4, CommandOnListed
  <2>2. m.nonce = None \/ Covered(chain, m.from, m.nonce)
    BY <1>0, <1>4, <2>1, RowCovered
  <2> QED
    BY <1>4, <2>2, WriteGapless
<1>5. ASSUME NEW i \in TxIds,
             ClientMayCommand(i) \/ ClientMayConfirm(i), NEW m \in Meta,
             m.from = Tx(i).from, m.nonce = Tx(i).nonce,
             m.status # "Submitted",
             SaveTx(i, m, calls), UNCHANGED <<chain, networkVars>>
      PROVE  Gapless'
  <2>1. Rewrites(i, m) /\ calls' = calls
    BY <1>5, SaveTxRewrites DEF SaveTx
  <2> QED
    BY <1>4, <1>5, <2>1
<1>6. ASSUME NEW i \in TxIds, SetGasOrDataForUnapprovedTransaction(i)
      PROVE  Gapless'
  <2>1. ClientMayCommand(i)
    BY <1>6 DEF SetGasOrDataForUnapprovedTransaction
  <2>2. Tx(i) \in Meta /\ Tx(i).status = "Unapproved"
    BY <1>0, <2>1, CommandOnListed
  <2>3. /\ Edited(Tx(i)) \in Meta
        /\ Edited(Tx(i)).from = Tx(i).from /\ Edited(Tx(i)).nonce = Tx(i).nonce
        /\ Edited(Tx(i)).status # "Submitted"
    BY <2>2 DEF Edited, Meta, Signatures
  <2> QED
    BY <1>5, <1>6, <2>1, <2>3 DEF SetGasOrDataForUnapprovedTransaction
<1>7. ASSUME NEW i \in TxIds, RejectTransaction(i)
      PROVE  Gapless'
  <2> DEFINE m == [Tx(i) EXCEPT !.status = "Rejected"]
  <2>1. ClientMayConfirm(i)
    BY <1>7 DEF RejectTransaction
  <2>2. Tx(i) \in Meta
    BY <1>0, <2>1, CommandOnListed
  <2>3. /\ m \in Meta /\ m.from = Tx(i).from /\ m.nonce = Tx(i).nonce
        /\ m.status # "Submitted"
    BY <2>2 DEF Meta, Status
  <2>4. SaveTx(i, m, calls) /\ UNCHANGED <<chain, networkVars>>
    BY <1>7 DEF RejectTransaction
  <2> HIDE DEF m
  <2> QED
    BY <1>5, <2>1, <2>3, <2>4
<1>8. ASSUME UNCHANGED networkVars,
             \A k \in Chains, j \in TxIds :
               txs'[k][j] = txs[k][j] \/ txs'[k][j] = None,
             \A c \in calls' : c.type \in {"gas", "publish"} =>
               c \in calls /\ (c.type = "gas" => chain' = chain)
      PROVE  Gapless'
  BY <1>8, QuietGapless
<1>9. ASSUME NEW i \in TxIds, ApproveTransaction(i)
      PROVE  Gapless'
  <2>1. ClientMayConfirm(i) /\ UNCHANGED <<chain, networkVars>>
    BY <1>9 DEF ApproveTransaction
  <2>2. CASE Tx(i).nonce = None
    <3> DEFINE p == [type |-> "nonce", id |-> i, meta |-> Tx(i),
                     chain |-> chain, hardware |-> FALSE,
                     again |-> CommandsOn(i) # {}]
    <3>1. p.type = "nonce"
      OBVIOUS
    <3>2. calls' = calls \cup {p} /\ UNCHANGED txs
      BY <1>9, <2>2 DEF ApproveTransaction
    <3> HIDE DEF p
    <3> QED
      BY <1>8, <2>1, <3>1, <3>2
  <2>3. CASE Tx(i).nonce # None
    <3>1. Tx(i) \in Meta /\ keyring = "unlocked"
      BY <1>0, <2>1, CommandOnListed
    <3>2. Tx(i).nonce \in Nonces
      BY <2>3, <3>1 DEF Meta
    <3>3. Sign(i, Tx(i), chain, Tx(i).nonce, calls)
      BY <1>9, <2>3 DEF ApproveTransaction
    <3>4. PICK w \in Meta :
            /\ w.from = Tx(i).from /\ w.nonce = Tx(i).nonce
            /\ w.status \in {"Approved", "Signed"}
            /\ Rewrites(i, w)
            /\ \/ calls' = calls \cup {[type |-> "publish", id |-> i,
                                        raw |-> SignatureOf(i, w, chain),
                                        chain |-> chain, accepted |-> FALSE]}
               \/ Leaves(calls)
      BY <3>1, <3>2, <3>3, SignEffect
    <3>5. \A c \in calls' :
            \/ c.type \notin {"gas", "publish"}
            \/ c \in calls
            \/ c.type = "publish" /\ c.accepted = FALSE
      BY <3>4 DEF Leaves, FreshReceipt
    <3> QED
      BY <1>4, <2>1, <3>4, <3>5
  <2> QED
    BY <2>2, <2>3
<1>10. ASSUME NEW i \in TxIds, GetNonceForHardwareTransaction(i)
       PROVE  Gapless'
  <2>1. ClientMayConfirm(i) /\ UNCHANGED <<chain, networkVars>>
    BY <1>10 DEF GetNonceForHardwareTransaction
  <2>2. CASE Tx(i).nonce = None
    <3> DEFINE p == [type |-> "nonce", id |-> i, meta |-> Tx(i),
                     chain |-> chain, hardware |-> TRUE,
                     again |-> CommandsOn(i) # {}]
    <3>1. p.type = "nonce"
      OBVIOUS
    <3>2. calls' = calls \cup {p} /\ UNCHANGED txs
      BY <1>10, <2>2 DEF GetNonceForHardwareTransaction
    <3> HIDE DEF p
    <3> QED
      BY <1>8, <2>1, <3>1, <3>2
  <2>3. CASE Tx(i).nonce # None
    <3>1. Tx(i) \in Meta /\ Tx(i).status = "Unapproved"
      BY <1>0, <2>1, CommandOnListed
    <3>2. SaveTx(i, Tx(i), calls)
      BY <1>10, <2>3 DEF GetNonceForHardwareTransaction
    <3> QED
      BY <1>5, <2>1, <3>1, <3>2
  <2> QED
    BY <2>2, <2>3
<1>11. ASSUME NEW i \in TxIds, NEW k \in Chains, ProcessHardwareSignature(i, k)
       PROVE  Gapless'
  <2> DEFINE sig == [id |-> i, from |-> Tx(i).from, nonce |-> Tx(i).nonce,
                     chain |-> k]
             m == [Tx(i) EXCEPT !.status = "Approved", !.sig = sig]
             failed == [Tx(i) EXCEPT !.status = "Error"]
             call == [type |-> "publish", id |-> i, raw |-> sig,
                      chain |-> chain, accepted |-> FALSE]
  <2>1. /\ ClientMayConfirm(i)
        /\ Tx(i).nonce # None
        /\ UNCHANGED <<chain, networkVars>>
    BY <1>11 DEF ProcessHardwareSignature
  <2>2. Tx(i) \in Meta
    BY <1>0, <2>1, CommandOnListed
  <2>3. sig \in Signatures
    BY <2>1, <2>2 DEF Meta, Signatures, SignedTx
  <2>4. /\ m \in Meta /\ m.from = Tx(i).from /\ m.nonce = Tx(i).nonce
        /\ m.status # "Submitted"
    BY <2>2, <2>3 DEF Meta, Status
  <2>5. /\ failed \in Meta /\ failed.status # "Submitted"
        /\ failed.from = Tx(i).from /\ failed.nonce = Tx(i).nonce
    BY <2>2 DEF Meta, Status
  <2>6. SaveTx(i, m, calls \cup {call}) \/ SaveTx(i, failed, calls)
    BY <1>11 DEF ProcessHardwareSignature
  <2>7. call.type = "publish" /\ call.accepted = FALSE
    OBVIOUS
  <2> HIDE DEF sig, m, failed, call
  <2>8. CASE SaveTx(i, failed, calls)
    BY <1>5, <2>1, <2>5, <2>8
  <2>9. CASE SaveTx(i, m, calls \cup {call})
    <3>1. Rewrites(i, m) /\ calls' = calls \cup {call}
      BY <2>4, <2>9, SaveTxRewrites DEF SaveTx
    <3> QED
      BY <1>4, <2>1, <2>4, <2>7, <3>1
  <2> QED
    BY <2>6, <2>8, <2>9
<1>12. CASE RejectAllTransactions
  <2>1. UNCHANGED <<chain, calls, networkVars>>
    BY <1>12 DEF RejectAllTransactions
  <2>2. \A k \in Chains, j \in TxIds :
          txs'[k][j] = IF k = chain /\ Listed(k, j)
                            /\ txs[k][j].status = "Unapproved"
                         THEN [txs[k][j] EXCEPT !.status = "Rejected"]
                         ELSE txs[k][j]
    BY <1>0, <1>12 DEF RejectAllTransactions, Queue, Stores, ByStatus, Listed
  <2>3. ASSUME NEW k \in Chains, NEW j \in TxIds, Listed(k, j)'
        PROVE  /\ Listed(k, j)
               /\ txs'[k][j].from = txs[k][j].from
               /\ txs'[k][j].nonce = txs[k][j].nonce
               /\ txs'[k][j].status = "Submitted" => txs'[k][j] = txs[k][j]
    <3>1. Listed(k, j)
      BY <2>2, <2>3 DEF Listed
    <3>2. txs[k][j] \in Meta
      BY <3>1, ListedType
    <3> QED
      BY <2>2, <3>1, <3>2 DEF Meta
  <2>4. ASSUME NEW k \in Chains, NEW j \in TxIds, Listed(k, j)'
        PROVE  /\ \/ txs'[k][j].nonce = None
                  \/ Covered(k, txs'[k][j].from, txs'[k][j].nonce)
               /\ txs'[k][j].status = "Submitted" => Spent(k, txs'[k][j].hash)
    BY <2>3, <2>4, RowCovered
  <2> QED
    BY <2>1, <2>4, WalletGapless
<1>13. CASE CreateWallet \/ Lock \/ Unlock \/ Restart
  <2>1. /\ UNCHANGED <<networkVars, txs, chain>>
        /\ calls' \subseteq calls
    BY <1>13 DEF CreateWallet, Lock, Unlock, Restart
  <2> QED
    BY <1>8, <2>1
<1>14. NoCommandRuns => \A c \in calls : c.type # "gas"
  BY <1>0 DEF NoCommandRuns, Does, PatientClients, CallsOf
<1>15. ASSUME NEW c \in Chains, SetNetwork(c)
       PROVE  Gapless'
  <2>1. UNCHANGED <<networkVars, txs, calls>> /\ NoCommandRuns
    BY <1>15 DEF SetNetwork
  <2> QED
    BY <1>8, <1>14, <2>1
<1>16. CASE Reset
  <2>1. UNCHANGED <<networkVars, calls>> /\ NoCommandRuns /\ txs' = EmptyStore
    BY <1>16 DEF Reset
  <2>2. \A k \in Chains, j \in TxIds : txs'[k][j] = None
    BY <2>1 DEF EmptyStore
  <2> QED
    BY <1>8, <1>14, <2>1, <2>2
<1>17. \A i \in TxIds, n \in Nonces \cup {None} :
         ~SetNonceForUnapprovedTransaction(i, n)
  BY DEF SetNonceForUnapprovedTransaction, Does, OwnNonces
<1> QED
  BY <1>1, <1>2, <1>3, <1>6, <1>7, <1>9, <1>10, <1>11, <1>12, <1>13, <1>15,
     <1>16, <1>17
  DEF UserStep

\* The callbacks, one case for each.
LEMMA WalletStepGapless ==
  ASSUME TypeOK, Orderly, ChainInOrder, Gapless, WalletStep
  PROVE  Gapless'
<1> USE DEF managerVars, trackerVars
<1>0. /\ \A j \in TxIds : Proper(j)
      /\ chain \in Chains /\ txs \in Stores /\ calls \in SUBSET Calls
  BY DEF Orderly, TypeOK
<1>1. ASSUME UNCHANGED <<chain, networkVars>>,
             \A k \in Chains, j \in TxIds :
               txs'[k][j] = txs[k][j] \/ txs'[k][j] = None,
             \A c \in calls' : c.type \in {"gas", "publish"} => c \in calls
      PROVE  Gapless'
  BY <1>1, QuietGapless
<1>2. ASSUME NEW c \in CallsOf("gas"), OnGetGas(c)
      PROVE  Gapless'
  <2>1. c \in calls /\ c \in GasCalls
    BY <1>0, CallKinds DEF CallsOf
  <2>2. c.meta \in Meta
    BY <2>1 DEF GasCalls
  <2>3. /\ c.meta.status = "Unapproved"
        /\ c.meta.nonce = None \/ Covered(chain, c.meta.from, c.meta.nonce)
    BY DEF Orderly, DraftsAreUnapproved, Gapless, DraftsCovered
  <2>4. UNCHANGED <<chain, networkVars>>
    BY <1>2 DEF OnGetGas
  <2>5. CASE ContinueAddUnapprovedTransaction(c.meta, c.intent, calls \ {c})
    <3>1. calls \ {c} \in SUBSET calls
      OBVIOUS
    <3> QED
      BY <2>2, <2>3, <2>4, <2>5, <3>1, AddGapless
  <2>6. CASE calls' = calls \ {c} /\ UNCHANGED <<txs, intent>>
    BY <1>1, <2>4, <2>6
  <2> QED
    BY <1>2, <2>5, <2>6 DEF OnGetGas
<1>3. ASSUME NEW c \in CallsOf("nonce"), OnGetNextNonce(c)
      PROVE  Gapless'
  <2>1. /\ c.id \in TxIds /\ c.meta \in Meta /\ c.chain = chain
        /\ keyring = "unlocked"
    BY NonceAnswered
  <2>2. PICK reported \in 0 .. netNonce[chain][c.meta.from], n \in Nonces :
          /\ n = GetFinalNonce(txs, chain, c.meta.from, reported)
          /\ Sign(c.id, c.meta, chain, n, calls \ {c})
    BY <1>3, <2>1 DEF OnGetNextNonce
  <2>3. PICK w \in Meta :
          /\ w.from = c.meta.from /\ w.nonce = n
          /\ w.status \in {"Approved", "Signed"}
          /\ Rewrites(c.id, w)
          /\ \/ calls' = (calls \ {c}) \cup
                           {[type |-> "publish", id |-> c.id,
                             raw |-> SignatureOf(c.id, w, chain),
                             chain |-> chain, accepted |-> FALSE]}
             \/ Leaves(calls \ {c})
    BY <2>1, <2>2, SignEffect
  <2>4. Covered(chain, w.from, w.nonce)
    <3>1. c.meta.from \in Accounts
      BY <2>1 DEF Meta
    <3> QED
      BY <2>2, <2>3, <3>1, FinalNonceCovered
  <2>5. \A d \in calls' :
          \/ d.type \notin {"gas", "publish"}
          \/ d \in calls
          \/ d.type = "publish" /\ d.accepted = FALSE
    BY <2>3 DEF Leaves, FreshReceipt
  <2>6. UNCHANGED <<chain, networkVars>>
    BY <1>3 DEF OnGetNextNonce
  <2> QED
    BY <2>1, <2>3, <2>4, <2>5, <2>6, WriteGapless
<1>4. ASSUME NEW c \in CallsOf("nonce"), OnGetNextNonceForHardware(c)
      PROVE  Gapless'
  <2>1. c.id \in TxIds /\ c.meta \in Meta /\ c.chain = chain
    BY NonceAnswered
  <2>2. c.meta.status = "Unapproved"
    BY <1>0, <2>1 DEF Proper, AwaitsNonce
  <2>3. PICK reported \in 0 .. netNonce[chain][c.meta.from], n \in Nonces :
          /\ n = GetFinalNonce(txs, chain, c.meta.from, reported)
          /\ SaveTx(c.id, [c.meta EXCEPT !.nonce = n], calls \ {c})
    BY <1>4, <2>1 DEF OnGetNextNonceForHardware
  <2> DEFINE m == [c.meta EXCEPT !.nonce = n]
  <2>4. /\ m \in Meta /\ m.from = c.meta.from /\ m.nonce = n
        /\ m.status # "Submitted"
    BY <2>1, <2>2 DEF Meta
  <2>5. SaveTx(c.id, m, calls \ {c}) /\ UNCHANGED <<chain, networkVars>>
    BY <1>4, <2>3 DEF OnGetNextNonceForHardware
  <2> HIDE DEF m
  <2>6. Covered(chain, m.from, m.nonce)
    <3>1. c.meta.from \in Accounts
      BY <2>1 DEF Meta
    <3> QED
      BY <2>3, <2>4, <3>1, FinalNonceCovered
  <2>7. Rewrites(c.id, m) /\ calls' = calls \ {c}
    BY <2>1, <2>4, <2>5, SaveTxRewrites DEF SaveTx
  <2> QED
    BY <2>1, <2>4, <2>5, <2>6, <2>7, WriteGapless
<1>5. ASSUME NEW c \in CallsOf("nonce"), OnGetNextNonceFailed(c)
      PROVE  Gapless'
  <2> DEFINE m == [c.meta EXCEPT !.status = "Error"]
  <2>1. c.id \in TxIds /\ c.meta \in Meta
    BY NonceAnswered
  <2>2. c.meta.nonce = None
    BY <1>0, <2>1 DEF Proper, AwaitsNonce
  <2>3. m \in Meta /\ m.nonce = None /\ m.status # "Submitted"
    BY <2>1, <2>2 DEF Meta, Status
  <2>4. SaveTx(c.id, m, calls \ {c}) /\ UNCHANGED <<chain, networkVars>>
    BY <1>5 DEF OnGetNextNonceFailed
  <2> HIDE DEF m
  <2>5. Rewrites(c.id, m) /\ calls' = calls \ {c}
    BY <2>1, <2>3, <2>4, SaveTxRewrites DEF SaveTx
  <2> QED
    BY <2>1, <2>3, <2>4, <2>5, WriteGapless
<1>6. ASSUME NEW i \in TxIds, Listed(chain, i), NEW m \in Meta,
             m.from = txs[chain][i].from, m.nonce = txs[chain][i].nonce,
             m.status = "Submitted" => Spent(chain, m.hash),
             Rewrites(i, m),
             \A c \in calls' : c.type \in {"gas", "publish"} => c \in calls,
             UNCHANGED <<chain, networkVars>>
      PROVE  Gapless'
  <2>1. m.nonce = None \/ Covered(chain, m.from, m.nonce)
    BY <1>0, <1>6, RowCovered
  <2> QED
    BY <1>6, <2>1, WriteGapless
<1>7. ASSUME NEW c \in CallsOf("publish"), OnPublishTransaction(c)
      PROVE  Gapless'
  <2> DEFINE i == c.id
             m == txs[chain][i]
             sent == [m EXCEPT !.status = "Submitted", !.hash = c.raw]
             failed == [m EXCEPT !.status = "Error"]
  <2>1. /\ i \in TxIds /\ m # None /\ m \in Meta /\ Listed(chain, i)
        /\ c.chain = chain
    BY PublishAnswered DEF Listed
  <2>2. c.raw \in Signatures
    BY <1>0, CallKinds DEF CallsOf, PublishCalls
  <2>3. /\ sent \in Meta /\ sent.from = m.from /\ sent.nonce = m.nonce
        /\ sent.hash = c.raw
    BY <2>1, <2>2 DEF Meta, Status
  <2>4. /\ failed \in Meta /\ failed.from = m.from /\ failed.nonce = m.nonce
        /\ failed.status # "Submitted"
    BY <2>1 DEF Meta, Status
  <2>5. \/ /\ c.accepted
           /\ \E s \in AddOrUpdateTx(txs, chain, i, sent) :
                UpdatePendingTransactions(s, calls \ {c}, running)
        \/ SaveTx(i, failed, calls \ {c})
    BY <1>7, <2>1 DEF OnPublishTransaction, PublishFailed, Tx, GetTx
  <2>6. UNCHANGED <<chain, networkVars>>
    BY <1>7 DEF OnPublishTransaction
  <2> HIDE DEF i, m, sent, failed
  <2>7. CASE SaveTx(i, failed, calls \ {c})
    <3>1. Rewrites(i, failed) /\ calls' = calls \ {c}
      BY <2>1, <2>4, <2>7, SaveTxRewrites DEF SaveTx
    <3> QED
      BY <1>6, <2>1, <2>4, <2>6, <3>1 DEF m
  <2>8. CASE /\ c.accepted
             /\ \E s \in AddOrUpdateTx(txs, chain, i, sent) :
                  UpdatePendingTransactions(s, calls \ {c}, running)
    <3>1. PICK s \in AddOrUpdateTx(txs, chain, i, sent) :
            UpdatePendingTransactions(s, calls \ {c}, running)
      BY <2>8
    <3>2. s \in Stores
      BY <1>0, <2>1, <2>3, AddOrUpdateType
    <3>3. IsRewritten(txs, s, chain, i, sent)
      BY <1>0, <2>1, <2>3, AddOrUpdateRewrites
    <3>4. Rewrites(i, sent) /\ Leaves(calls \ {c})
      BY <2>1, <3>1, <3>2, <3>3, UpdateAfterWrite
    <3>5. \A d \in calls' : d.type \in {"gas", "publish"} => d \in calls
      BY <3>4 DEF Leaves, FreshReceipt
    <3>6. Spent(chain, sent.hash)
      BY <2>1, <2>3, <2>8 DEF Gapless, AcceptedIsSpent
    <3> QED
      BY <1>6, <2>1, <2>3, <2>6, <3>4, <3>5, <3>6 DEF m
  <2> QED
    BY <2>5, <2>7, <2>8
<1>8. ASSUME NEW c \in CallsOf("receipt"), OnGetTxReceipt(c)
      PROVE  Gapless'
  <2> DEFINE i == c.id
             m == txs[chain][i]
             sure == [m EXCEPT !.status = "Confirmed"]
  <2>1. i \in TxIds /\ m # None /\ m \in Meta /\ Listed(chain, i)
    <3>1. i \in TxIds
      BY <1>0, CallKinds DEF CallsOf, ReceiptCalls
    <3> QED
      BY <1>0, <1>8, <3>1, ListedType DEF OnGetTxReceipt, Tx, GetTx, Listed
  <2>2. /\ sure \in Meta /\ sure.from = m.from /\ sure.nonce = m.nonce
        /\ sure.status # "Submitted"
    BY <2>1 DEF Meta, Status
  <2>3. UNCHANGED <<chain, networkVars>>
    BY <1>8 DEF OnGetTxReceipt
  <2>4. \/ SaveTx(i, sure, calls \ {c})
        \/ ShouldTxDropped(i, m, calls \ {c})
    BY <1>8 DEF OnGetTxReceipt, Tx, GetTx
  <2> HIDE DEF i, m, sure
  <2>5. CASE SaveTx(i, sure, calls \ {c})
    <3>1. Rewrites(i, sure) /\ calls' = calls \ {c}
      BY <2>1, <2>2, <2>5, SaveTxRewrites DEF SaveTx
    <3> QED
      BY <1>6, <2>1, <2>2, <2>3, <3>1 DEF m
  <2>6. CASE ShouldTxDropped(i, m, calls \ {c})
    <3>1. txs' = txs \/ txs' = DeleteTx(txs, chain, i)
      BY <2>6 DEF ShouldTxDropped
    <3>2. \A k \in Chains, j \in TxIds :
            txs'[k][j] = txs[k][j] \/ txs'[k][j] = None
      BY <1>0, <2>1, <3>1, PutRows DEF DeleteTx
    <3>3. \A d \in calls' : d \in calls \/ d.type = "count"
      BY <2>6 DEF ShouldTxDropped
    <3> QED
      BY <1>1, <2>3, <3>2, <3>3
  <2> QED
    BY <2>4, <2>5, <2>6
<1>9. CASE \/ \E c \in CallsOf("receipt") : OnNoTxReceipt(c)
           \/ \E c \in CallsOf("count") : OnGetNetworkNonce(c)
           \/ GetBlockNumber
           \/ OnNoNewBlock
  <2>1. UNCHANGED <<chain, txs, networkVars>> /\ calls' \subseteq calls
    BY <1>9 DEF OnNoTxReceipt, OnGetNetworkNonce, GetBlockNumber, OnNoNewBlock
  <2> QED
    BY <1>1, <2>1
<1>10. CASE OnNewBlock \/ OnKeyringNotice
  <2>1. UNCHANGED <<chain, networkVars>>
    BY <1>10 DEF OnNewBlock, OnKeyringNotice
  <2>2. \/ UNCHANGED <<txs, calls>>
        \/ \E run : UpdatePendingTransactions(txs, calls, run)
    BY <1>10 DEF OnNewBlock, OnKeyringNotice
  <2>3. CASE \E run : UpdatePendingTransactions(txs, calls, run)
    <3>1. /\ \A k \in Chains, j \in TxIds :
               txs'[k][j] = txs[k][j] \/ txs'[k][j] = None
          /\ Leaves(calls)
      BY <1>0, <2>3, UpdatePendingRows
    <3> QED
      BY <1>1, <2>1, <3>1 DEF Leaves, FreshReceipt
  <2> QED
    BY <1>1, <2>1, <2>2, <2>3
<1> QED
  BY <1>2, <1>3, <1>4, <1>5, <1>7, <1>8, <1>9, <1>10 DEF WalletStep

\* A nonce that passes keeps what is covered and what is spent.
LEMMA UseNonceCovers ==
  ASSUME TypeOK, NEW c \in Chains, NEW b \in Accounts, UseNonce(c, b)
  PROVE  /\ \A k \in Chains, a \in Accounts, n \in Nat :
              Covered(k, a, n) => Covered(k, a, n)'
         /\ \A k \in Chains, r \in SignedTx : Spent(k, r) => Spent(k, r)'
<1>1. ASSUME NEW k \in Chains, NEW a \in Accounts, NEW n \in Nat,
             Covered(k, a, n)
      PROVE  Covered(k, a, n)'
  <2> SUFFICES ASSUME NEW m \in netNonce'[k][a] .. (n - 1)
               PROVE  \E q \in pool'[k] : q.from = a /\ q.nonce = m
    BY DEF Covered
  <2>1. /\ netNonce[k][a] \in Nat
        /\ netNonce'[k][a] = IF k = c /\ a = b THEN netNonce[k][a] + 1
                                               ELSE netNonce[k][a]
    BY UseNonceEffect
  <2>2. m \in netNonce[k][a] .. (n - 1)
    BY <2>1
  <2>3. PICK q \in pool[k] : q.from = a /\ q.nonce = m
    BY <1>1, <2>2 DEF Covered
  <2>4. ~(k = c /\ q.from = b /\ q.nonce = netNonce[c][b])
    BY <2>1, <2>3
  <2>5. q \in pool'[k]
    BY <2>3, <2>4, UseNonceEffect
  <2> QED
    BY <2>3, <2>5
<1>2. ASSUME NEW k \in Chains, NEW r \in SignedTx, Spent(k, r)
      PROVE  Spent(k, r)'
  <2>1. r.from \in Accounts /\ r.nonce \in Nat
    BY DEF SignedTx, Nonces
  <2>2. /\ netNonce[k][r.from] \in Nat
        /\ netNonce'[k][r.from] =
             IF k = c /\ r.from = b THEN netNonce[k][r.from] + 1
                                    ELSE netNonce[k][r.from]
    BY <2>1, UseNonceEffect
  <2>3. CASE r.nonce < netNonce[k][r.from]
    BY <2>1, <2>2, <2>3 DEF Spent
  <2>4. CASE r \in pool[k]
    <3>1. CASE k = c /\ r.from = b /\ r.nonce = netNonce[c][b]
      BY <2>1, <2>2, <3>1 DEF Spent
    <3>2. CASE ~(k = c /\ r.from = b /\ r.nonce = netNonce[c][b])
      <4>1. r \in pool'[k]
        BY <2>4, <3>2, UseNonceEffect
      <4> QED
        BY <4>1 DEF Spent
    <3> QED
      BY <3>1, <3>2
  <2> QED
    BY <1>2, <2>3, <2>4 DEF Spent
<1> QED
  BY <1>1, <1>2

\* A step of the nodes that keeps what is covered and what is spent.
LEMMA NodesGapless ==
  ASSUME TypeOK, Orderly, Gapless, UNCHANGED <<chain, txs>>,
         \A k \in Chains, a \in Accounts, n \in Nat :
           Covered(k, a, n) => Covered(k, a, n)',
         \A k \in Chains, r \in SignedTx : Spent(k, r) => Spent(k, r)',
         \A k \in Chains : \A r \in pool'[k] :
           \/ r \in pool[k]
           \/ r \in SignedTx /\ Covered(k, r.from, r.nonce),
         \A c \in calls' :
           \/ c \in calls
           \/ /\ c.type = "publish"
              /\ c.chain \in Chains /\ c.raw \in SignedTx
              /\ Spent(c.chain, c.raw)'
  PROVE  Gapless'
<1>0. /\ chain \in Chains /\ calls \in SUBSET Calls
      /\ pool \in [Chains -> SUBSET SignedTx]
      /\ \A j \in TxIds : Proper(j)
  BY DEF TypeOK, Orderly
<1>1. ASSUME NEW k \in Chains, NEW a \in Accounts, NEW n \in Nat,
             Covered(k, a, n)
      PROVE  \A m \in netNonce'[k][a] .. (n - 1) :
               \E q \in pool'[k] : q.from = a /\ q.nonce = m
  <2>1. Covered(k, a, n)'
    BY <1>1
  <2> QED
    BY <2>1 DEF Covered
<1>2. ASSUME NEW k \in Chains, NEW r \in SignedTx, Spent(k, r)
      PROVE  r \in pool'[k] \/ r.nonce < netNonce'[k][r.from]
  BY <1>2 DEF Spent
<1>3. \A m \in Meta : m.nonce # None => m.from \in Accounts /\ m.nonce \in Nat
  BY DEF Meta, Nonces
<1>4. \A r \in SignedTx : r.from \in Accounts /\ r.nonce \in Nat
  BY DEF SignedTx, Nonces
<1>5. RowsCovered'
  <2> SUFFICES ASSUME NEW k \in Chains, NEW i \in TxIds, Listed(k, i),
                      txs[k][i].nonce # None
               PROVE  \A m \in netNonce'[k][txs[k][i].from]
                               .. (txs[k][i].nonce - 1) :
                        \E q \in pool'[k] : /\ q.from = txs[k][i].from
                                            /\ q.nonce = m
    BY DEF RowsCovered, Covered, Listed
  <2>1. txs[k][i].from \in Accounts /\ txs[k][i].nonce \in Nat
    BY <1>3, ListedType
  <2>2. Covered(k, txs[k][i].from, txs[k][i].nonce)
    BY DEF Gapless, RowsCovered
  <2> QED
    BY <1>1, <2>1, <2>2
<1>6. DraftsCovered'
  <2> SUFFICES ASSUME NEW c \in calls', c.type = "gas", c.meta.nonce # None
               PROVE  \A m \in netNonce'[chain][c.meta.from]
                               .. (c.meta.nonce - 1) :
                        \E q \in pool'[chain] : /\ q.from = c.meta.from
                                                /\ q.nonce = m
    BY DEF DraftsCovered, Covered, CallsOf
  <2>1. c \in calls
    OBVIOUS
  <2>2. c.meta.from \in Accounts /\ c.meta.nonce \in Nat
    <3>1. c.meta \in Meta
      BY <1>0, <2>1, CallKinds DEF GasCalls
    <3> QED
      BY <1>3, <3>1
  <2>3. Covered(chain, c.meta.from, c.meta.nonce)
    BY <2>1 DEF Gapless, DraftsCovered, CallsOf
  <2> QED
    BY <1>0, <1>1, <2>2, <2>3
<1>7. PoolCovered'
  <2> SUFFICES ASSUME NEW k \in Chains, NEW r \in pool'[k]
               PROVE  \A m \in netNonce'[k][r.from] .. (r.nonce - 1) :
                        \E q \in pool'[k] : q.from = r.from /\ q.nonce = m
    BY DEF PoolCovered, Covered
  <2>1. r \in SignedTx /\ Covered(k, r.from, r.nonce)
    BY <1>0 DEF Gapless, PoolCovered
  <2> QED
    BY <1>1, <1>4, <2>1
<1>8. SubmittedIsSpent'
  <2> SUFFICES ASSUME NEW k \in Chains, NEW i \in TxIds, Listed(k, i),
                      txs[k][i].status = "Submitted"
               PROVE  LET r == txs[k][i].hash
                      IN  r \in pool'[k] \/ r.nonce < netNonce'[k][r.from]
    BY DEF SubmittedIsSpent, Spent, Listed
  <2>1. txs[k][i].hash = SignatureOf(i, txs[k][i], k) /\ txs[k][i].nonce # None
    BY <1>0 DEF Proper, OutIsSealed, Out
  <2>2. txs[k][i].hash \in SignedTx
    <3>1. txs[k][i] \in Meta
      BY ListedType
    <3> QED
      BY <2>1, <3>1 DEF SignatureOf, SignedTx, Meta
  <2>3. Spent(k, txs[k][i].hash)
    BY DEF Gapless, SubmittedIsSpent
  <2> QED
    BY <1>2, <2>2, <2>3
<1>9. AcceptedIsSpent'
  <2> SUFFICES ASSUME NEW c \in calls', c.type = "publish", c.accepted
               PROVE  \/ c.raw \in pool'[c.chain]
                      \/ c.raw.nonce < netNonce'[c.chain][c.raw.from]
    BY DEF AcceptedIsSpent, Spent, CallsOf
  <2>1. CASE c \in calls
    <3>1. c \in CallsOf("publish")
      BY <2>1 DEF CallsOf
    <3>2. /\ c.id \in TxIds /\ c.chain = chain /\ Listed(chain, c.id)
          /\ txs[chain][c.id] \in Meta /\ txs[chain][c.id].nonce # None
          /\ c.raw = SignatureOf(c.id, txs[chain][c.id], chain)
      BY <3>1, PublishAnswered
    <3>3. c.raw \in SignedTx
      BY <1>0, <3>2 DEF SignatureOf, SignedTx, Meta
    <3>4. Spent(chain, c.raw)
      BY <3>1, <3>2 DEF Gapless, AcceptedIsSpent
    <3> QED
      BY <1>0, <1>2, <3>2, <3>3, <3>4
  <2>2. CASE c \notin calls
    BY <2>2 DEF Spent
  <2> QED
    BY <2>1, <2>2
<1> QED
  BY <1>5, <1>6, <1>7, <1>8, <1>9 DEF Gapless

\* The nodes, one case for each of their steps.
LEMMA NetworkStepGapless ==
  ASSUME TypeOK, Orderly, Gapless, NetworkStep
  PROVE  Gapless'
<1> USE DEF managerVars, trackerVars
<1>0. /\ \A j \in TxIds : Proper(j)
      /\ chain \in Chains
      /\ pool \in [Chains -> SUBSET SignedTx]
  BY DEF Orderly, TypeOK
<1>1. ASSUME NEW k \in Chains, NEW r \in SignedTx, netNonce' = netNonce,
             pool' = [pool EXCEPT ![k] = @ \cup {r}]
      PROVE  /\ \A l \in Chains, a \in Accounts, n \in Nat :
                  Covered(l, a, n) => Covered(l, a, n)'
             /\ \A l \in Chains, q \in SignedTx : Spent(l, q) => Spent(l, q)'
             /\ \A l \in Chains : \A q \in pool'[l] :
                  q \in pool[l] \/ (l = k /\ q = r)
             /\ Spent(k, r)'
  <2>1. \A l \in Chains : /\ pool[l] \subseteq pool'[l]
                          /\ \A q \in pool'[l] :
                               q \in pool[l] \/ (l = k /\ q = r)
    BY <1>0, <1>1
  <2>2. r \in pool'[k]
    BY <1>0, <1>1
  <2>3. \A l \in Chains, a \in Accounts, n \in Nat :
          Covered(l, a, n) => Covered(l, a, n)'
    BY <1>1, <2>1 DEF Covered
  <2>4. \A l \in Chains, q \in SignedTx : Spent(l, q) => Spent(l, q)'
    BY <1>1, <2>1 DEF Spent
  <2> QED
    BY <2>1, <2>2, <2>3, <2>4 DEF Spent
<1>2. ASSUME NEW k \in Chains, NEW i \in TxIds, Listed(k, i),
             txs[k][i].nonce # None, NEW r, r = SignatureOf(i, txs[k][i], k)
      PROVE  r \in SignedTx /\ Covered(k, r.from, r.nonce)
  <2>1. txs[k][i] \in Meta
    BY <1>2, ListedType
  <2>2. Covered(k, txs[k][i].from, txs[k][i].nonce)
    BY <1>2 DEF Gapless, RowsCovered
  <2> QED
    BY <1>2, <2>1, <2>2 DEF SignatureOf, SignedTx, Meta
<1>3. ASSUME NEW c \in CallsOf("publish"), NodeAccepts(c)
      PROVE  Gapless'
  <2> DEFINE d == [c EXCEPT !.accepted = TRUE]
             r == c.raw
  <2>1. /\ c.id \in TxIds /\ c.chain = chain /\ Listed(chain, c.id)
        /\ txs[chain][c.id].nonce # None
        /\ r = SignatureOf(c.id, txs[chain][c.id], chain)
    BY PublishAnswered
  <2>2. d.type = "publish" /\ d.chain = chain /\ d.raw = r
    <3>1. c \in PublishCalls /\ c.type = "publish"
      BY CallKinds DEF TypeOK, CallsOf
    <3> QED
      BY <2>1, <3>1 DEF PublishCalls
  <2>3. /\ UNCHANGED <<chain, txs, netNonce>>
        /\ calls' = (calls \ {c}) \cup {d}
        /\ pool' = [pool EXCEPT ![chain] = @ \cup {r}]
    BY <1>3, <2>1 DEF NodeAccepts
  <2>4. r \in SignedTx /\ Covered(chain, r.from, r.nonce)
    BY <1>0, <1>2, <2>1
  <2> HIDE DEF d, r
  <2>5. /\ \A l \in Chains, a \in Accounts, n \in Nat :
             Covered(l, a, n) => Covered(l, a, n)'
        /\ \A l \in Chains, q \in SignedTx : Spent(l, q) => Spent(l, q)'
        /\ \A l \in Chains : \A q \in pool'[l] :
             q \in pool[l] \/ (l = chain /\ q = r)
        /\ r \in pool'[chain]
    BY <1>0, <1>1, <2>3, <2>4
  <2>6. Spent(d.chain, d.raw)'
    BY <2>2, <2>3, <2>5 DEF Spent
  <2> QED
    BY <1>0, <2>2, <2>3, <2>4, <2>5, <2>6, NodesGapless
<1>4. ASSUME NEW k \in Chains, NEW i \in TxIds, PageBroadcasts(k, i)
      PROVE  Gapless'
  <2> DEFINE h == txs[k][i].hash
  <2>1. Listed(k, i) /\ txs[k][i].status = "Signed"
    BY <1>4 DEF PageBroadcasts, ByStatus, Listed
  <2>2. h = SignatureOf(i, txs[k][i], k) /\ txs[k][i].nonce # None
    BY <1>0, <2>1 DEF Proper, OutIsSealed, Out
  <2>3. /\ UNCHANGED <<chain, txs, calls, netNonce>>
        /\ pool' = [pool EXCEPT ![k] = @ \cup {h}]
    BY <1>4 DEF PageBroadcasts
  <2>4. h \in SignedTx /\ Covered(k, h.from, h.nonce)
    BY <1>2, <2>1, <2>2
  <2> HIDE DEF h
  <2>5. /\ \A l \in Chains, a \in Accounts, n \in Nat :
             Covered(l, a, n) => Covered(l, a, n)'
        /\ \A l \in Chains, q \in SignedTx : Spent(l, q) => Spent(l, q)'
        /\ \A l \in Chains : \A q \in pool'[l] :
             q \in pool[l] \/ (l = k /\ q = h)
    BY <1>1, <2>3, <2>4
  <2> QED
    BY <2>3, <2>4, <2>5, NodesGapless
<1>5. ASSUME NEW k \in Chains, NEW a \in Accounts, UseNonce(k, a),
             UNCHANGED <<chain, txs, calls>>
      PROVE  Gapless'
  <2>1. \A l \in Chains : pool'[l] \subseteq pool[l]
    BY <1>5, UseNonceEffect
  <2> QED
    BY <1>5, <2>1, UseNonceCovers, NodesGapless
<1>6. ASSUME NEW k \in Chains, NEW raw \in pool[k], Mine(k, raw)
      PROVE  Gapless'
  <2>1. raw.from \in Accounts
    BY <1>0 DEF SignedTx
  <2> QED
    BY <1>5, <1>6, <2>1 DEF Mine
<1>7. ASSUME NEW k \in Chains, NEW a \in Accounts, OutsideTx(k, a)
      PROVE  Gapless'
  BY <1>5, <1>7 DEF OutsideTx
<1> QED
  BY <1>3, <1>4, <1>6, <1>7 DEF NetworkStep

\* With nonces of the wallet's own, nothing waits for a nonce that is not used:
\* neither in the pool nor on the list, nor what waits for its gas price.
LEMMA AlwaysGapless ==
  ASSUME OwnNonces
  PROVE  Spec => []Gapless
<1>1. TypeOK /\ Orderly /\ ChainInOrder /\ Gapless /\ [Next]_vars => Gapless'
  <2> SUFFICES ASSUME TypeOK, Orderly, ChainInOrder, Gapless, [Next]_vars
               PROVE  Gapless'
    OBVIOUS
  <2>1. CASE UNCHANGED vars
    BY <2>1, QuietGapless DEF vars
  <2> QED
    BY <2>1, UserStepGapless, WalletStepGapless, NetworkStepGapless DEF Next
<1>2. Init => Gapless
  <2> SUFFICES ASSUME Init PROVE Gapless
    OBVIOUS
  <2>1. /\ calls = {}
        /\ \A k \in Chains : pool[k] = {}
        /\ \A k \in Chains, i \in TxIds : ~Listed(k, i)
    BY DEF Init, Listed, EmptyStore
  <2> QED
    BY <2>1 DEF Gapless, RowsCovered, DraftsCovered, PoolCovered,
                SubmittedIsSpent, AcceptedIsSpent, CallsOf
<1>3. Spec => []Orderly
  BY AlwaysOrderly DEF OwnNonces
<1> QED
  BY <1>1, <1>2, <1>3, ChainAlwaysInOrder, TypeCorrect, PTL DEF Spec

\* The nonces the wallet picks leave no gap, whatever the nodes report and
\* answer, the session interrupts and other wallets send: no transaction in
\* the pool waits for a nonce that nothing in the pool uses (GetFinalNonce).
THEOREM NoncesNeverGap ==
  ASSUME OwnNonces
  PROVE  Spec => []NoNonceGap
<1>1. TypeOK /\ Gapless => NoNonceGap
  <2> SUFFICES ASSUME TypeOK, Gapless, NEW c \in Chains, NEW r \in pool[c],
                      NEW n \in netNonce[c][r.from] .. r.nonce
               PROVE  \E q \in pool[c] : q.from = r.from /\ q.nonce = n
    BY DEF NoNonceGap
  <2>1. r \in SignedTx
    BY DEF TypeOK
  <2>2. netNonce[c][r.from] \in Nat /\ r.nonce \in Nat
    BY <2>1 DEF TypeOK, SignedTx, Nonces
  <2>3. CASE n = r.nonce
    BY <2>3
  <2>4. CASE n # r.nonce
    <3>1. n \in netNonce[c][r.from] .. (r.nonce - 1)
      BY <2>2, <2>4
    <3> QED
      BY <3>1 DEF Gapless, PoolCovered, Covered
  <2> QED
    BY <2>3, <2>4
<1> QED
  BY <1>1, AlwaysGapless, TypeCorrect, PTL
-----------------------------------------------------------------------------
(* What is dropped from the list.  IsNonceTaken does not ask who sent the  *)
(* confirmed transaction, so this is for a wallet with one account.        *)

OneAccount == \A a, b \in Accounts : a = b

\* The nonce of transaction j is spent, and not by j itself.
Dead(k, j) ==
  /\ txs[k][j].hash \notin mined[k]
  /\ netNonce[k][txs[k][j].from] > txs[k][j].nonce

OnlyTheDeadGo ==
  \A k \in Chains : \A j \in Pending(txs, k) : txs'[k][j] = None => Dead(k, j)

\* The dictionaries s keep the pending transactions of the list as they are,
\* and confirm none it does not.
KeepsPending(s) ==
  \A k \in Chains, j \in TxIds :
    /\ IsPending(txs[k][j]) => s[k][j] = txs[k][j]
    /\ s[k][j] # None /\ s[k][j].status = "Confirmed" => s[k][j] = txs[k][j]

\* Storing a transaction takes no pending one off the list: what is retired
\* is confirmed or rejected.
LEMMA StoringKeepsPending ==
  ASSUME NEW s \in Stores, NEW c \in Chains, NEW i \in TxIds, NEW m \in Meta,
         NEW t \in AddOrUpdateTx(s, c, i, m),
         NEW k \in Chains, NEW j \in TxIds, IsPending(s[k][j])
  PROVE  t[k][j] = IF k = c /\ j = i THEN m ELSE s[k][j]
<1> DEFINE p == Put(s, c, i, m)
<1>1. p \in Stores /\ p[k][j] = IF k = c /\ j = i THEN m ELSE s[k][j]
  BY PutType, PutRows
<1> HIDE DEF p
<1>2. CASE t = p
  BY <1>1, <1>2
<1>3. ASSUME s[c][i] = None,
             NEW u \in RetireTxByStatus(p, c, "Confirmed"),
             t \in RetireTxByStatus(u, c, "Rejected")
      PROVE  t[k][j] = p[k][j]
  <2>1. IsPending(p[k][j])
    BY <1>1, <1>3 DEF IsPending
  <2>2. u \in Stores
    BY <1>1, RetireType
  <2>3. u[k][j] = p[k][j]
    BY <1>1, <2>1, RetireRows DEF IsPending
  <2>4. t[k][j] = u[k][j]
    BY <1>3, <2>1, <2>2, <2>3, RetireRows DEF IsPending
  <2> QED
    BY <2>3, <2>4
<1> QED
  BY <1>1, <1>2, <1>3 DEF AddOrUpdateTx, GetTx, p

LEMMA SavingDropsNone ==
  ASSUME TypeOK, NEW i \in TxIds, NEW m \in Meta, NEW cs, SaveTx(i, m, cs)
  PROVE  OnlyTheDeadGo
<1> SUFFICES ASSUME NEW k \in Chains, NEW j \in Pending(txs, k)
             PROVE  txs'[k][j] # None
  BY DEF OnlyTheDeadGo
<1>1. txs \in Stores /\ chain \in Chains /\ m # None
  BY NoMetaAssumption DEF TypeOK
<1>2. j \in TxIds /\ IsPending(txs[k][j])
  BY <1>1, PendingRows
<1>3. txs' \in AddOrUpdateTx(txs, chain, i, m)
  BY DEF SaveTx
<1>4. txs'[k][j] = IF k = chain /\ j = i THEN m ELSE txs[k][j]
  BY <1>1, <1>2, <1>3, StoringKeepsPending
<1> QED
  BY <1>1, <1>2, <1>4 DEF IsPending

\* A transaction that was not pending is written as one that is not confirmed.
LEMMA WritingKeepsPending ==
  ASSUME TypeOK, NEW i \in TxIds, NEW m \in Meta, m.status # "Confirmed",
         ~IsPending(txs[chain][i]), NEW s \in AddOrUpdateTx(txs, chain, i, m)
  PROVE  s \in Stores /\ KeepsPending(s)
<1>1. txs \in Stores /\ chain \in Chains
  BY DEF TypeOK
<1>2. s \in Stores
  BY <1>1, AddOrUpdateType
<1>3. IsRewritten(txs, s, chain, i, m)
  BY <1>1, AddOrUpdateRewrites
<1>4. ASSUME NEW k \in Chains, NEW j \in TxIds, IsPending(txs[k][j])
      PROVE  s[k][j] = txs[k][j]
  BY <1>1, <1>4, StoringKeepsPending
<1>5. ASSUME NEW k \in Chains, NEW j \in TxIds,
             s[k][j] # None, s[k][j].status = "Confirmed"
      PROVE  s[k][j] = txs[k][j]
  BY <1>3, <1>5 DEF IsRewritten
<1> QED
  BY <1>2, <1>4, <1>5 DEF KeepsPending

\* A transaction whose nonce a confirmed one of the same account has is dead:
\* the nodes use a nonce once, and the two are not the same transaction.
LEMMA TakenIsDead ==
  ASSUME TypeOK, Orderly, ChainInOrder, OneAccount, NEW k \in Chains,
         NEW j \in TxIds, IsPending(txs[k][j]), IsNonceTaken(txs, k, j)
  PROVE  Dead(k, j)
<1>1. PICK l \in TxIds : /\ Listed(k, l) /\ txs[k][l].status = "Confirmed"
                         /\ l # j /\ txs[k][l].nonce = txs[k][j].nonce
  BY DEF IsNonceTaken, ByStatus, Listed
<1>2. Listed(k, j) /\ txs[k][j].status \in Out /\ Proper(j) /\ Proper(l)
  BY DEF IsPending, Listed, Out, Orderly
<1>3. txs[k][l].hash \in mined[k]
  BY <1>1, <1>2 DEF Proper, ConfirmedIsMined
<1>4. /\ txs[k][l].hash = SignatureOf(l, txs[k][l], k)
      /\ txs[k][j].hash = SignatureOf(j, txs[k][j], k)
  BY <1>1, <1>2 DEF Proper, OutIsSealed, Out
<1>5. txs[k][l].from = txs[k][j].from
  BY <1>1, <1>2, ListedType DEF Meta, OneAccount
<1>6. netNonce[k][txs[k][j].from] > txs[k][j].nonce
  <2>1. txs[k][l].hash.from = txs[k][j].from
    BY <1>4, <1>5 DEF SignatureOf
  <2>2. txs[k][l].hash.nonce = txs[k][j].nonce
    BY <1>1, <1>4 DEF SignatureOf
  <2>3. txs[k][l].hash.nonce < netNonce[k][txs[k][l].hash.from]
    BY <1>3 DEF ChainInOrder
  <2> QED
    BY <2>1, <2>2, <2>3
<1>7. txs[k][j].hash \notin mined[k]
  <2> SUFFICES ASSUME txs[k][j].hash \in mined[k] PROVE FALSE
    OBVIOUS
  <2>1. /\ txs[k][j].hash.from = txs[k][l].hash.from
        /\ txs[k][j].hash.nonce = txs[k][l].hash.nonce
    BY <1>1, <1>4, <1>5 DEF SignatureOf
  <2>2. txs[k][j].hash = txs[k][l].hash
    BY <1>3, <2>1 DEF ChainInOrder
  <2>3. txs[k][j].hash.id = j /\ txs[k][l].hash.id = l
    BY <1>4 DEF SignatureOf
  <2> QED
    BY <1>1, <2>2, <2>3
<1> QED
  BY <1>6, <1>7 DEF Dead

\* So a round of updates drops the dead alone.
LEMMA UpdateDropsTheDead ==
  ASSUME TypeOK, Orderly, ChainInOrder, OneAccount,
         NEW s \in Stores, KeepsPending(s), NEW cs, NEW run,
         UpdatePendingTransactions(s, cs, run)
  PROVE  OnlyTheDeadGo
<1> DEFINE taken == {i \in Pending(s, chain) : IsNonceTaken(s, chain, i)}
<1> SUFFICES ASSUME NEW k \in Chains, NEW j \in Pending(txs, k),
                    txs'[k][j] = None
             PROVE  Dead(k, j)
  BY DEF OnlyTheDeadGo
<1>1. txs \in Stores /\ chain \in Chains
  BY DEF TypeOK
<1>2. j \in TxIds /\ IsPending(txs[k][j])
  BY <1>1, PendingRows
<1>3. s[k][j] = txs[k][j] /\ s[k][j] # None
  BY <1>2 DEF KeepsPending, IsPending
<1>4. k = chain /\ j \in taken
  <2>1. txs' = DeleteAll(s, chain, taken)
    BY DEF UpdatePendingTransactions
  <2> HIDE DEF taken
  <2>2. txs'[k][j] = IF k = chain /\ j \in taken THEN None ELSE s[k][j]
    BY <1>1, <1>2, <2>1 DEF DeleteAll, Stores
  <2> QED
    BY <1>3, <2>2
<1>5. PICK l \in TxIds : /\ s[k][l] # None /\ s[k][l].status = "Confirmed"
                         /\ l # j /\ s[k][l].nonce = s[k][j].nonce
  BY <1>4 DEF IsNonceTaken, ByStatus
<1>6. s[k][l] = txs[k][l]
  BY <1>5 DEF KeepsPending
<1>7. IsNonceTaken(txs, k, j)
  BY <1>3, <1>5, <1>6 DEF IsNonceTaken, ByStatus
<1> QED
  BY <1>2, <1>7, TakenIsDead

LEMMA UpdateAloneDropsTheDead ==
  ASSUME TypeOK, Orderly, ChainInOrder, OneAccount, NEW cs, NEW run,
         UpdatePendingTransactions(txs, cs, run)
  PROVE  OnlyTheDeadGo
<1>1. txs \in Stores /\ KeepsPending(txs)
  BY DEF TypeOK, KeepsPending
<1> QED
  BY <1>1, UpdateDropsTheDead

\* Signing may be followed by a round of updates.
LEMMA SigningDropsTheDead ==
  ASSUME TypeOK, Orderly, ChainInOrder, OneAccount, NEW i \in TxIds,
         NEW m \in Meta, NEW n \in Nonces, NEW cs, Sign(i, m, chain, n, cs),
         keyring = "unlocked", ~IsPending(txs[chain][i])
  PROVE  OnlyTheDeadGo
<1> DEFINE sig == [id |-> i, from |-> m.from, nonce |-> n, chain |-> chain]
           approved == [m EXCEPT !.status = "Approved", !.nonce = n,
                                 !.sig = sig]
           signed == [approved EXCEPT !.status = "Signed", !.hash = sig]
<1>1. chain \in Chains /\ txs \in Stores
  BY DEF TypeOK
<1>2. sig \in SignedTx /\ sig \in Signatures /\ sig # None
  BY <1>1, SignatureAssumption DEF Signatures, SignedTx, Meta
<1>3. approved \in Meta /\ approved.status = "Approved"
  BY <1>2 DEF Meta, Status
<1>4. signed \in Meta /\ signed.status = "Signed"
  BY <1>2, <1>3 DEF Meta, Status
<1>5. \/ \E s \in AddOrUpdateTx(txs, chain, i, approved) :
           UpdatePendingTransactions(Put(s, chain, i, signed), cs, running)
      \/ \E ds : SaveTx(i, approved, ds)
  BY <1>2 DEF Sign
<1> HIDE DEF sig, approved, signed
<1>6. ASSUME NEW s \in AddOrUpdateTx(txs, chain, i, approved),
             UpdatePendingTransactions(Put(s, chain, i, signed), cs, running)
      PROVE  OnlyTheDeadGo
  <2>1. s \in Stores /\ KeepsPending(s)
    BY <1>3, WritingKeepsPending
  <2>2. Put(s, chain, i, signed) \in Stores
    BY <1>1, <1>4, <2>1, PutType
  <2>3. \A k \in Chains, j \in TxIds :
          Put(s, chain, i, signed)[k][j] =
            IF k = chain /\ j = i THEN signed ELSE s[k][j]
    BY <1>1, <2>1, PutRows
  <2>4. KeepsPending(Put(s, chain, i, signed))
    BY <1>4, <2>1, <2>3 DEF KeepsPending
  <2> QED
    BY <1>6, <2>2, <2>4, UpdateDropsTheDead
<1> QED
  BY <1>3, <1>5, <1>6, SavingDropsNone

\* Adding a transaction drops none.
LEMMA AddingDropsNone ==
  ASSUME TypeOK, NEW m \in Meta, NEW of, NEW cs,
         ContinueAddUnapprovedTransaction(m, of, cs)
  PROVE  OnlyTheDeadGo
<1>1. PICK i \in TxIds : SaveTx(i, [m EXCEPT !.chain = chain], cs)
  BY DEF ContinueAddUnapprovedTransaction
<1>2. [m EXCEPT !.chain = chain] \in Meta
  BY DEF TypeOK, Meta
<1> QED
  BY <1>1, <1>2, SavingDropsNone

LEMMA KeepingDropsNone ==
  ASSUME TypeOK, UNCHANGED txs
  PROVE  OnlyTheDeadGo
BY PendingRows DEF TypeOK, OnlyTheDeadGo, IsPending

LEMMA UserStepDropsNone ==
  ASSUME TypeOK, Orderly, ChainInOrder, PatientClients, OneAccount,
         UserStep, keyring' # "none"
  PROVE  OnlyTheDeadGo
<1>0. chain \in Chains /\ txs \in Stores /\ NumTxs \in Nat
  BY StoreAssumption DEF TypeOK
<1>1. ASSUME NEW i \in TxIds, ClientMayCommand(i) \/ ClientMayConfirm(i)
      PROVE  /\ Tx(i) \in Meta /\ keyring = "unlocked"
             /\ ~IsPending(txs[chain][i])
  BY <1>1, CommandOnListed DEF Orderly, IsPending
<1>2. ASSUME NEW a \in Accounts, NEW signOnly \in BOOLEAN,
             AddUnapprovedTransaction(a, signOnly)
      PROVE  OnlyTheDeadGo
  <2> DEFINE m == [status |-> "Unapproved", from |-> a, nonce |-> None,
                   sig |-> None, hash |-> None, signOnly |-> signOnly,
                   chain |-> chain]
  <2>1. m \in Meta
    BY <1>0 DEF Meta, Status, Signatures
  <2>2. ContinueAddUnapprovedTransaction(m, 0, calls) \/ UNCHANGED txs
    BY <1>2 DEF AddUnapprovedTransaction
  <2> HIDE DEF m
  <2> QED
    BY <2>1, <2>2, AddingDropsNone, KeepingDropsNone
<1>3. ASSUME NEW i \in TxIds, RetryTransaction(i)
      PROVE  OnlyTheDeadGo
  <2> DEFINE m == [Tx(i) EXCEPT !.status = "Unapproved", !.hash = None,
                                !.signOnly = FALSE]
  <2>1. m \in Meta
    BY <1>3, TxType DEF RetryTransaction, Meta, Status, Signatures
  <2>2. ContinueAddUnapprovedTransaction(m, IntentOfCopy(i), calls)
    BY <1>3 DEF RetryTransaction
  <2> HIDE DEF m
  <2> QED
    BY <2>1, <2>2, AddingDropsNone
<1>4. ASSUME NEW i \in TxIds, NEW n \in Nonces \cup {None},
             \/ SetGasOrDataForUnapprovedTransaction(i)
             \/ SetNonceForUnapprovedTransaction(i, n)
      PROVE  OnlyTheDeadGo
  <2>1. ClientMayCommand(i)
    BY <1>4 DEF SetGasOrDataForUnapprovedTransaction,
                SetNonceForUnapprovedTransaction
  <2>2. /\ Edited(Tx(i)) \in Meta
        /\ [Edited(Tx(i)) EXCEPT !.nonce = n] \in Meta
    BY <1>1, <2>1 DEF Edited, Meta, Signatures
  <2> QED
    BY <1>4, <2>2, SavingDropsNone
    DEF SetGasOrDataForUnapprovedTransaction, SetNonceForUnapprovedTransaction
<1>5. ASSUME NEW i \in TxIds, RejectTransaction(i)
      PROVE  OnlyTheDeadGo
  <2> DEFINE m == [Tx(i) EXCEPT !.status = "Rejected"]
  <2>1. ClientMayConfirm(i) /\ SaveTx(i, m, calls)
    BY <1>5 DEF RejectTransaction
  <2>2. m \in Meta
    BY <1>1, <2>1 DEF Meta, Status
  <2> HIDE DEF m
  <2> QED
    BY <2>1, <2>2, SavingDropsNone
<1>6. ASSUME NEW i \in TxIds, ApproveTransaction(i)
      PROVE  OnlyTheDeadGo
  <2>1. ClientMayConfirm(i)
    BY <1>6 DEF ApproveTransaction
  <2>2. CASE Tx(i).nonce = None
    BY <1>6, <2>2, KeepingDropsNone DEF ApproveTransaction
  <2>3. CASE Tx(i).nonce # None
    <3>1. Tx(i).nonce \in Nonces
      BY <1>1, <2>1, <2>3 DEF Meta
    <3>2. Sign(i, Tx(i), chain, Tx(i).nonce, calls)
      BY <1>6, <2>3 DEF ApproveTransaction
    <3> QED
      BY <1>1, <2>1, <3>1, <3>2, SigningDropsTheDead
  <2> QED
    BY <2>2, <2>3
<1>7. ASSUME NEW i \in TxIds, GetNonceForHardwareTransaction(i)
      PROVE  OnlyTheDeadGo
  <2>1. /\ ClientMayConfirm(i)
        /\ SaveTx(i, Tx(i), calls) \/ UNCHANGED txs
    BY <1>7 DEF GetNonceForHardwareTransaction
  <2> QED
    BY <1>1, <2>1, SavingDropsNone, KeepingDropsNone
<1>8. ASSUME NEW i \in TxIds, NEW k \in Chains, ProcessHardwareSignature(i, k)
      PROVE  OnlyTheDeadGo
  <2> DEFINE sig == [id |-> i, from |-> Tx(i).from, nonce |-> Tx(i).nonce,
                     chain |-> k]
             m == [Tx(i) EXCEPT !.status = "Approved", !.sig = sig]
             failed == [Tx(i) EXCEPT !.status = "Error"]
  <2>1. ClientMayConfirm(i) /\ Tx(i).nonce # None
    BY <1>8 DEF ProcessHardwareSignature
  <2>2. sig \in Signatures
    BY <1>1, <2>1 DEF Meta, Signatures, SignedTx
  <2>3. m \in Meta /\ failed \in Meta
    BY <1>1, <2>1, <2>2 DEF Meta, Status
  <2>4. \E cs : SaveTx(i, m, cs) \/ SaveTx(i, failed, cs)
    BY <1>8 DEF ProcessHardwareSignature
  <2> HIDE DEF m, failed
  <2> QED
    BY <2>3, <2>4, SavingDropsNone
<1>9. CASE RejectAllTransactions
  <2> SUFFICES ASSUME NEW k \in Chains, NEW j \in Pending(txs, k)
               PROVE  txs'[k][j] # None
    BY DEF OnlyTheDeadGo
  <2>1. j \in TxIds /\ IsPending(txs[k][j])
    BY <1>0, PendingRows
  <2>2. j \notin ByStatus(txs, k, "Unapproved")
    BY <2>1 DEF ByStatus, IsPending
  <2>3. txs'[k][j] = txs[k][j]
    BY <1>0, <1>9, <2>1, <2>2 DEF RejectAllTransactions, Queue, Stores
  <2> QED
    BY <2>1, <2>3 DEF IsPending
<1>10. CASE \/ \E i \in TxIds : SpeedupOrCancelTransaction(i)
            \/ CreateWallet \/ Lock \/ Unlock
            \/ \E c \in Chains : SetNetwork(c)
            \/ Restart
  <2>1. UNCHANGED txs
    BY <1>10 DEF SpeedupOrCancelTransaction, CreateWallet, Lock, Unlock,
                 SetNetwork, Restart
  <2> QED
    BY <2>1, KeepingDropsNone
<1>11. ~Reset
  BY DEF Reset
<1> QED
  BY <1>2, <1>3, <1>4, <1>5, <1>6, <1>7, <1>8, <1>9, <1>10, <1>11 DEF UserStep

\* A callback drops the dead alone: those whose nonce a confirmed transaction
\* has, and those the chain has mined as failed.
LEMMA WalletStepDropsTheDead ==
  ASSUME TypeOK, Orderly, ChainInOrder, OneAccount, WalletStep
  PROVE  OnlyTheDeadGo
<1>0. chain \in Chains /\ txs \in Stores
  BY DEF TypeOK
<1>1. ASSUME NEW c \in CallsOf("gas"), OnGetGas(c)
      PROVE  OnlyTheDeadGo
  <2>1. c.meta \in Meta
    BY CallKinds DEF TypeOK, CallsOf, GasCalls
  <2>2. \/ ContinueAddUnapprovedTransaction(c.meta, c.intent, calls \ {c})
        \/ UNCHANGED txs
    BY <1>1 DEF OnGetGas
  <2> QED
    BY <2>1, <2>2, AddingDropsNone, KeepingDropsNone
<1>2. ASSUME NEW c \in CallsOf("nonce")
      PROVE  /\ c.id \in TxIds /\ c.meta \in Meta /\ c.chain = chain
             /\ keyring = "unlocked"
             /\ ~IsPending(txs[chain][c.id])
  <2>1. /\ c.id \in TxIds /\ c.meta \in Meta /\ c.chain = chain
        /\ keyring = "unlocked"
    BY NonceAnswered
  <2>2. AwaitsNonce(c.id)
    BY <2>1 DEF Orderly, Proper
  <2> QED
    BY <2>1, <2>2 DEF AwaitsNonce, Listed, IsPending
<1>3. ASSUME NEW c \in CallsOf("nonce"), OnGetNextNonce(c)
      PROVE  OnlyTheDeadGo
  <2>1. PICK n \in Nonces : Sign(c.id, c.meta, c.chain, n, calls \ {c})
    BY <1>3 DEF OnGetNextNonce
  <2> QED
    BY <1>2, <2>1, SigningDropsTheDead
<1>4. ASSUME NEW c \in CallsOf("nonce"), OnGetNextNonceForHardware(c)
      PROVE  OnlyTheDeadGo
  <2>1. PICK n \in Nonces :
          SaveTx(c.id, [c.meta EXCEPT !.nonce = n], calls \ {c})
    BY <1>4 DEF OnGetNextNonceForHardware
  <2>2. [c.meta EXCEPT !.nonce = n] \in Meta
    BY <1>2 DEF Meta
  <2> QED
    BY <1>2, <2>1, <2>2, SavingDropsNone
<1>5. ASSUME NEW c \in CallsOf("nonce"), OnGetNextNonceFailed(c)
      PROVE  OnlyTheDeadGo
  <2>1. [c.meta EXCEPT !.status = "Error"] \in Meta
    BY <1>2 DEF Meta, Status
  <2>2. SaveTx(c.id, [c.meta EXCEPT !.status = "Error"], calls \ {c})
    BY <1>5 DEF OnGetNextNonceFailed
  <2> QED
    BY <1>2, <2>1, <2>2, SavingDropsNone
<1>6. ASSUME NEW c \in CallsOf("publish"), OnPublishTransaction(c)
      PROVE  OnlyTheDeadGo
  <2> DEFINE i == c.id
             m == txs[chain][i]
             sent == [m EXCEPT !.status = "Submitted", !.hash = c.raw]
             failed == [m EXCEPT !.status = "Error"]
  <2>1. i \in TxIds /\ m # None /\ m \in Meta /\ m.status = "Approved"
    BY PublishAnswered DEF Listed
  <2>2. c.raw \in Signatures
    BY CallKinds DEF TypeOK, CallsOf, PublishCalls
  <2>3. /\ sent \in Meta /\ sent.status = "Submitted"
        /\ failed \in Meta
    BY <2>1, <2>2 DEF Meta, Status
  <2>4. Tx(i) = m
    BY DEF Tx, GetTx
  <2>5. \/ \E s \in AddOrUpdateTx(txs, chain, i, sent) :
             UpdatePendingTransactions(s, calls \ {c}, running)
        \/ SaveTx(i, failed, calls \ {c})
    BY <1>6, <2>1, <2>4 DEF OnPublishTransaction, PublishFailed
  <2>6. ~IsPending(txs[chain][i])
    BY <2>1 DEF IsPending
  <2> HIDE DEF i, m, sent, failed
  <2>7. ASSUME NEW s \in AddOrUpdateTx(txs, chain, i, sent),
               UpdatePendingTransactions(s, calls \ {c}, running)
        PROVE  OnlyTheDeadGo
    <3>1. s \in Stores /\ KeepsPending(s)
      BY <2>1, <2>3, <2>6, WritingKeepsPending
    <3> QED
      BY <2>7, <3>1, UpdateDropsTheDead
  <2> QED
    BY <2>1, <2>3, <2>5, <2>7, SavingDropsNone
<1>7. ASSUME NEW c \in CallsOf("receipt"), OnGetTxReceipt(c)
      PROVE  OnlyTheDeadGo
  <2> DEFINE i == c.id
             m == txs[chain][i]
             sure == [m EXCEPT !.status = "Confirmed"]
  <2>1. c \in calls /\ c.type = "receipt" /\ i \in TxIds
    BY CallKinds DEF TypeOK, CallsOf, ReceiptCalls
  <2>2. Tx(i) = m /\ Listed(chain, i)
    BY <1>7 DEF OnGetTxReceipt, Tx, GetTx, Listed
  <2>3. m \in Meta
    BY <1>0, <2>1, <2>2, ListedType
  <2>4. sure \in Meta
    BY <2>3 DEF Meta, Status
  <2>5. \/ SaveTx(i, sure, calls \ {c})
        \/ /\ c.hash \in reverted[c.chain]
           /\ ShouldTxDropped(i, m, calls \ {c})
    BY <1>7, <2>2 DEF OnGetTxReceipt
  <2>6. Proper(i)
    BY <2>1 DEF Orderly
  <2>7. c.chain = chain /\ m.status \in Out /\ m.hash = c.hash
    BY <1>0, <2>2, <2>6 DEF Proper, ReceiptsFit
  <2>8. m.hash = SignatureOf(i, m, chain)
    BY <1>0, <2>2, <2>6, <2>7 DEF Proper, OutIsSealed
  <2> HIDE DEF i, sure
  <2>9. ASSUME m.hash \in reverted[chain], ShouldTxDropped(i, m, calls \ {c})
        PROVE  OnlyTheDeadGo
    <3>1. /\ m.hash \notin mined[chain]
          /\ m.hash.nonce < netNonce[chain][m.hash.from]
      BY <1>0, <2>9 DEF ChainInOrder
    <3>2. m.hash.nonce = m.nonce /\ m.hash.from = m.from
      BY <2>8 DEF SignatureOf
    <3>3. m.nonce \in Nat /\ netNonce[chain][m.from] \in Nat
      <4>1. m.from \in Accounts /\ netNonce[chain][m.from] \in Nonces
        BY <1>0, <2>3 DEF Meta, TypeOK
      <4>2. m.hash \in SignedTx
        BY <1>0, <2>9 DEF TypeOK
      <4> QED
        BY <3>2, <4>1, <4>2 DEF SignedTx, Nonces
    <3>4. Dead(chain, i)
      BY <3>1, <3>2, <3>3 DEF Dead
    <3>5. txs' = txs \/ txs' = DeleteTx(txs, chain, i)
      BY <2>9 DEF ShouldTxDropped
    <3>6. ASSUME txs' = DeleteTx(txs, chain, i),
                 NEW k \in Chains, NEW j \in Pending(txs, k),
                 txs'[k][j] = None
          PROVE  Dead(k, j)
      <4>1. j \in TxIds /\ txs[k][j] # None
        BY <1>0, PendingRows DEF IsPending
      <4>2. txs'[k][j] = IF k = chain /\ j = i THEN None ELSE txs[k][j]
        BY <1>0, <2>1, <3>6, <4>1, PutRows DEF DeleteTx
      <4> QED
        BY <3>4, <3>6, <4>1, <4>2
    <3> QED
      BY <3>5, <3>6, KeepingDropsNone DEF OnlyTheDeadGo
  <2> QED
    BY <2>1, <2>4, <2>5, <2>7, <2>9, SavingDropsNone
<1>8. CASE \/ \E c \in CallsOf("receipt") : OnNoTxReceipt(c)
           \/ \E c \in CallsOf("count") : OnGetNetworkNonce(c)
           \/ GetBlockNumber
           \/ OnNoNewBlock
  <2>1. UNCHANGED txs
    BY <1>8 DEF OnNoTxReceipt, OnGetNetworkNonce, GetBlockNumber, OnNoNewBlock
  <2> QED
    BY <2>1, KeepingDropsNone
<1>9. CASE OnNewBlock
  BY <1>9, UpdateAloneDropsTheDead DEF OnNewBlock
<1>10. CASE OnKeyringNotice
  <2>1. \/ UNCHANGED txs
        \/ \E run : UpdatePendingTransactions(txs, calls, run)
    BY <1>10 DEF OnKeyringNotice
  <2> QED
    BY <2>1, UpdateAloneDropsTheDead, KeepingDropsNone
<1> QED
  BY <1>1, <1>3, <1>4, <1>5, <1>6, <1>7, <1>8, <1>9, <1>10 DEF WalletStep

\* A step takes a pending transaction off the list only if its nonce is spent
\* and it was not the one that was mined successfully, for a wallet with one
\* account: nothing that may still be mined is forgotten (IsNonceTaken,
\* ShouldTxDropped).
THEOREM DroppedAlwaysDead ==
  ASSUME PatientClients, OneAccount
  PROVE  Spec => DroppedIsDead
<1>1. NetworkStep => UNCHANGED txs
  BY DEF NetworkStep, NodeAccepts, PageBroadcasts, Mine, OutsideTx
<1>2. ASSUME TypeOK, Orderly, ChainInOrder, [Next]_vars, keyring' # "none"
      PROVE  OnlyTheDeadGo
  <2>1. CASE UNCHANGED vars
    BY <1>2, <2>1, KeepingDropsNone DEF vars
  <2>2. CASE Next
    BY <1>1, <1>2, <2>2, UserStepDropsNone, WalletStepDropsTheDead,
       KeepingDropsNone DEF Next
  <2> QED
    BY <1>2, <2>1, <2>2
<1>3. TypeOK /\ Orderly /\ ChainInOrder /\ [Next]_vars
        => [keyring' # "none" =>
              \A c \in Chains : \A i \in Pending(txs, c) :
                txs'[c][i] = None =>
                  /\ txs[c][i].hash \notin mined[c]
                  /\ netNonce[c][txs[c][i].from] > txs[c][i].nonce]_vars
  BY <1>2 DEF OnlyTheDeadGo, Dead
<1> QED
  BY <1>3, TypeCorrect, AlwaysOrderly, ChainAlwaysInOrder, PTL
  DEF Spec, DroppedIsDead
=============================================================================
