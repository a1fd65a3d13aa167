------------------------ MODULE EthTxClients_proofs ------------------------
(***************************************************************************)
(* What EthTxManager does for clients that wait: the user does not confirm *)
(* or reject a transaction again before the answer to its confirmation,    *)
(* and the wallet is not locked, switched to another network or reset      *)
(* while a command runs.  They may edit it meanwhile, and reject           *)
(* everything that is queued.  For every number of transactions, networks, *)
(* accounts and nonces, and whatever else the clients, the nodes and the   *)
(* session do.                                                             *)
(***************************************************************************)
EXTENDS EthTxManager_proofs

PatientClients == Ops \cap {"interrupt", "reconfirm"} = {}

-----------------------------------------------------------------------------
(* The inductive invariant: of every transaction, how its listing, the     *)
(* requests on it and what has been sent of it fit together.               *)

\* The signed transaction that m, stored under id i, makes on network k.
SignatureOf(i, m, k) ==
  [id |-> i, from |-> m.from, nonce |-> m.nonce, chain |-> k]

Listed(k, i) == txs[k][i] # None

\* What the nodes of network k have taken.
Sent(k) == pool[k] \cup mined[k] \cup reverted[k]

RequestTypes == {"nonce", "publish", "receipt"}

\* An id that was never given to a transaction appears nowhere.
UnusedIsUnknown(i) ==
  intent[i] = 0 =>
    /\ \A c \in calls : c.type \in RequestTypes => c.id # i
    /\ \A k \in Chains : ~Listed(k, i) /\ \A r \in Sent(k) : r.id # i

\* A transaction is listed under one network only.
ListedOnce(i) ==
  \A k, l \in Chains : Listed(k, i) /\ Listed(l, i) => k = l

\* A transaction that is out carries the hash of its own signature, and no
\* command on it is pending.
OutIsSealed(i) ==
  \A k \in Chains : Listed(k, i) /\ txs[k][i].status \in Out =>
    /\ txs[k][i].nonce # None
    /\ txs[k][i].hash = SignatureOf(i, txs[k][i], k)
    /\ CommandsOn(i) = {}

ConfirmedIsMined(i) ==
  \A k \in Chains : Listed(k, i) /\ txs[k][i].status = "Confirmed" =>
    txs[k][i].hash \in mined[k]

\* At most one command runs on a transaction, on the selected network.
OneCommand(i) == \A c, d \in CommandsOn(i) : c = d

CommandsAreHere(i) ==
  \A c \in CommandsOn(i) :
    /\ c.chain = chain
    /\ \A k \in Chains : Listed(k, i) => k = chain

\* While its nonce is asked for, what is captured of a transaction is
\* unapproved without a nonce, and no receipt is asked for.  What is listed
\* may have been edited, or rejected with all the others, meanwhile.
AwaitsNonce(i) ==
  \A c \in CallsOf("nonce") : c.id = i =>
    /\ c.meta.status = "Unapproved"
    /\ c.meta.nonce = None
    /\ \A d \in CallsOf("receipt") : d.id # i
    /\ Listed(chain, i) => txs[chain][i].status \in {"Unapproved", "Rejected"}

\* While it is published, a transaction is approved, and what is published is
\* its signature.
AwaitsPublish(i) ==
  \A c \in CallsOf("publish") : c.id = i =>
    /\ Listed(chain, i)
    /\ txs[chain][i].status = "Approved"
    /\ txs[chain][i].nonce # None
    /\ c.raw = SignatureOf(i, txs[chain][i], chain)

\* A receipt asked for is that of the transaction still listed, if any.
ReceiptsFit(i) ==
  \A c \in CallsOf("receipt") : c.id = i =>
    \A k \in Chains : Listed(k, i) =>
      /\ k = c.chain
      /\ txs[k][i].status \in Out
      /\ txs[k][i].hash = c.hash

\* What the nodes have taken is neither waiting for the user nor rejected.
SentIsApproved(i) ==
  \A k \in Chains : \A r \in Sent(k) : r.id = i =>
    /\ \A c \in CallsOf("nonce") : c.id # i
    /\ \A l \in Chains :
         Listed(l, i) => txs[l][i].status \notin {"Unapproved", "Rejected"}

Proper(i) ==
  /\ UnusedIsUnknown(i)
  /\ ListedOnce(i)
  /\ OutIsSealed(i)
  /\ ConfirmedIsMined(i)
  /\ OneCommand(i)
  /\ CommandsAreHere(i)
  /\ AwaitsNonce(i)
  /\ AwaitsPublish(i)
  /\ ReceiptsFit(i)
  /\ SentIsApproved(i)

DraftsAreUnapproved == \A c \in CallsOf("gas") : c.meta.status = "Unapproved"

NoncesComeUnlocked == CallsOf("nonce") # {} => keyring = "unlocked"

Orderly ==
  /\ DraftsAreUnapproved
  /\ NoncesComeUnlocked
  /\ AssertionsHold
  /\ \A i \in TxIds : Proper(i)

-----------------------------------------------------------------------------
(* One transaction *)

\* What is listed is a transaction.
LEMMA ListedType ==
  ASSUME TypeOK, NEW k \in Chains, NEW i \in TxIds, Listed(k, i)
  PROVE  txs[k][i] \in Meta
BY DEF TypeOK, Stores, Listed

\* An unapproved transaction has not been sent and no receipt is asked for.
LEMMA UnapprovedIsFresh ==
  ASSUME TypeOK, NEW i \in TxIds, Proper(i),
         Listed(chain, i), txs[chain][i].status = "Unapproved"
  PROVE  /\ \A c \in calls : c.type \in RequestTypes /\ c.id = i
                               => c \in CommandsOn(i)
         /\ \A k \in Chains : \A r \in Sent(k) : r.id # i
         /\ \A k \in Chains : Listed(k, i) => k = chain
         /\ intent[i] # 0
<1>1. chain \in Chains
  BY DEF TypeOK
<1>2. ASSUME NEW c \in calls, c.type = "receipt", c.id = i
      PROVE  FALSE
  <2>1. txs[chain][i].status \in Out
    BY <1>1, <1>2 DEF Proper, ReceiptsFit, CallsOf
  <2> QED
    BY <2>1 DEF Out
<1>3. \A k \in Chains : \A r \in Sent(k) : r.id # i
  BY <1>1 DEF Proper, SentIsApproved
<1>4. \A k \in Chains : Listed(k, i) => k = chain
  BY <1>1 DEF Proper, ListedOnce
<1>5. intent[i] # 0
  BY <1>1 DEF Proper, UnusedIsUnknown
<1> QED
  BY <1>2, <1>3, <1>4, <1>5 DEF CommandsOn, CallsOf, RequestTypes

\* What a client gives a command on is listed as unapproved.
LEMMA CommandOnListed ==
  ASSUME TypeOK, NEW i \in TxIds, ClientMayCommand(i) \/ ClientMayConfirm(i)
  PROVE  /\ Tx(i) = txs[chain][i]
         /\ Tx(i) \in Meta
         /\ Listed(chain, i)
         /\ Tx(i).status = "Unapproved"
         /\ keyring = "unlocked"
<1>1. Tx(i) \in Meta /\ Tx(i).status = "Unapproved" /\ keyring = "unlocked"
  BY CommandOnQueue
<1>2. Tx(i) = txs[chain][i]
  BY DEF Tx, GetTx
<1> QED
  BY <1>1, <1>2, NoMetaAssumption DEF Listed

\* A client that waits confirms or rejects only without a command under way.
LEMMA ConfirmOnIdle ==
  ASSUME TypeOK, PatientClients, NEW i \in TxIds, Proper(i), ClientMayConfirm(i)
  PROVE  /\ \A c \in calls : c.type \in RequestTypes => c.id # i
         /\ \A k \in Chains : \A r \in Sent(k) : r.id # i
         /\ \A k \in Chains : Listed(k, i) => k = chain
         /\ intent[i] # 0
<1>1. CommandsOn(i) = {}
  BY DEF PatientClients, ClientMayConfirm, Does
<1>2. Listed(chain, i) /\ txs[chain][i].status = "Unapproved"
  BY CommandOnListed
<1> QED
  BY <1>1, <1>2, UnapprovedIsFresh

\* A step after which transaction i is listed as before, or dropped, and
\* requests and nodes know no more of it, apart from new requests for its
\* receipt.
LeavesAlone(i) ==
  /\ chain' = chain
  /\ intent'[i] = intent[i]
  /\ \A k \in Chains :
       \/ txs'[k][i] = txs[k][i]
       \/ k = chain /\ MayGo(txs[k][i]) /\ txs'[k][i] = None
  /\ \A c \in calls' : c.type \in RequestTypes /\ c.id = i =>
       c \in calls \/ FreshReceipt(c)
  /\ \A k \in Chains : mined[k] \subseteq mined'[k]
  /\ \A k \in Chains : \A r \in Sent(k)' : r.id = i => r \in Sent(k)

\* Such a step leaves the transaction proper.
LEMMA StaysProper ==
  ASSUME TypeOK, NEW i \in TxIds, Proper(i), LeavesAlone(i)
  PROVE  Proper(i)'
<1>0. chain \in Chains /\ chain' = chain
  BY DEF TypeOK, LeavesAlone
<1>1. \A k \in Chains : Listed(k, i)' => Listed(k, i) /\ txs'[k][i] = txs[k][i]
  BY DEF LeavesAlone, Listed, MayGo
<1>2. \A c \in CommandsOn(i)' : c \in CommandsOn(i)
  BY DEF LeavesAlone, CommandsOn, CallsOf, RequestTypes, FreshReceipt
<1>3. \A c \in calls' : c.type \in RequestTypes /\ c.id = i =>
         \/ c \in calls
         \/ /\ FreshReceipt(c)
            /\ Listed(chain, i)
            /\ txs[chain][i].status \in Out
            /\ txs[chain][i].hash = c.hash
            /\ c.chain = chain
  <2>1. ASSUME NEW c \in calls', FreshReceipt(c), c.id = i
        PROVE  /\ Listed(chain, i)
               /\ txs[chain][i].status \in Out
               /\ txs[chain][i].hash = c.hash
               /\ c.chain = chain
    <3>1. Listed(chain, i)'
      BY <1>0, <2>1 DEF FreshReceipt, Listed
    <3>2. txs'[chain][i] = txs[chain][i]
      BY <1>0, <1>1, <3>1 DEF Listed
    <3> QED
      BY <2>1, <3>2 DEF FreshReceipt, Listed
  <2> QED
    BY <2>1 DEF LeavesAlone
<1>4. \A k \in Chains : \A r \in Sent(k)' : r.id = i => r \in Sent(k)
  BY DEF LeavesAlone
<1>5. UnusedIsUnknown(i)'
  <2>1. ASSUME intent[i] = 0
        PROVE  /\ \A c \in calls' : c.type \in RequestTypes => c.id # i
               /\ \A k \in Chains : ~Listed(k, i)' /\ \A r \in Sent(k)' : r.id # i
    <3>1. /\ \A c \in calls : c.type \in RequestTypes => c.id # i
          /\ \A k \in Chains : ~Listed(k, i) /\ \A r \in Sent(k) : r.id # i
      BY <2>1 DEF Proper, UnusedIsUnknown
    <3> QED
      BY <1>0, <1>1, <1>3, <1>4, <3>1
  <2> QED
    BY <2>1 DEF UnusedIsUnknown, LeavesAlone
<1>6. ListedOnce(i)'
  BY <1>1 DEF ListedOnce, Proper
<1>7. OutIsSealed(i)'
  BY <1>1, <1>2 DEF OutIsSealed, Proper, SignatureOf
<1>8. ConfirmedIsMined(i)'
  BY <1>1 DEF ConfirmedIsMined, Proper, LeavesAlone
<1>9. OneCommand(i)'
  BY <1>2 DEF OneCommand, Proper
<1>10. CommandsAreHere(i)'
  BY <1>0, <1>1, <1>2 DEF CommandsAreHere, Proper
<1>11. \A c \in CallsOf("nonce")' : c.id = i => c \in CallsOf("nonce")
  BY DEF LeavesAlone, CallsOf, RequestTypes, FreshReceipt
<1>12. \A c \in CallsOf("publish")' : c.id = i => c \in CallsOf("publish")
  BY DEF LeavesAlone, CallsOf, RequestTypes, FreshReceipt
<1>13. AwaitsNonce(i)'
  <2>1. Listed(chain, i) /\ txs[chain][i].status = "Unapproved"
           => txs'[chain][i] = txs[chain][i]
    BY <1>0 DEF LeavesAlone, MayGo, Out
  <2>2. ASSUME NEW c \in CallsOf("nonce")', c.id = i,
               NEW d \in CallsOf("receipt")', d.id = i
        PROVE  FALSE
    <3>1. c \in CallsOf("nonce")
      BY <1>11, <2>2
    <3>2. \/ d \in CallsOf("receipt")
          \/ Listed(chain, i) /\ txs[chain][i].status \in Out
      BY <1>3, <2>2 DEF CallsOf, RequestTypes
    <3> QED
      BY <1>0, <2>2, <3>1, <3>2 DEF AwaitsNonce, Proper, Out
  <2> QED
    BY <1>0, <1>1, <1>11, <2>1, <2>2 DEF AwaitsNonce, Proper, Listed
<1>14. AwaitsPublish(i)'
  <2>1. Listed(chain, i) /\ txs[chain][i].status = "Approved"
           => txs'[chain][i] = txs[chain][i]
    BY <1>0 DEF LeavesAlone, MayGo, Out
  <2> QED
    BY <1>0, <1>12, <2>1 DEF AwaitsPublish, Proper, Listed, SignatureOf
<1>15. ReceiptsFit(i)'
  <2> SUFFICES ASSUME NEW c \in calls', c.type = "receipt", c.id = i,
                      NEW k \in Chains, Listed(k, i)'
               PROVE  /\ k = c.chain
                      /\ txs'[k][i].status \in Out
                      /\ txs'[k][i].hash = c.hash
    BY DEF ReceiptsFit, CallsOf
  <2>1. Listed(k, i) /\ txs'[k][i] = txs[k][i]
    BY <1>1
  <2>2. CASE c \in calls
    BY <2>1, <2>2 DEF ReceiptsFit, Proper, CallsOf
  <2>3. CASE c \notin calls
    <3>1. /\ Listed(chain, i)
          /\ txs[chain][i].status \in Out
          /\ txs[chain][i].hash = c.hash
          /\ c.chain = chain
      BY <1>3, <2>3 DEF RequestTypes
    <3>2. k = chain
      BY <1>0, <2>1, <3>1 DEF Proper, ListedOnce
    <3> QED
      BY <2>1, <3>1, <3>2
  <2> QED
    BY <2>2, <2>3
<1>16. SentIsApproved(i)'
  BY <1>1, <1>4, <1>11 DEF SentIsApproved, Proper
<1> QED
  BY <1>5, <1>6, <1>7, <1>8, <1>9, <1>10, <1>13, <1>14, <1>15, <1>16 DEF Proper

\* A handler writes transaction i under the selected network, where alone it
\* may be listed.
Writes(i, m) ==
  /\ Rewrites(i, m)
  /\ chain' = chain
  /\ UNCHANGED networkVars
  /\ intent'[i] # 0
  /\ \A k \in Chains : Listed(k, i) => k = chain

\* What is then listed is what was written.
LEMMA WrittenRow ==
  ASSUME TypeOK, NEW i \in TxIds, NEW m, Writes(i, m),
         NEW k \in Chains, Listed(k, i)'
  PROVE  k = chain /\ txs'[k][i] = m
BY DEF Writes, Rewrites, IsRewritten, Listed

\* Writing a transaction no command runs on any more, sealed if it is out and
\* never sent if it is rejected or back at the user, leaves it proper.
LEMMA WrittenIdle ==
  ASSUME TypeOK, NEW i \in TxIds, NEW m \in Meta, Writes(i, m),
         \A c \in calls' : c.type \in RequestTypes /\ c.id = i =>
           \/ FreshReceipt(c)
           \/ /\ c.type = "receipt" /\ c.chain = chain
              /\ m.status \in Out /\ m.hash = c.hash,
         m.status \in Out => /\ m.nonce # None
                             /\ m.hash = SignatureOf(i, m, chain),
         m.status = "Confirmed" => m.hash \in mined[chain],
         m.status \in {"Unapproved", "Rejected"} =>
           \A k \in Chains : \A r \in Sent(k) : r.id # i
  PROVE  Proper(i)'
<1>0. chain \in Chains /\ chain' = chain /\ UNCHANGED networkVars
  BY DEF TypeOK, Writes
<1>1. \A k \in Chains : Listed(k, i)' => k = chain /\ txs'[k][i] = m
  BY WrittenRow
<1>2. CommandsOn(i)' = {}
  BY DEF CommandsOn, CallsOf, RequestTypes, FreshReceipt
<1>3. \A k \in Chains : Sent(k)' = Sent(k) /\ mined'[k] = mined[k]
  BY <1>0 DEF networkVars, Sent
<1>4. UnusedIsUnknown(i)'
  BY DEF UnusedIsUnknown, Writes
<1>5. ListedOnce(i)'
  BY <1>1 DEF ListedOnce
<1>6. OutIsSealed(i)'
  BY <1>1, <1>2 DEF OutIsSealed, SignatureOf
<1>7. ConfirmedIsMined(i)'
  BY <1>1, <1>3 DEF ConfirmedIsMined
<1>8. OneCommand(i)' /\ CommandsAreHere(i)'
  BY <1>2 DEF OneCommand, CommandsAreHere
<1>9. \A c \in calls' : c.type \in {"nonce", "publish"} => c.id # i
  BY <1>2 DEF CommandsOn, CallsOf
<1>10. AwaitsNonce(i)' /\ AwaitsPublish(i)'
  BY <1>9 DEF AwaitsNonce, AwaitsPublish, CallsOf
<1>11. ReceiptsFit(i)'
  <2> SUFFICES ASSUME NEW c \in calls', c.type = "receipt", c.id = i,
                      NEW k \in Chains, Listed(k, i)'
               PROVE  /\ k = c.chain
                      /\ txs'[k][i].status \in Out
                      /\ txs'[k][i].hash = c.hash
    BY DEF ReceiptsFit, CallsOf
  <2>1. k = chain /\ txs'[k][i] = m
    BY <1>1
  <2> QED
    BY <2>1 DEF FreshReceipt, RequestTypes
<1>12. SentIsApproved(i)'
  BY <1>1, <1>3, <1>9 DEF SentIsApproved, CallsOf
<1> QED
  BY <1>4, <1>5, <1>6, <1>7, <1>8, <1>10, <1>11, <1>12 DEF Proper

\* Writing an approved transaction and asking for its publication does too.
LEMMA WrittenPublish ==
  ASSUME TypeOK, NEW i \in TxIds, NEW m \in Meta, Writes(i, m),
         m.status = "Approved", m.nonce # None, NEW p,
         p.type = "publish", p.id = i, p.chain = chain,
         p.raw = SignatureOf(i, m, chain),
         \A c \in calls' : c.type \in RequestTypes /\ c.id = i => c = p
  PROVE  Proper(i)'
<1>0. chain \in Chains /\ chain' = chain /\ UNCHANGED networkVars
  BY DEF TypeOK, Writes
<1>1. \A k \in Chains : Listed(k, i)' => k = chain /\ txs'[k][i] = m
  BY WrittenRow
<1>2. Listed(chain, i)' /\ txs'[chain][i] = m
  <2>1. ~MayGo(m)
    BY DEF MayGo, Out
  <2>2. m # None
    BY NoMetaAssumption
  <2> QED
    BY <1>0, <2>1, <2>2 DEF Writes, Rewrites, IsRewritten, Listed
<1>3. \A c \in CommandsOn(i)' : c = p
  BY DEF CommandsOn, CallsOf, RequestTypes
<1>4. \A k \in Chains : Sent(k)' = Sent(k)
  BY <1>0 DEF networkVars, Sent
<1>5. \A c \in calls' : c.type \in {"nonce", "receipt"} => c.id # i
  BY DEF RequestTypes
<1>6. UnusedIsUnknown(i)'
  BY DEF UnusedIsUnknown, Writes
<1>7. ListedOnce(i)'
  BY <1>1 DEF ListedOnce
<1>8. OutIsSealed(i)' /\ ConfirmedIsMined(i)'
  BY <1>1 DEF OutIsSealed, ConfirmedIsMined, Out
<1>9. OneCommand(i)'
  BY <1>3 DEF OneCommand
<1>10. CommandsAreHere(i)'
  BY <1>0, <1>1, <1>3 DEF CommandsAreHere
<1>11. AwaitsNonce(i)' /\ ReceiptsFit(i)'
  BY <1>5 DEF AwaitsNonce, ReceiptsFit, CallsOf
<1>12. AwaitsPublish(i)'
  <2>1. \A c \in CallsOf("publish")' : c.id = i => c = p
    BY DEF CallsOf, RequestTypes
  <2> QED
    BY <1>0, <1>2, <2>1 DEF AwaitsPublish, SignatureOf
<1>13. SentIsApproved(i)'
  BY <1>1, <1>4, <1>5 DEF SentIsApproved, CallsOf
<1> QED
  BY <1>6, <1>7, <1>8, <1>9, <1>10, <1>11, <1>12, <1>13 DEF Proper

\* So does asking for the nonce of a transaction that waits for the user.
LEMMA WaitsForNonce ==
  ASSUME TypeOK, NEW i \in TxIds, Proper(i), NEW p,
         Listed(chain, i), txs[chain][i].status = "Unapproved",
         txs[chain][i].nonce = None, CommandsOn(i) = {},
         p.type = "nonce", p.id = i, p.chain = chain, p.meta = txs[chain][i],
         calls' = calls \cup {p},
         UNCHANGED <<chain, txs, networkVars, intent>>
  PROVE  Proper(i)'
<1>0. /\ chain \in Chains
      /\ \A k \in Chains : Sent(k)' = Sent(k) /\ mined'[k] = mined[k]
      /\ \A k \in Chains : Listed(k, i)' = Listed(k, i)
  BY DEF TypeOK, networkVars, Sent, Listed
<1>1. /\ \A c \in calls : c.type \in RequestTypes => c.id # i
      /\ \A k \in Chains : \A r \in Sent(k) : r.id # i
      /\ \A k \in Chains : Listed(k, i) => k = chain
      /\ intent[i] # 0
  BY UnapprovedIsFresh
<1>2. \A c \in CommandsOn(i)' : c = p
  BY <1>1 DEF CommandsOn, CallsOf, RequestTypes
<1>3. \A c \in calls' : c.type \in {"publish", "receipt"} => c.id # i
  BY <1>1 DEF RequestTypes
<1>4. UnusedIsUnknown(i)'
  BY <1>1 DEF UnusedIsUnknown
<1>5. ListedOnce(i)'
  BY <1>0, <1>1 DEF ListedOnce
<1>6. OutIsSealed(i)' /\ ConfirmedIsMined(i)'
  BY <1>0, <1>1 DEF OutIsSealed, ConfirmedIsMined, Out
<1>7. OneCommand(i)'
  BY <1>2 DEF OneCommand
<1>8. CommandsAreHere(i)'
  BY <1>0, <1>1, <1>2 DEF CommandsAreHere
<1>9. AwaitsNonce(i)'
  <2>1. \A c \in CallsOf("nonce")' : c.id = i => c = p
    BY <1>1 DEF CallsOf, RequestTypes
  <2>2. \A d \in CallsOf("receipt")' : d.id # i
    BY <1>3 DEF CallsOf
  <2> QED
    BY <1>0, <2>1, <2>2 DEF AwaitsNonce, Listed
<1>10. AwaitsPublish(i)' /\ ReceiptsFit(i)'
  BY <1>3 DEF AwaitsPublish, ReceiptsFit, CallsOf
<1>11. SentIsApproved(i)'
  BY <1>0, <1>1 DEF SentIsApproved
<1> QED
  BY <1>4, <1>5, <1>6, <1>7, <1>8, <1>9, <1>10, <1>11 DEF Proper

-----------------------------------------------------------------------------
(* What the user does *)

\* A handler that writes one transaction leaves the others proper.
LEMMA HandlerStep ==
  ASSUME TypeOK, \A j \in TxIds : Proper(j),
         NEW i \in TxIds, NEW m \in Meta, Writes(i, m), NEW cs, Leaves(cs),
         \A c \in cs : c.type \in RequestTypes /\ c.id # i => c \in calls,
         \A j \in TxIds \ {i} : intent'[j] = intent[j],
         Proper(i)'
  PROVE  (\A j \in TxIds : Proper(j))'
<1> SUFFICES ASSUME NEW j \in TxIds, j # i PROVE Proper(j)'
  OBVIOUS
<1>1. \A k \in Chains : Sent(k)' = Sent(k) /\ mined'[k] = mined[k]
  BY DEF Writes, networkVars, Sent
<1>2. \A k \in Chains :
        \/ txs'[k][j] = txs[k][j]
        \/ k = chain /\ MayGo(txs[k][j]) /\ txs'[k][j] = None
  BY DEF Writes, Rewrites, IsRewritten
<1>3. \A c \in calls' : c.type \in RequestTypes /\ c.id = j =>
        c \in calls \/ FreshReceipt(c)
  BY DEF Leaves
<1>4. LeavesAlone(j)
  BY <1>1, <1>2, <1>3 DEF LeavesAlone, Writes
<1> QED
  BY <1>4, StaysProper

\* A step that writes no transaction, asks at most for receipts and tells the
\* nodes nothing leaves all of them proper.
LEMMA QuietHandler ==
  ASSUME TypeOK, \A j \in TxIds : Proper(j),
         UNCHANGED <<chain, intent, networkVars>>,
         \A k \in Chains, j \in TxIds :
           \/ txs'[k][j] = txs[k][j]
           \/ k = chain /\ MayGo(txs[k][j]) /\ txs'[k][j] = None,
         \A c \in calls' :
           c \in calls \/ c.type \notin RequestTypes \/ FreshReceipt(c)
  PROVE  (\A j \in TxIds : Proper(j))'
<1> SUFFICES ASSUME NEW j \in TxIds PROVE Proper(j)'
  OBVIOUS
<1>1. \A k \in Chains : Sent(k)' = Sent(k) /\ mined'[k] = mined[k]
  BY DEF networkVars, Sent
<1>2. LeavesAlone(j)
  BY <1>1 DEF LeavesAlone
<1> QED
  BY <1>2, StaysProper

\* The rest of the invariant is about gas and nonce requests and the keyring.
LEMMA RestKept ==
  ASSUME Orderly, keyring' = keyring, dchecks' = dchecks,
         \A c \in calls' : c.type \in {"gas", "nonce"} => c \in calls
  PROVE  (DraftsAreUnapproved /\ NoncesComeUnlocked /\ AssertionsHold)'
BY DEF Orderly, DraftsAreUnapproved, NoncesComeUnlocked, AssertionsHold, CallsOf

\* Adding a transaction, copied or not, under an id of its own.
LEMMA ContinueAddOrderly ==
  ASSUME TypeOK, Orderly, NEW m \in Meta, m.status = "Unapproved",
         NEW of \in 0 .. NumTxs, NEW cs \in SUBSET calls,
         ContinueAddUnapprovedTransaction(m, of, cs),
         UNCHANGED <<chain, keyring, networkVars, dchecks>>
  PROVE  Orderly'
<1>1. PICK i \in TxIds :
        /\ intent[i] = 0
        /\ SaveTx(i, [m EXCEPT !.chain = chain], cs)
        /\ intent' = [intent EXCEPT ![i] = IF of = 0 THEN i ELSE of]
  BY DEF ContinueAddUnapprovedTransaction
<1> DEFINE n == [m EXCEPT !.chain = chain]
<1>2. n \in Meta /\ n.status = "Unapproved"
  BY DEF TypeOK, Meta
<1>3. SaveTx(i, n, cs)
  BY <1>1
<1> HIDE DEF n
<1>4. Rewrites(i, n) /\ Leaves(cs)
  BY <1>2, <1>3, SaveTxRewrites
<1>5. calls' = cs
  BY <1>3 DEF SaveTx
<1>6. /\ \A c \in calls : c.type \in RequestTypes => c.id # i
      /\ \A k \in Chains : ~Listed(k, i) /\ \A r \in Sent(k) : r.id # i
  BY <1>1 DEF Orderly, Proper, UnusedIsUnknown
<1>7. intent'[i] # 0 /\ \A j \in TxIds \ {i} : intent'[j] = intent[j]
  BY <1>1, StoreAssumption DEF TypeOK, TxIds
<1>8. Writes(i, n)
  BY <1>4, <1>6, <1>7 DEF Writes
<1>9. Proper(i)'
  BY <1>2, <1>5, <1>6, <1>8, WrittenIdle DEF Out
<1>10. \A j \in TxIds : Proper(j)
  BY DEF Orderly
<1>11. (\A j \in TxIds : Proper(j))'
  BY <1>2, <1>4, <1>5, <1>7, <1>8, <1>9, <1>10, HandlerStep
<1> QED
  BY <1>5, <1>11, RestKept DEF Orderly

\* Writing a transaction that waits for the user, as edited or rejected, leaves
\* it proper, whatever runs on it.
LEMMA RedraftedProper ==
  ASSUME TypeOK, NEW j \in TxIds, Proper(j),
         Listed(chain, j), txs[chain][j].status = "Unapproved",
         NEW m \in Meta, m.status \in {"Unapproved", "Rejected"},
         UNCHANGED <<chain, calls, networkVars, intent>>,
         \A k \in Chains : txs'[k][j] = IF k = chain THEN m ELSE txs[k][j]
  PROVE  Proper(j)'
<1>1. chain \in Chains /\ m # None
  BY NoMetaAssumption DEF TypeOK
<1>2. /\ \A c \in calls : c.type \in RequestTypes /\ c.id = j
                              => c \in CommandsOn(j)
      /\ \A k \in Chains : \A r \in Sent(k) : r.id # j
      /\ \A k \in Chains : Listed(k, j) => k = chain
      /\ intent[j] # 0
  BY UnapprovedIsFresh
<1>3. \A k \in Chains : /\ Listed(k, j)' <=> k = chain
                        /\ Listed(k, j)' => txs'[k][j] = m
  BY <1>1, <1>2 DEF Listed
<1>4. CommandsOn(j)' = CommandsOn(j)
  BY DEF CommandsOn, CallsOf
<1>5. \A k \in Chains : Sent(k)' = Sent(k)
  BY DEF networkVars, Sent
<1>6. \A c \in calls : c.type \in {"publish", "receipt"} => c.id # j
  <2>1. \A c \in CallsOf("publish") : c.id # j
    BY DEF Proper, AwaitsPublish
  <2>2. \A c \in calls : c.type = "receipt" => c.id # j
    BY <1>2 DEF CommandsOn, CallsOf, RequestTypes
  <2> QED
    BY <2>1, <2>2 DEF CallsOf
<1>7. UnusedIsUnknown(j)' /\ ListedOnce(j)'
  BY <1>2, <1>3 DEF UnusedIsUnknown, ListedOnce
<1>8. OutIsSealed(j)' /\ ConfirmedIsMined(j)'
  BY <1>3 DEF OutIsSealed, ConfirmedIsMined, Out
<1>9. OneCommand(j)' /\ CommandsAreHere(j)'
  BY <1>3, <1>4 DEF Proper, OneCommand, CommandsAreHere
<1>10. AwaitsNonce(j)'
  <2>1. \A c \in CallsOf("nonce") : c.id = j =>
          c.meta.status = "Unapproved" /\ c.meta.nonce = None
    BY DEF Proper, AwaitsNonce
  <2>2. txs'[chain][j] = m
    BY <1>1
  <2>3. \A d \in CallsOf("receipt")' : d.id # j
    BY <1>6 DEF CallsOf
  <2> QED
    BY <2>1, <2>2, <2>3 DEF AwaitsNonce, CallsOf
<1>11. AwaitsPublish(j)' /\ ReceiptsFit(j)'
  BY <1>6 DEF AwaitsPublish, ReceiptsFit, CallsOf
<1>12. SentIsApproved(j)'
  BY <1>2, <1>5 DEF SentIsApproved
<1> QED
  BY <1>7, <1>8, <1>9, <1>10, <1>11, <1>12 DEF Proper

\* The store after a listed transaction is saved.
LEMMA SaveListed ==
  ASSUME TypeOK, NEW i \in TxIds, Listed(chain, i), NEW m \in Meta, NEW cs,
         SaveTx(i, m, cs)
  PROVE  /\ \A k \in Chains, j \in TxIds :
              txs'[k][j] = IF k = chain /\ j = i THEN m ELSE txs[k][j]
         /\ calls' = cs
<1>1. chain \in Chains /\ txs \in Stores
  BY DEF TypeOK
<1>2. txs' = Put(txs, chain, i, m) /\ calls' = cs
  BY DEF SaveTx, AddOrUpdateTx, GetTx, Listed
<1> QED
  BY <1>1, <1>2, PutRows

\* Saving what waits for the user, as edited or rejected.
LEMMA RedraftOrderly ==
  ASSUME TypeOK, Orderly, NEW i \in TxIds,
         Listed(chain, i), txs[chain][i].status = "Unapproved",
         NEW m \in Meta, m.status \in {"Unapproved", "Rejected"},
         SaveTx(i, m, calls),
         UNCHANGED <<chain, keyring, networkVars, intent, dchecks>>
  PROVE  Orderly'
<1>1. /\ calls' = calls
      /\ \A k \in Chains, j \in TxIds :
           txs'[k][j] = IF k = chain /\ j = i THEN m ELSE txs[k][j]
  BY SaveListed
<1>2. \A k \in Chains : Sent(k)' = Sent(k) /\ mined'[k] = mined[k]
  BY DEF networkVars, Sent
<1>3. ASSUME NEW j \in TxIds
      PROVE  Proper(j)'
  <2>1. Proper(j)
    BY DEF Orderly
  <2>2. CASE j = i
    BY <1>1, <2>1, <2>2, RedraftedProper
  <2>3. CASE j # i
    <3>1. LeavesAlone(j)
      BY <1>1, <1>2, <2>3 DEF LeavesAlone
    <3> QED
      BY <2>1, <3>1, StaysProper
  <2> QED
    BY <2>2, <2>3
<1> QED
  BY <1>1, <1>3, RestKept DEF Orderly

\* Writing a transaction no command runs on as failed.
LEMMA SavedOrderly ==
  ASSUME TypeOK, Orderly, PatientClients, NEW i \in TxIds, ClientMayConfirm(i),
         NEW m \in Meta, m.status \notin Out, SaveTx(i, m, calls),
         UNCHANGED <<chain, keyring, networkVars, intent, dchecks>>
  PROVE  Orderly'
<1>1. \A j \in TxIds : Proper(j)
  BY DEF Orderly
<1>2. /\ \A c \in calls : c.type \in RequestTypes => c.id # i
      /\ \A k \in Chains : \A r \in Sent(k) : r.id # i
      /\ \A k \in Chains : Listed(k, i) => k = chain
      /\ intent[i] # 0
  BY <1>1, ConfirmOnIdle
<1>3. Rewrites(i, m) /\ Leaves(calls) /\ calls' = calls
  BY SaveTxRewrites DEF SaveTx
<1>4. Writes(i, m)
  BY <1>2, <1>3 DEF Writes
<1>5. Proper(i)'
  BY <1>2, <1>3, <1>4, WrittenIdle DEF Out
<1>6. (\A j \in TxIds : Proper(j))'
  BY <1>1, <1>3, <1>4, <1>5, HandlerStep
<1> QED
  BY <1>3, <1>6, RestKept DEF Orderly

\* Writing an approved transaction and asking the nodes to take it, once no
\* other request on it is left.
LEMMA PublishedOrderly ==
  ASSUME TypeOK, Orderly, NEW i \in TxIds, NEW m \in Meta,
         m.status = "Approved", m.nonce # None, intent[i] # 0,
         \A k \in Chains : Listed(k, i) => k = chain,
         NEW cs \in SUBSET calls,
         \A c \in cs : c.type \in RequestTypes => c.id # i,
         Rewrites(i, m),
         calls' = cs \cup {[type |-> "publish", id |-> i,
                            raw |-> SignatureOf(i, m, chain),
                            chain |-> chain, accepted |-> FALSE]},
         UNCHANGED <<chain, keyring, networkVars, intent, dchecks>>
  PROVE  Orderly'
<1> DEFINE p == [type |-> "publish", id |-> i, raw |-> SignatureOf(i, m, chain),
                 chain |-> chain, accepted |-> FALSE]
<1>0. /\ p.type = "publish" /\ p.id = i /\ p.chain = chain
      /\ p.raw = SignatureOf(i, m, chain)
      /\ calls' = cs \cup {p}
  OBVIOUS
<1> HIDE DEF p
<1>1. \A j \in TxIds : Proper(j)
  BY DEF Orderly
<1>2. Leaves(cs \cup {p})
  BY <1>0 DEF Leaves
<1>3. Writes(i, m)
  BY DEF Writes
<1>4. Proper(i)'
  BY <1>0, <1>3, WrittenPublish
<1>5. \A c \in cs \cup {p} : c.type \in RequestTypes /\ c.id # i => c \in calls
  BY <1>0
<1>6. (\A j \in TxIds : Proper(j))'
  BY <1>1, <1>2, <1>3, <1>4, <1>5, HandlerStep
<1>7. \A c \in calls' : c.type \in {"gas", "nonce"} => c \in calls
  BY <1>0
<1> QED
  BY <1>6, <1>7, RestKept DEF Orderly

\* What signing with the keyring unlocked does, for the selected network: the
\* transaction is stored with the nonce, approved and to be published, or
\* signed and handed out.
LEMMA SignEffect ==
  ASSUME TypeOK, NEW i \in TxIds, NEW m \in Meta, NEW n \in Nonces, NEW cs,
         Sign(i, m, chain, n, cs), keyring = "unlocked"
  PROVE  \E w \in Meta :
           /\ w.from = m.from /\ w.nonce = n
           /\ Rewrites(i, w)
           /\ \/ /\ w.status = "Approved"
                 /\ calls' = cs \cup {[type |-> "publish", id |-> i,
                                       raw |-> SignatureOf(i, w, chain),
                                       chain |-> chain, accepted |-> FALSE]}
              \/ /\ w.status = "Signed"
                 /\ w.hash = SignatureOf(i, w, chain)
                 /\ Leaves(cs)
<1> DEFINE sig == [id |-> i, from |-> m.from, nonce |-> n, chain |-> chain]
           approved == [m EXCEPT !.status = "Approved", !.nonce = n,
                                 !.sig = sig]
           signed == [approved EXCEPT !.status = "Signed", !.hash = sig]
           call == [type |-> "publish", id |-> i, raw |-> sig,
                    chain |-> chain, accepted |-> FALSE]
<1>1. chain \in Chains /\ txs \in Stores
  BY DEF TypeOK
<1>2. sig \in SignedTx /\ sig \in Signatures /\ sig # None
  BY <1>1, SignatureAssumption DEF Signatures, SignedTx, Meta
<1>3. /\ approved \in Meta /\ approved.status = "Approved"
      /\ approved.nonce = n /\ approved.from = m.from
  BY <1>2 DEF Meta, Status
<1>4. /\ signed \in Meta /\ signed.status = "Signed" /\ signed.hash = sig
      /\ signed.nonce = n /\ signed.from = m.from
  BY <1>2, <1>3 DEF Meta, Status
<1>5. /\ sig = SignatureOf(i, approved, chain)
      /\ sig = SignatureOf(i, signed, chain)
  BY <1>3, <1>4 DEF SignatureOf
<1>6. \/ \E s \in AddOrUpdateTx(txs, chain, i, approved) :
           UpdatePendingTransactions(Put(s, chain, i, signed), cs, running)
      \/ SaveTx(i, approved, cs \cup {call})
  BY <1>2 DEF Sign
<1>7. call = [type |-> "publish", id |-> i,
              raw |-> SignatureOf(i, approved, chain),
              chain |-> chain, accepted |-> FALSE]
  BY <1>5
<1> HIDE DEF sig, approved, signed, call
<1>8. CASE SaveTx(i, approved, cs \cup {call})
  <2>1. Rewrites(i, approved) /\ calls' = cs \cup {call}
    BY <1>3, <1>8, SaveTxRewrites DEF SaveTx
  <2> QED
    BY <1>3, <1>7, <2>1
<1>9. CASE \E s \in AddOrUpdateTx(txs, chain, i, approved) :
             UpdatePendingTransactions(Put(s, chain, i, signed), cs, running)
  <2>1. PICK s \in AddOrUpdateTx(txs, chain, i, approved) :
          UpdatePendingTransactions(Put(s, chain, i, signed), cs, running)
    BY <1>9
  <2>2. s \in Stores /\ Put(s, chain, i, signed) \in Stores
    BY <1>1, <1>3, <1>4, AddOrUpdateType, PutType
  <2>3. IsRewritten(txs, s, chain, i, approved)
    BY <1>1, <1>3, AddOrUpdateRewrites
  <2>4. IsRewritten(txs, Put(s, chain, i, signed), chain, i, signed)
    BY <1>1, <2>2, <2>3, PutRows DEF IsRewritten
  <2>5. Rewrites(i, signed) /\ Leaves(cs)
    BY <2>1, <2>2, <2>4, UpdateAfterWrite
  <2> QED
    BY <1>4, <1>5, <2>5
<1> QED
  BY <1>6, <1>8, <1>9

\* Signing keeps the invariant, with no request on the transaction left.
LEMMA SignOrderly ==
  ASSUME TypeOK, Orderly, NEW i \in TxIds, NEW m \in Meta, NEW n \in Nonces,
         NEW cs \in SUBSET calls, Sign(i, m, chain, n, cs),
         keyring = "unlocked", intent[i] # 0,
         \A k \in Chains : Listed(k, i) => k = chain,
         \A c \in cs : c.type \in RequestTypes => c.id # i,
         UNCHANGED <<chain, keyring, networkVars, intent, dchecks>>
  PROVE  Orderly'
<1>1. PICK w \in Meta :
        /\ w.from = m.from /\ w.nonce = n
        /\ Rewrites(i, w)
        /\ \/ /\ w.status = "Approved"
              /\ calls' = cs \cup {[type |-> "publish", id |-> i,
                                    raw |-> SignatureOf(i, w, chain),
                                    chain |-> chain, accepted |-> FALSE]}
           \/ /\ w.status = "Signed"
              /\ w.hash = SignatureOf(i, w, chain)
              /\ Leaves(cs)
  BY SignEffect
<1>2. w.nonce # None
  BY <1>1, StoreAssumption DEF Nonces
<1>3. CASE w.status = "Approved"
  BY <1>1, <1>2, <1>3, PublishedOrderly
<1>4. CASE w.status = "Signed"
  <2>1. w.hash = SignatureOf(i, w, chain) /\ Leaves(cs)
    BY <1>1, <1>4
  <2>2. Writes(i, w)
    BY <1>1 DEF Writes
  <2>3. \A c \in calls' : c.type \in RequestTypes /\ c.id = i => FreshReceipt(c)
    BY <2>1 DEF Leaves
  <2>4. Proper(i)'
    BY <1>2, <1>4, <2>1, <2>2, <2>3, WrittenIdle
  <2>5. \A j \in TxIds : Proper(j)
    BY DEF Orderly
  <2>6. (\A j \in TxIds : Proper(j))'
    BY <2>1, <2>2, <2>4, <2>5, HandlerStep
  <2>7. \A c \in calls' : c.type \in {"gas", "nonce"} => c \in calls
    BY <2>1 DEF Leaves, FreshReceipt
  <2> QED
    BY <2>6, <2>7, RestKept DEF Orderly
<1> QED
  BY <1>1, <1>3, <1>4

\* The user's commands keep the invariant, one case for each.
LEMMA UserStepOrderly ==
  ASSUME TypeOK, Orderly, PatientClients, UserStep
  PROVE  Orderly'
<1> USE DEF managerVars, trackerVars
<1>0. \A j \in TxIds : Proper(j)
  BY DEF Orderly
<1>1. ASSUME NEW a \in Accounts, NEW signOnly \in BOOLEAN,
             AddUnapprovedTransaction(a, signOnly)
      PROVE  Orderly'
  <2> DEFINE m == [status |-> "Unapproved", from |-> a, nonce |-> None,
                   sig |-> None, hash |-> None, signOnly |-> signOnly,
                   chain |-> chain]
             call == [type |-> "gas", meta |-> m, intent |-> 0]
  <2>1. m \in Meta /\ m.status = "Unapproved"
    BY DEF TypeOK, Meta, Status, Signatures
  <2>2. call.type = "gas" /\ call.meta = m
    OBVIOUS
  <2>3. \/ ContinueAddUnapprovedTransaction(m, 0, calls)
        \/ calls' = calls \cup {call} /\ UNCHANGED <<txs, intent>>
    BY <1>1 DEF AddUnapprovedTransaction
  <2>4. UNCHANGED <<chain, keyring, networkVars, dchecks>>
    BY <1>1 DEF AddUnapprovedTransaction
  <2>5. 0 \in 0 .. NumTxs
    BY StoreAssumption
  <2> HIDE DEF m, call
  <2>6. CASE ContinueAddUnapprovedTransaction(m, 0, calls)
    BY <2>1, <2>4, <2>5, <2>6, ContinueAddOrderly
  <2>7. CASE calls' = calls \cup {call} /\ UNCHANGED <<txs, intent>>
    <3>1. (\A j \in TxIds : Proper(j))'
      BY <1>0, <2>2, <2>4, <2>7, QuietHandler DEF RequestTypes
    <3>2. (DraftsAreUnapproved /\ NoncesComeUnlocked /\ AssertionsHold)'
      BY <2>1, <2>2, <2>4, <2>7 DEF Orderly, DraftsAreUnapproved,
           NoncesComeUnlocked, AssertionsHold, CallsOf
    <3> QED
      BY <3>1, <3>2 DEF Orderly
  <2> QED
    BY <2>3, <2>6, <2>7
<1>2. ASSUME NEW i \in TxIds, SpeedupOrCancelTransaction(i)
      PROVE  Orderly'
  <2> DEFINE m == [Tx(i) EXCEPT !.status = "Unapproved", !.hash = None,
                                !.signOnly = FALSE, !.sig = Stale]
             call == [type |-> "gas", intent |-> IntentOfCopy(i), meta |-> m]
  <2>1. Tx(i) \in Meta
    BY <1>2, TxType DEF SpeedupOrCancelTransaction
  <2>2. call.type = "gas" /\ call.meta.status = "Unapproved"
    BY <2>1 DEF Meta
  <2>3. calls' = calls \cup {call}
    BY <1>2 DEF SpeedupOrCancelTransaction
  <2>4. UNCHANGED <<chain, keyring, networkVars, dchecks, txs, intent>>
    BY <1>2 DEF SpeedupOrCancelTransaction
  <2> HIDE DEF call
  <2>5. (\A j \in TxIds : Proper(j))'
    BY <1>0, <2>2, <2>3, <2>4, QuietHandler DEF RequestTypes
  <2>6. (DraftsAreUnapproved /\ NoncesComeUnlocked /\ AssertionsHold)'
    BY <2>2, <2>3, <2>4 DEF Orderly, DraftsAreUnapproved,
         NoncesComeUnlocked, AssertionsHold, CallsOf
  <2> QED
    BY <2>5, <2>6 DEF Orderly
<1>3. ASSUME NEW i \in TxIds, RetryTransaction(i)
      PROVE  Orderly'
  <2> DEFINE m == [Tx(i) EXCEPT !.status = "Unapproved", !.hash = None,
                                !.signOnly = FALSE]
  <2>1. Tx(i) \in Meta
    BY <1>3, TxType DEF RetryTransaction
  <2>2. m \in Meta /\ m.status = "Unapproved"
    BY <2>1 DEF Meta, Status, Signatures
  <2>3. IntentOfCopy(i) \in 0 .. NumTxs
    BY StoreAssumption DEF IntentOfCopy, TypeOK
  <2>4. /\ ContinueAddUnapprovedTransaction(m, IntentOfCopy(i), calls)
        /\ UNCHANGED <<chain, keyring, networkVars, dchecks>>
    BY <1>3 DEF RetryTransaction
  <2> HIDE DEF m
  <2> QED
    BY <2>2, <2>3, <2>4, ContinueAddOrderly
<1>4. ASSUME NEW i \in TxIds, SetGasOrDataForUnapprovedTransaction(i)
      PROVE  Orderly'
  <2>1. ClientMayCommand(i)
    BY <1>4 DEF SetGasOrDataForUnapprovedTransaction
  <2>2. /\ Tx(i) \in Meta /\ Tx(i).status = "Unapproved"
        /\ Listed(chain, i) /\ txs[chain][i].status = "Unapproved"
    BY <2>1, CommandOnListed
  <2>3. Edited(Tx(i)) \in Meta /\ Edited(Tx(i)).status = "Unapproved"
    BY <2>2 DEF Edited, Meta, Signatures
  <2> QED
    BY <1>4, <2>2, <2>3, RedraftOrderly DEF SetGasOrDataForUnapprovedTransaction
<1>5. ASSUME NEW i \in TxIds, NEW n \in Nonces \cup {None},
             SetNonceForUnapprovedTransaction(i, n)
      PROVE  Orderly'
  <2> DEFINE m == [Edited(Tx(i)) EXCEPT !.nonce = n]
  <2>1. ClientMayCommand(i)
    BY <1>5 DEF SetNonceForUnapprovedTransaction
  <2>2. /\ Tx(i) \in Meta /\ Tx(i).status = "Unapproved"
        /\ Listed(chain, i) /\ txs[chain][i].status = "Unapproved"
    BY <2>1, CommandOnListed
  <2>3. m \in Meta /\ m.status = "Unapproved"
    BY <2>2 DEF Edited, Meta, Signatures
  <2>4. /\ SaveTx(i, m, calls)
        /\ UNCHANGED <<chain, keyring, networkVars, intent, dchecks>>
    BY <1>5 DEF SetNonceForUnapprovedTransaction
  <2> HIDE DEF m
  <2> QED
    BY <2>2, <2>3, <2>4, RedraftOrderly
<1>6. ASSUME NEW i \in TxIds, RejectTransaction(i)
      PROVE  Orderly'
  <2> DEFINE m == [Tx(i) EXCEPT !.status = "Rejected"]
  <2>1. ClientMayConfirm(i)
    BY <1>6 DEF RejectTransaction
  <2>2. /\ Tx(i) \in Meta
        /\ Listed(chain, i) /\ txs[chain][i].status = "Unapproved"
    BY <2>1, CommandOnListed
  <2>3. m \in Meta /\ m.status = "Rejected"
    BY <2>2 DEF Meta, Status
  <2>4. /\ SaveTx(i, m, calls)
        /\ UNCHANGED <<chain, keyring, networkVars, intent, dchecks>>
    BY <1>6 DEF RejectTransaction
  <2> HIDE DEF m
  <2> QED
    BY <2>2, <2>3, <2>4, RedraftOrderly
<1>7. ASSUME NEW i \in TxIds, ClientMayConfirm(i), Tx(i).nonce = None,
             NEW p, p.type = "nonce", p.id = i, p.chain = chain,
             p.meta = Tx(i), calls' = calls \cup {p},
             UNCHANGED <<chain, txs, keyring, networkVars, intent, dchecks>>
      PROVE  Orderly'
  <2>1. /\ Listed(chain, i)
        /\ Tx(i) = txs[chain][i]
        /\ Tx(i).status = "Unapproved"
        /\ \A c \in calls : c.type \in RequestTypes => c.id # i
        /\ keyring = "unlocked"
    BY <1>0, <1>7, ConfirmOnIdle, CommandOnListed
  <2>2. CommandsOn(i) = {}
    BY <2>1 DEF CommandsOn, CallsOf, RequestTypes
  <2>3. Proper(i)'
    BY <1>0, <1>7, <2>1, <2>2, WaitsForNonce
  <2>4. ASSUME NEW j \in TxIds, j # i
        PROVE  Proper(j)'
    <3>1. \A k \in Chains : Sent(k)' = Sent(k) /\ mined'[k] = mined[k]
      BY <1>7 DEF networkVars, Sent
    <3>2. LeavesAlone(j)
      BY <1>7, <2>4, <3>1 DEF LeavesAlone
    <3> QED
      BY <1>0, <3>2, StaysProper
  <2>5. (DraftsAreUnapproved /\ NoncesComeUnlocked /\ AssertionsHold)'
    BY <1>7, <2>1 DEF Orderly, DraftsAreUnapproved, NoncesComeUnlocked,
                      AssertionsHold, CallsOf
  <2> QED
    BY <2>3, <2>4, <2>5 DEF Orderly
<1>8. ASSUME NEW i \in TxIds, ApproveTransaction(i)
      PROVE  Orderly'
  <2>1. ClientMayConfirm(i)
    BY <1>8 DEF ApproveTransaction
  <2>2. CASE Tx(i).nonce = None
    <3> DEFINE p == [type |-> "nonce", id |-> i, meta |-> Tx(i),
                     chain |-> chain, hardware |-> FALSE, again |-> CommandsOn(i) # {}]
    <3>1. p.type = "nonce" /\ p.id = i /\ p.chain = chain /\ p.meta = Tx(i)
      OBVIOUS
    <3>2. /\ calls' = calls \cup {p}
          /\ UNCHANGED <<chain, txs, keyring, networkVars, intent, dchecks>>
      BY <1>8, <2>2 DEF ApproveTransaction
    <3> HIDE DEF p
    <3> QED
      BY <1>7, <2>1, <2>2, <3>1, <3>2
  <2>3. CASE Tx(i).nonce # None
    <3>1. /\ Tx(i) \in Meta
          /\ keyring = "unlocked"
          /\ \A c \in calls : c.type \in RequestTypes => c.id # i
          /\ \A k \in Chains : Listed(k, i) => k = chain
          /\ intent[i] # 0
      BY <1>0, <2>1, ConfirmOnIdle, CommandOnListed
    <3>2. Tx(i).nonce \in Nonces
      BY <2>3, <3>1 DEF Meta
    <3>3. /\ Sign(i, Tx(i), chain, Tx(i).nonce, calls)
          /\ UNCHANGED <<chain, keyring, networkVars, intent>>
      BY <1>8, <2>3 DEF ApproveTransaction
    <3>4. dchecks' = dchecks
      BY <1>8, <2>3, <3>1 DEF ApproveTransaction, CheckKeyringUnlocked
    <3> QED
      BY <3>1, <3>2, <3>3, <3>4, SignOrderly
  <2> QED
    BY <2>2, <2>3
<1>9. ASSUME NEW i \in TxIds, GetNonceForHardwareTransaction(i)
      PROVE  Orderly'
  <2>1. /\ ClientMayConfirm(i)
        /\ UNCHANGED <<chain, keyring, networkVars, intent, dchecks>>
    BY <1>9 DEF GetNonceForHardwareTransaction
  <2>2. CASE Tx(i).nonce = None
    <3> DEFINE p == [type |-> "nonce", id |-> i, meta |-> Tx(i),
                     chain |-> chain, hardware |-> TRUE, again |-> CommandsOn(i) # {}]
    <3>1. p.type = "nonce" /\ p.id = i /\ p.chain = chain /\ p.meta = Tx(i)
      OBVIOUS
    <3>2. calls' = calls \cup {p} /\ UNCHANGED txs
      BY <1>9, <2>2 DEF GetNonceForHardwareTransaction
    <3> HIDE DEF p
    <3> QED
      BY <1>7, <2>1, <2>2, <3>1, <3>2
  <2>3. CASE Tx(i).nonce # None
    <3>1. Tx(i) \in Meta /\ Tx(i).status \notin Out
      BY <1>0, <2>1, ConfirmOnIdle, CommandOnListed DEF Out
    <3>2. SaveTx(i, Tx(i), calls)
      BY <1>9, <2>3 DEF GetNonceForHardwareTransaction
    <3> QED
      BY <2>1, <3>1, <3>2, SavedOrderly
  <2> QED
    BY <2>2, <2>3
<1>10. ASSUME NEW i \in TxIds, NEW k \in Chains, ProcessHardwareSignature(i, k)
       PROVE  Orderly'
  <2> DEFINE sig == [id |-> i, from |-> Tx(i).from, nonce |-> Tx(i).nonce,
                     chain |-> k]
             m == [Tx(i) EXCEPT !.status = "Approved", !.sig = sig]
             failed == [Tx(i) EXCEPT !.status = "Error"]
  <2>1. /\ ClientMayConfirm(i)
        /\ Tx(i).nonce # None
        /\ UNCHANGED <<chain, keyring, networkVars, intent, dchecks>>
    BY <1>10 DEF ProcessHardwareSignature
  <2>2. k = chain
    BY <1>10 DEF ProcessHardwareSignature, Does, PatientClients
  <2>3. /\ Tx(i) \in Meta
        /\ \A c \in calls : c.type \in RequestTypes => c.id # i
        /\ \A l \in Chains : Listed(l, i) => l = chain
        /\ intent[i] # 0
    BY <1>0, <2>1, ConfirmOnIdle, CommandOnListed
  <2>4. sig \in Signatures
    BY <2>1, <2>3 DEF Meta, Signatures, SignedTx
  <2>5. /\ m \in Meta /\ m.status = "Approved" /\ m.nonce # None
        /\ sig = SignatureOf(i, m, chain)
    BY <2>1, <2>2, <2>3, <2>4 DEF Meta, Status, SignatureOf
  <2>6. failed \in Meta /\ failed.status \notin Out
    BY <2>3 DEF Meta, Status, Out
  <2>7. \/ SaveTx(i, m, calls \cup
                    {[type |-> "publish", id |-> i, raw |-> sig,
                      chain |-> chain, accepted |-> FALSE]})
        \/ SaveTx(i, failed, calls)
    BY <1>10 DEF ProcessHardwareSignature
  <2> HIDE DEF sig, m, failed
  <2>8. CASE SaveTx(i, failed, calls)
    BY <2>1, <2>6, <2>8, SavedOrderly
  <2>9. CASE SaveTx(i, m, calls \cup
                      {[type |-> "publish", id |-> i, raw |-> sig,
                        chain |-> chain, accepted |-> FALSE]})
    <3>1. Rewrites(i, m)
      BY <2>5, <2>9, SaveTxRewrites
    <3>2. calls' = calls \cup {[type |-> "publish", id |-> i, raw |-> sig,
                                chain |-> chain, accepted |-> FALSE]}
      BY <2>9 DEF SaveTx
    <3> QED
      BY <2>1, <2>3, <2>5, <3>1, <3>2, PublishedOrderly
  <2> QED
    BY <2>7, <2>8, <2>9
<1>11. CASE RejectAllTransactions
  <2>1. UNCHANGED <<chain, keyring, calls, networkVars, intent, dchecks>>
    BY <1>11 DEF RejectAllTransactions
  <2>2. chain \in Chains /\ txs \in Stores
    BY DEF TypeOK
  <2>3. \A k \in Chains, j \in TxIds :
          txs'[k][j] = IF k = chain /\ Listed(k, j)
                            /\ txs[k][j].status = "Unapproved"
                         THEN [txs[k][j] EXCEPT !.status = "Rejected"]
                         ELSE txs[k][j]
    BY <1>11, <2>2
    DEF RejectAllTransactions, Queue, Stores, ByStatus, Listed
  <2>4. \A k \in Chains : Sent(k)' = Sent(k) /\ mined'[k] = mined[k]
    BY <2>1 DEF networkVars, Sent
  <2>5. ASSUME NEW j \in TxIds
        PROVE  Proper(j)'
    <3>1. CASE ~(Listed(chain, j) /\ txs[chain][j].status = "Unapproved")
      <4>1. LeavesAlone(j)
        BY <2>1, <2>3, <2>4, <3>1 DEF LeavesAlone
      <4> QED
        BY <1>0, <4>1, StaysProper
    <3>2. CASE Listed(chain, j) /\ txs[chain][j].status = "Unapproved"
      <4> DEFINE m == [txs[chain][j] EXCEPT !.status = "Rejected"]
      <4>1. txs[chain][j] \in Meta
        BY <2>2, <3>2, ListedType
      <4>2. m \in Meta /\ m.status = "Rejected"
        BY <4>1 DEF Meta, Status
      <4>3. \A k \in Chains :
              txs'[k][j] = IF k = chain THEN m ELSE txs[k][j]
        <5>1. \A k \in Chains : Listed(k, j) => k = chain
          BY <2>2, <1>0, <3>2 DEF Proper, ListedOnce
        <5> QED
          BY <2>3, <3>2, <5>1
      <4> HIDE DEF m
      <4> QED
        BY <1>0, <2>1, <3>2, <4>2, <4>3, RedraftedProper
    <3> QED
      BY <3>1, <3>2
  <2>6. (DraftsAreUnapproved /\ NoncesComeUnlocked /\ AssertionsHold)'
    BY <2>1, RestKept
  <2> QED
    BY <2>5, <2>6 DEF Orderly
<1>12. CASE CreateWallet \/ Lock \/ Unlock
  <2>1. /\ UNCHANGED <<chain, txs, calls, networkVars, intent, dchecks>>
        /\ keyring' = "unlocked" \/ CallsOf("nonce") = {}
    BY <1>12 DEF CreateWallet, Lock, Unlock, Does, PatientClients
  <2>2. (\A j \in TxIds : Proper(j))'
    BY <1>0, <2>1, QuietHandler
  <2>3. (DraftsAreUnapproved /\ NoncesComeUnlocked /\ AssertionsHold)'
    BY <2>1 DEF Orderly, DraftsAreUnapproved, NoncesComeUnlocked,
                AssertionsHold, CallsOf
  <2> QED
    BY <2>2, <2>3 DEF Orderly
<1>13. ASSUME \A c \in calls : c.type \notin {"gas", "nonce", "publish"},
              UNCHANGED <<calls, txs, networkVars, intent, dchecks>>
       PROVE  Orderly'
  <2>1. ASSUME NEW j \in TxIds
        PROVE  Proper(j)'
    <3>1. CommandsOn(j)' = {}
      BY <1>13 DEF CommandsOn, CallsOf
    <3>2. \A k \in Chains : /\ Sent(k)' = Sent(k)
                            /\ Listed(k, j)' = Listed(k, j)
      BY <1>13 DEF networkVars, Sent, Listed
    <3>3. UnusedIsUnknown(j)' /\ ListedOnce(j)'
      BY <1>0, <1>13, <3>2 DEF Proper, UnusedIsUnknown, ListedOnce
    <3>4. OutIsSealed(j)' /\ ConfirmedIsMined(j)'
      BY <1>0, <1>13, <3>1, <3>2
      DEF Proper, OutIsSealed, ConfirmedIsMined, networkVars, SignatureOf
    <3>5. OneCommand(j)' /\ CommandsAreHere(j)'
      BY <3>1 DEF OneCommand, CommandsAreHere
    <3>6. AwaitsNonce(j)' /\ AwaitsPublish(j)'
      BY <1>13 DEF AwaitsNonce, AwaitsPublish, CallsOf
    <3>7. ReceiptsFit(j)'
      BY <1>0, <1>13, <3>2 DEF Proper, ReceiptsFit, CallsOf
    <3>8. SentIsApproved(j)'
      BY <1>0, <1>13, <3>2 DEF Proper, SentIsApproved, CallsOf
    <3> QED
      BY <3>3, <3>4, <3>5, <3>6, <3>7, <3>8 DEF Proper
  <2>2. (DraftsAreUnapproved /\ NoncesComeUnlocked /\ AssertionsHold)'
    BY <1>13 DEF Orderly, DraftsAreUnapproved, NoncesComeUnlocked,
                 AssertionsHold, CallsOf
  <2> QED
    BY <2>1, <2>2 DEF Orderly
<1>14. NoCommandRuns => \A c \in calls : c.type \notin {"gas", "nonce", "publish"}
  BY DEF NoCommandRuns, Does, PatientClients, CallsOf
<1>15. ASSUME NEW c \in Chains, SetNetwork(c)
       PROVE  Orderly'
  BY <1>13, <1>14, <1>15 DEF SetNetwork
<1>16. ASSUME txs' = EmptyStore, UNCHANGED <<networkVars, intent, dchecks>>,
              \A c \in calls' : /\ c \in calls
                                /\ c.type \notin {"gas", "nonce", "publish"}
       PROVE  Orderly'
  <2>1. ASSUME NEW j \in TxIds
        PROVE  Proper(j)'
    <3>1. CommandsOn(j)' = {}
      BY <1>16 DEF CommandsOn, CallsOf
    <3>2. \A k \in Chains : Sent(k)' = Sent(k) /\ ~Listed(k, j)'
      BY <1>16 DEF networkVars, Sent, Listed, EmptyStore
    <3>3. UnusedIsUnknown(j)' /\ ListedOnce(j)'
      BY <1>0, <1>16, <3>2 DEF Proper, UnusedIsUnknown, ListedOnce
    <3>4. OutIsSealed(j)' /\ ConfirmedIsMined(j)' /\ ReceiptsFit(j)'
      BY <3>2 DEF OutIsSealed, ConfirmedIsMined, ReceiptsFit
    <3>5. OneCommand(j)' /\ CommandsAreHere(j)'
      BY <3>1 DEF OneCommand, CommandsAreHere
    <3>6. AwaitsNonce(j)' /\ AwaitsPublish(j)' /\ SentIsApproved(j)'
      BY <1>16, <3>2 DEF AwaitsNonce, AwaitsPublish, SentIsApproved, CallsOf
    <3> QED
      BY <3>3, <3>4, <3>5, <3>6 DEF Proper
  <2>2. (DraftsAreUnapproved /\ NoncesComeUnlocked /\ AssertionsHold)'
    BY <1>16 DEF Orderly, DraftsAreUnapproved, NoncesComeUnlocked,
                 AssertionsHold, CallsOf
  <2> QED
    BY <2>1, <2>2 DEF Orderly
<1>17. CASE Reset
  BY <1>14, <1>16, <1>17 DEF Reset
<1>18. CASE Restart
  <2>1. UNCHANGED <<chain, txs, networkVars, intent, dchecks>> /\ calls' = {}
    BY <1>18 DEF Restart
  <2>2. (\A j \in TxIds : Proper(j))'
    BY <1>0, <2>1, QuietHandler
  <2>3. (DraftsAreUnapproved /\ NoncesComeUnlocked /\ AssertionsHold)'
    BY <2>1 DEF Orderly, DraftsAreUnapproved, NoncesComeUnlocked,
                AssertionsHold, CallsOf
  <2> QED
    BY <2>2, <2>3 DEF Orderly
<1> QED
  BY <1>1, <1>2, <1>3, <1>4, <1>5, <1>6, <1>8, <1>9, <1>10, <1>11, <1>12,
     <1>15, <1>17, <1>18
  DEF UserStep

-----------------------------------------------------------------------------
(* The answers, the tracker and the observer *)

\* A nonce that arrives finds its transaction waiting, on the selected
\* network, with no other request on it.
LEMMA NonceAnswered ==
  ASSUME TypeOK, Orderly, NEW c \in CallsOf("nonce")
  PROVE  /\ c.id \in TxIds /\ c.meta \in Meta /\ c.chain = chain
         /\ keyring = "unlocked"
         /\ intent[c.id] # 0
         /\ \A k \in Chains : Listed(k, c.id) => k = chain
         /\ \A k \in Chains : \A r \in Sent(k) : r.id # c.id
         /\ \A d \in calls \ {c} : d.type \in RequestTypes => d.id # c.id
<1>1. c \in calls /\ c.type = "nonce" /\ c \in NonceCalls
  BY CallKinds DEF TypeOK, CallsOf
<1>2. /\ c.id \in TxIds /\ c.meta \in Meta
      /\ c \in CommandsOn(c.id)
      /\ Proper(c.id)
  BY <1>1 DEF NonceCalls, CommandsOn, CallsOf, Orderly
<1>3. c.chain = chain /\ \A k \in Chains : Listed(k, c.id) => k = chain
  BY <1>2 DEF Proper, CommandsAreHere
<1>4. keyring = "unlocked"
  BY <1>1 DEF Orderly, NoncesComeUnlocked
<1>5. intent[c.id] # 0
  BY <1>1, <1>2 DEF Proper, UnusedIsUnknown, RequestTypes
<1>6. \A k \in Chains : \A r \in Sent(k) : r.id # c.id
  BY <1>1, <1>2 DEF Proper, SentIsApproved
<1>7. \A d \in CallsOf("receipt") : d.id # c.id
  BY <1>2 DEF Proper, AwaitsNonce
<1>8. \A d \in CommandsOn(c.id) : d = c
  BY <1>2 DEF Proper, OneCommand
<1>9. \A d \in calls \ {c} : d.type \in RequestTypes => d.id # c.id
  BY <1>7, <1>8 DEF CommandsOn, CallsOf, RequestTypes
<1> QED
  BY <1>2, <1>3, <1>4, <1>5, <1>6, <1>9

\* The answer to a publish request finds its transaction approved, on the
\* selected network, with no other request on it.
LEMMA PublishAnswered ==
  ASSUME TypeOK, Orderly, NEW c \in CallsOf("publish")
  PROVE  /\ c.id \in TxIds /\ c.chain = chain
         /\ Listed(chain, c.id) /\ txs[chain][c.id] \in Meta
         /\ txs[chain][c.id].status = "Approved"
         /\ txs[chain][c.id].nonce # None
         /\ c.raw = SignatureOf(c.id, txs[chain][c.id], chain)
         /\ intent[c.id] # 0
         /\ \A k \in Chains : Listed(k, c.id) => k = chain
         /\ \A d \in calls \ {c} : d.type \in RequestTypes => d.id # c.id
<1>0. chain \in Chains
  BY DEF TypeOK
<1>1. c \in calls /\ c.type = "publish" /\ c \in PublishCalls
  BY CallKinds DEF TypeOK, CallsOf
<1>2. /\ c.id \in TxIds
      /\ c \in CommandsOn(c.id)
      /\ Proper(c.id)
  BY <1>1 DEF PublishCalls, CommandsOn, CallsOf, Orderly
<1>3. c.chain = chain /\ \A k \in Chains : Listed(k, c.id) => k = chain
  BY <1>2 DEF Proper, CommandsAreHere
<1>4. /\ Listed(chain, c.id)
      /\ txs[chain][c.id].status = "Approved"
      /\ txs[chain][c.id].nonce # None
      /\ c.raw = SignatureOf(c.id, txs[chain][c.id], chain)
  BY <1>2 DEF Proper, AwaitsPublish
<1>5. intent[c.id] # 0
  BY <1>1, <1>2 DEF Proper, UnusedIsUnknown, RequestTypes
<1>6. txs[chain][c.id] \in Meta
  BY <1>0, <1>2, <1>4, ListedType
<1>7. \A d \in calls : d.type = "receipt" => d.id # c.id
  BY <1>0, <1>2, <1>4 DEF Proper, ReceiptsFit, Out, CallsOf
<1>8. \A d \in CommandsOn(c.id) : d = c
  BY <1>2 DEF Proper, OneCommand
<1>9. \A d \in calls \ {c} : d.type \in RequestTypes => d.id # c.id
  BY <1>7, <1>8 DEF CommandsOn, CallsOf, RequestTypes
<1> QED
  BY <1>2, <1>3, <1>4, <1>5, <1>6, <1>9

\* Storing the outcome of a command that has come to an end.
LEMMA EndedOrderly ==
  ASSUME TypeOK, Orderly, NEW i \in TxIds, NEW m \in Meta, m.status \notin Out,
         m.status \in {"Unapproved", "Rejected"} =>
           \A k \in Chains : \A r \in Sent(k) : r.id # i,
         NEW cs \in SUBSET calls,
         \A c \in cs : c.type \in RequestTypes => c.id # i,
         intent[i] # 0, \A k \in Chains : Listed(k, i) => k = chain,
         SaveTx(i, m, cs),
         UNCHANGED <<chain, keyring, networkVars, intent, dchecks>>
  PROVE  Orderly'
<1>1. \A j \in TxIds : Proper(j)
  BY DEF Orderly
<1>2. Rewrites(i, m) /\ Leaves(cs) /\ calls' = cs
  BY SaveTxRewrites DEF SaveTx
<1>3. Writes(i, m)
  BY <1>2 DEF Writes
<1>4. Proper(i)'
  BY <1>2, <1>3, WrittenIdle DEF Out
<1>5. (\A j \in TxIds : Proper(j))'
  BY <1>1, <1>2, <1>3, <1>4, HandlerStep
<1> QED
  BY <1>2, <1>5, RestKept DEF Orderly

\* Calling back does.
LEMMA QuietOrderly ==
  ASSUME TypeOK, Orderly,
         UNCHANGED <<chain, keyring, intent, dchecks, networkVars>>,
         \A k \in Chains, j \in TxIds :
           \/ txs'[k][j] = txs[k][j]
           \/ k = chain /\ MayGo(txs[k][j]) /\ txs'[k][j] = None,
         \A c \in calls' : c \in calls \/ c.type = "count" \/ FreshReceipt(c)
  PROVE  Orderly'
<1>1. \A c \in calls' :
        c \in calls \/ c.type \notin RequestTypes \/ FreshReceipt(c)
  BY DEF RequestTypes
<1>2. \A c \in calls' : c.type \in {"gas", "nonce"} => c \in calls
  BY DEF FreshReceipt
<1>3. (\A j \in TxIds : Proper(j))'
  BY <1>1, QuietHandler DEF Orderly
<1> QED
  BY <1>2, <1>3, RestKept DEF Orderly

\* A round of updates does.
LEMMA UpdateOrderly ==
  ASSUME TypeOK, Orderly, NEW run, UpdatePendingTransactions(txs, calls, run),
         UNCHANGED <<chain, keyring, intent, dchecks, networkVars>>
  PROVE  Orderly'
<1>1. txs \in Stores
  BY DEF TypeOK
<1>2. /\ \A k \in Chains, j \in TxIds :
           \/ txs'[k][j] = txs[k][j]
           \/ k = chain /\ MayGo(txs[k][j]) /\ txs'[k][j] = None
      /\ Leaves(calls)
  BY <1>1, UpdatePendingRows DEF MayGo, Out
<1> QED
  BY <1>2, QuietOrderly DEF Leaves

\* The callbacks keep the invariant, one case for each.
LEMMA WalletStepOrderly ==
  ASSUME TypeOK, Orderly, PatientClients, WalletStep
  PROVE  Orderly'
<1> USE DEF managerVars, trackerVars
<1>0. /\ \A j \in TxIds : Proper(j)
      /\ chain \in Chains /\ txs \in Stores /\ calls \in SUBSET Calls
  BY DEF Orderly, TypeOK
<1>1. ASSUME NEW c \in CallsOf("gas"), OnGetGas(c)
      PROVE  Orderly'
  <2>1. c \in calls /\ c \in GasCalls
    BY <1>0, CallKinds DEF CallsOf
  <2>2. c.meta \in Meta /\ c.intent \in 0 .. NumTxs
    BY <2>1 DEF GasCalls
  <2>3. c.meta.status = "Unapproved"
    BY DEF Orderly, DraftsAreUnapproved
  <2>4. UNCHANGED <<chain, keyring, networkVars, dchecks>>
    BY <1>1 DEF OnGetGas
  <2>5. CASE ContinueAddUnapprovedTransaction(c.meta, c.intent, calls \ {c})
    <3>1. calls \ {c} \in SUBSET calls
      OBVIOUS
    <3> QED
      BY <2>2, <2>3, <2>4, <2>5, <3>1, ContinueAddOrderly
  <2>6. CASE calls' = calls \ {c} /\ UNCHANGED <<txs, intent>>
    BY <2>4, <2>6, QuietOrderly
  <2> QED
    BY <1>1, <2>5, <2>6 DEF OnGetGas
<1>2. ASSUME NEW c \in CallsOf("nonce"),
             \A a \in Accounts : CheckNonceSet(a) = {},
             OnGetNextNonce(c)
      PROVE  Orderly'
  <2>1. PICK n \in Nonces : Sign(c.id, c.meta, c.chain, n, calls \ {c})
    BY <1>2 DEF OnGetNextNonce
  <2>2. /\ c.id \in TxIds /\ c.meta \in Meta /\ c.chain = chain
        /\ keyring = "unlocked"
        /\ intent[c.id] # 0
        /\ \A k \in Chains : Listed(k, c.id) => k = chain
        /\ \A d \in calls \ {c} : d.type \in RequestTypes => d.id # c.id
    BY NonceAnswered
  <2>3. dchecks' = dchecks
    <3>1. c.meta.from \in Accounts
      BY <2>2 DEF Meta
    <3> QED
      BY <1>2, <2>2, <3>1 DEF OnGetNextNonce, CheckKeyringUnlocked
  <2>4. UNCHANGED <<chain, keyring, networkVars, intent, dchecks>>
    BY <1>2, <2>3 DEF OnGetNextNonce
  <2>5. calls \ {c} \in SUBSET calls
    OBVIOUS
  <2> QED
    BY <2>1, <2>2, <2>4, <2>5, SignOrderly
<1>3. ASSUME NEW c \in CallsOf("nonce"),
             \A a \in Accounts : CheckNonceSet(a) = {},
             OnGetNextNonceForHardware(c)
      PROVE  Orderly'
  <2>1. PICK n \in Nonces :
          SaveTx(c.id, [c.meta EXCEPT !.nonce = n], calls \ {c})
    BY <1>3 DEF OnGetNextNonceForHardware
  <2> DEFINE m == [c.meta EXCEPT !.nonce = n]
  <2>2. /\ c.id \in TxIds /\ c.meta \in Meta
        /\ intent[c.id] # 0
        /\ \A k \in Chains : Listed(k, c.id) => k = chain
        /\ \A k \in Chains : \A r \in Sent(k) : r.id # c.id
        /\ \A d \in calls \ {c} : d.type \in RequestTypes => d.id # c.id
    BY NonceAnswered
  <2>3. c.meta.status = "Unapproved"
    BY <1>0, <2>2 DEF Proper, AwaitsNonce
  <2>4. m \in Meta /\ m.status \notin Out
    BY <2>2, <2>3 DEF Meta, Out
  <2>5. dchecks' = dchecks
    <3>1. c.meta.from \in Accounts
      BY <2>2 DEF Meta
    <3> QED
      BY <1>3, <3>1 DEF OnGetNextNonceForHardware
  <2>6. /\ UNCHANGED <<chain, keyring, networkVars, intent, dchecks>>
        /\ SaveTx(c.id, m, calls \ {c})
    BY <1>3, <2>1, <2>5 DEF OnGetNextNonceForHardware
  <2>7. calls \ {c} \in SUBSET calls
    OBVIOUS
  <2> HIDE DEF m
  <2> QED
    BY <2>2, <2>4, <2>6, <2>7, EndedOrderly
<1>4. ASSUME NEW c \in CallsOf("nonce"), OnGetNextNonceFailed(c)
      PROVE  Orderly'
  <2> DEFINE m == [c.meta EXCEPT !.status = "Error"]
  <2>1. /\ c.id \in TxIds /\ c.meta \in Meta
        /\ intent[c.id] # 0
        /\ \A k \in Chains : Listed(k, c.id) => k = chain
        /\ \A d \in calls \ {c} : d.type \in RequestTypes => d.id # c.id
    BY NonceAnswered
  <2>2. m \in Meta /\ m.status = "Error"
    BY <2>1 DEF Meta, Status
  <2>3. /\ UNCHANGED <<chain, keyring, networkVars, intent, dchecks>>
        /\ SaveTx(c.id, m, calls \ {c})
    BY <1>4 DEF OnGetNextNonceFailed
  <2>4. calls \ {c} \in SUBSET calls
    OBVIOUS
  <2> HIDE DEF m
  <2> QED
    BY <2>1, <2>2, <2>3, <2>4, EndedOrderly DEF Out
<1>5. ASSUME NEW a \in Accounts
      PROVE  CheckNonceSet(a) = {}
  <2>1. ASSUME NEW i \in ByStatusFrom(txs, chain, "Confirmed", a)
                           \cup ByStatusFrom(txs, chain, "Submitted", a)
        PROVE  txs[chain][i].nonce # None
    BY <1>0, <2>1 DEF ByStatusFrom, ByStatus, Proper, OutIsSealed, Listed, Out
  <2> QED
    BY <2>1 DEF CheckNonceSet, NoncesAreSet
<1>6. ASSUME NEW c \in CallsOf("publish"), OnPublishTransaction(c)
      PROVE  Orderly'
  <2> DEFINE i == c.id
             m == txs[chain][i]
             sent == [m EXCEPT !.status = "Submitted", !.hash = c.raw]
             failed == [m EXCEPT !.status = "Error"]
  <2>1. /\ i \in TxIds /\ m # None /\ m \in Meta
        /\ m.status = "Approved"
        /\ m.nonce # None
        /\ c.raw = SignatureOf(i, m, chain)
        /\ intent[i] # 0
        /\ \A k \in Chains : Listed(k, i) => k = chain
        /\ \A d \in calls \ {c} : d.type \in RequestTypes => d.id # i
    BY PublishAnswered DEF Listed
  <2>2. c.raw \in Signatures
    BY <1>0, CallKinds DEF CallsOf, PublishCalls
  <2>3. /\ sent \in Meta /\ sent.status = "Submitted" /\ sent.nonce # None
        /\ sent.hash = SignatureOf(i, sent, chain)
    BY <2>1, <2>2 DEF Meta, Status, SignatureOf
  <2>4. failed \in Meta /\ failed.status = "Error"
    BY <2>1 DEF Meta, Status
  <2>5. Tx(i) = m
    BY DEF Tx, GetTx
  <2>6. \/ /\ \E s \in AddOrUpdateTx(txs, chain, i, sent) :
                UpdatePendingTransactions(s, calls \ {c}, running)
           /\ UNCHANGED dchecks
        \/ SaveTx(i, failed, calls \ {c}) /\ UNCHANGED dchecks
    BY <1>6, <2>1, <2>5 DEF OnPublishTransaction, PublishFailed
  <2>7. UNCHANGED <<chain, keyring, networkVars, intent>>
    BY <1>6 DEF OnPublishTransaction
  <2>8. calls \ {c} \in SUBSET calls
    OBVIOUS
  <2> HIDE DEF i, m, sent, failed
  <2>9. CASE SaveTx(i, failed, calls \ {c}) /\ UNCHANGED dchecks
    BY <2>1, <2>4, <2>7, <2>8, <2>9, EndedOrderly DEF Out
  <2>10. CASE /\ \E s \in AddOrUpdateTx(txs, chain, i, sent) :
                   UpdatePendingTransactions(s, calls \ {c}, running)
              /\ UNCHANGED dchecks
    <3>1. PICK s \in AddOrUpdateTx(txs, chain, i, sent) :
            UpdatePendingTransactions(s, calls \ {c}, running)
      BY <2>10
    <3>2. s \in Stores
      BY <1>0, <2>1, <2>3, AddOrUpdateType
    <3>3. IsRewritten(txs, s, chain, i, sent)
      BY <1>0, <2>1, <2>3, AddOrUpdateRewrites
    <3>4. Rewrites(i, sent) /\ Leaves(calls \ {c})
      BY <2>1, <3>1, <3>2, <3>3, UpdateAfterWrite
    <3>5. Writes(i, sent)
      BY <2>1, <2>7, <3>4 DEF Writes
    <3>6. \A d \in calls' : d.type \in RequestTypes /\ d.id = i => FreshReceipt(d)
      BY <2>1, <3>4 DEF Leaves
    <3>7. Proper(i)'
      BY <2>1, <2>3, <3>5, <3>6, WrittenIdle
    <3>8. \A d \in calls \ {c} : d.type \in RequestTypes /\ d.id # i => d \in calls
      OBVIOUS
    <3>9. (\A j \in TxIds : Proper(j))'
      BY <1>0, <2>1, <2>3, <2>7, <3>4, <3>5, <3>7, <3>8, HandlerStep
    <3>10. \A d \in calls' : d.type \in {"gas", "nonce"} => d \in calls
      BY <3>4 DEF Leaves, FreshReceipt
    <3> QED
      BY <2>7, <2>10, <3>9, <3>10, RestKept DEF Orderly
  <2> QED
    BY <2>6, <2>9, <2>10
<1>7. ASSUME NEW c \in CallsOf("receipt"), OnGetTxReceipt(c)
      PROVE  Orderly'
  <2> DEFINE i == c.id
             m == txs[chain][i]
             sure == [m EXCEPT !.status = "Confirmed"]
  <2>1. c \in calls /\ c.type = "receipt" /\ i \in TxIds
    BY <1>0, CallKinds DEF CallsOf, ReceiptCalls
  <2>2. Tx(i) = m /\ m # None
    BY <1>7 DEF OnGetTxReceipt, Tx, GetTx
  <2>3. /\ c.chain = chain
        /\ m \in Meta
        /\ m.status \in Out
        /\ m.hash = c.hash
        /\ m.nonce # None
        /\ m.hash = SignatureOf(i, m, chain)
        /\ CommandsOn(i) = {}
        /\ intent[i] # 0
        /\ \A k \in Chains : Listed(k, i) => k = chain
    <3>1. Listed(chain, i) /\ Proper(i)
      BY <1>0, <2>1, <2>2 DEF Listed
    <3>2. c.chain = chain /\ m.status \in Out /\ m.hash = c.hash
      BY <1>0, <3>1 DEF Proper, ReceiptsFit
    <3>3. /\ m.nonce # None
          /\ m.hash = SignatureOf(i, m, chain)
          /\ CommandsOn(i) = {}
      BY <1>0, <3>1, <3>2 DEF Proper, OutIsSealed
    <3>4. intent[i] # 0 /\ \A k \in Chains : Listed(k, i) => k = chain
      BY <1>0, <3>1 DEF Proper, UnusedIsUnknown, ListedOnce
    <3>5. m \in Meta
      BY <1>0, <2>1, <3>1, ListedType
    <3> QED
      BY <3>2, <3>3, <3>4, <3>5
  <2>4. /\ sure \in Meta /\ sure.status = "Confirmed" /\ sure.hash = m.hash
        /\ sure.nonce = m.nonce /\ sure.from = m.from
    BY <2>3 DEF Meta, Status
  <2>5. UNCHANGED <<chain, keyring, networkVars, intent, dchecks>>
    BY <1>7 DEF OnGetTxReceipt
  <2>6. \/ Succeeded(c) /\ SaveTx(i, sure, calls \ {c})
        \/ ShouldTxDropped(i, m, calls \ {c})
    BY <1>7, <2>2 DEF OnGetTxReceipt
  <2> HIDE DEF i, m, sure
  <2>7. CASE Succeeded(c) /\ SaveTx(i, sure, calls \ {c})
    <3>1. sure.hash \in mined[chain]
      BY <2>3, <2>4, <2>7 DEF Succeeded
    <3>2. Rewrites(i, sure) /\ Leaves(calls \ {c}) /\ calls' = calls \ {c}
      BY <2>1, <2>4, <2>7, SaveTxRewrites DEF SaveTx
    <3>3. Writes(i, sure)
      BY <2>3, <2>5, <3>2 DEF Writes
    <3>4. sure.hash = SignatureOf(i, sure, chain)
      BY <2>3, <2>4 DEF SignatureOf
    <3>5. \A d \in calls' : d.type \in RequestTypes /\ d.id = i =>
            /\ d.type = "receipt"
            /\ d.chain = chain
            /\ sure.hash = d.hash
      <4> SUFFICES ASSUME NEW d \in calls, d.type \in RequestTypes, d.id = i
                   PROVE  /\ d.type = "receipt"
                          /\ d.chain = chain
                          /\ sure.hash = d.hash
        BY <3>2
      <4>1. d.type = "receipt"
        BY <2>3 DEF CommandsOn, CallsOf, RequestTypes
      <4>2. Listed(chain, i) /\ Proper(i)
        BY <1>0, <2>1, <2>2 DEF Listed, m
      <4> QED
        BY <1>0, <2>4, <4>1, <4>2 DEF Proper, ReceiptsFit, CallsOf, m
    <3>6. Proper(i)'
      BY <2>1, <2>3, <2>4, <3>1, <3>3, <3>4, <3>5, WrittenIdle DEF Out
    <3>7. \A d \in calls \ {c} : d.type \in RequestTypes /\ d.id # i => d \in calls
      OBVIOUS
    <3>8. (\A j \in TxIds : Proper(j))'
      BY <1>0, <2>1, <2>4, <2>5, <3>2, <3>3, <3>6, <3>7, HandlerStep
    <3> QED
      BY <2>5, <3>2, <3>8, RestKept DEF Orderly
  <2>8. CASE ShouldTxDropped(i, m, calls \ {c})
    <3>1. txs' = txs \/ txs' = DeleteTx(txs, chain, i)
      BY <2>8 DEF ShouldTxDropped
    <3>2. MayGo(m)
      BY <2>2, <2>3 DEF MayGo
    <3>3. \A k \in Chains, j \in TxIds :
            \/ txs'[k][j] = txs[k][j]
            \/ k = chain /\ MayGo(txs[k][j]) /\ txs'[k][j] = None
      <4>1. CASE txs' = DeleteTx(txs, chain, i)
        <5>1. \A k \in Chains, j \in TxIds :
                txs'[k][j] = IF k = chain /\ j = i THEN None ELSE txs[k][j]
          BY <1>0, <2>1, <4>1, PutRows DEF DeleteTx
        <5> QED
          BY <3>2, <5>1 DEF m
      <4> QED
        BY <3>1, <4>1
    <3>4. \A d \in calls' : d \in calls \/ d.type = "count"
      BY <2>8 DEF ShouldTxDropped
    <3> QED
      BY <2>5, <3>3, <3>4, QuietOrderly
  <2> QED
    BY <2>6, <2>7, <2>8
<1>8. CASE \/ \E c \in CallsOf("receipt") : OnNoTxReceipt(c)
           \/ \E c \in CallsOf("count") : OnGetNetworkNonce(c)
           \/ GetBlockNumber
           \/ OnNoNewBlock
  <2>1. /\ UNCHANGED <<chain, keyring, txs, intent, dchecks, networkVars>>
        /\ calls' \subseteq calls
    BY <1>8 DEF OnNoTxReceipt, OnGetNetworkNonce, GetBlockNumber, OnNoNewBlock
  <2> QED
    BY <2>1, QuietOrderly
<1>9. CASE OnNewBlock
  BY <1>9, UpdateOrderly DEF OnNewBlock
<1>10. CASE OnKeyringNotice
  <2>1. UNCHANGED <<chain, keyring, intent, dchecks, networkVars>>
    BY <1>10 DEF OnKeyringNotice
  <2>2. \/ UNCHANGED <<txs, calls>>
        \/ \E run : UpdatePendingTransactions(txs, calls, run)
    BY <1>10 DEF OnKeyringNotice
  <2> QED
    BY <2>1, <2>2, UpdateOrderly, QuietOrderly
<1> QED
  BY <1>1, <1>2, <1>3, <1>4, <1>5, <1>6, <1>7, <1>8, <1>9, <1>10
  DEF WalletStep

\* The nodes keep the invariant: what they take has been signed.
LEMMA NetworkStepOrderly ==
  ASSUME TypeOK, Orderly, NetworkStep
  PROVE  Orderly'
<1> USE DEF managerVars, trackerVars
<1>0. /\ \A j \in TxIds : Proper(j)
      /\ chain \in Chains
      /\ pool \in [Chains -> SUBSET SignedTx]
      /\ mined \in [Chains -> SUBSET SignedTx]
      /\ reverted \in [Chains -> SUBSET SignedTx]
  BY DEF Orderly, TypeOK
<1>1. ASSUME NEW c \in CallsOf("publish"), NodeAccepts(c)
      PROVE  Orderly'
  <2> DEFINE i == c.id
             d == [c EXCEPT !.accepted = TRUE]
  <2>1. /\ i \in TxIds /\ c.chain = chain
        /\ Listed(chain, i)
        /\ txs[chain][i].status = "Approved"
        /\ txs[chain][i].nonce # None
        /\ c.raw = SignatureOf(i, txs[chain][i], chain)
        /\ intent[i] # 0
        /\ \A k \in Chains : Listed(k, i) => k = chain
        /\ \A e \in calls \ {c} : e.type \in RequestTypes => e.id # i
    BY PublishAnswered
  <2>2. /\ d.type = "publish" /\ d.id = i /\ d.chain = chain /\ d.raw = c.raw
        /\ c \in calls
    <3>1. c \in PublishCalls /\ c \in calls /\ c.type = "publish"
      BY CallKinds DEF TypeOK, CallsOf
    <3> QED
      BY <2>1, <3>1 DEF PublishCalls
  <2>3. /\ calls' = (calls \ {c}) \cup {d}
        /\ UNCHANGED <<chain, keyring, txs, mined, reverted, intent, dchecks>>
        /\ pool' = [pool EXCEPT ![chain] = @ \cup {c.raw}]
    BY <1>1, <2>1 DEF NodeAccepts
  <2>4. \A k \in Chains : \A r \in Sent(k)' : r \in Sent(k) \/ r = c.raw
    BY <1>0, <2>3 DEF Sent
  <2>5. c.raw.id = i
    BY <2>1 DEF SignatureOf
  <2> HIDE DEF d, i
  <2>6. ASSUME NEW j \in TxIds, j # i
        PROVE  Proper(j)'
    <3>1. LeavesAlone(j)
      BY <2>2, <2>3, <2>4, <2>5, <2>6 DEF LeavesAlone
    <3> QED
      BY <1>0, <3>1, StaysProper
  <2>7. Proper(i)'
    <3>1. \A e \in calls' : e.type \in RequestTypes /\ e.id = i => e = d
      BY <2>1, <2>3
    <3>2. \A e \in CommandsOn(i)' : e = d
      BY <3>1 DEF CommandsOn, CallsOf, RequestTypes
    <3>3. \A k \in Chains : Listed(k, i)' = Listed(k, i)
      BY <2>3 DEF Listed
    <3>4. UnusedIsUnknown(i)' /\ ListedOnce(i)'
      BY <2>1, <2>3, <3>3 DEF UnusedIsUnknown, ListedOnce
    <3>5. OutIsSealed(i)' /\ ConfirmedIsMined(i)'
      BY <2>1, <2>3, <3>3 DEF OutIsSealed, ConfirmedIsMined, Out
    <3>6. OneCommand(i)' /\ CommandsAreHere(i)'
      BY <2>1, <2>2, <2>3, <3>2, <3>3 DEF OneCommand, CommandsAreHere
    <3>7. \A e \in calls' : e.type \in {"nonce", "receipt"} => e.id # i
      BY <2>2, <3>1 DEF RequestTypes
    <3>8. AwaitsNonce(i)' /\ ReceiptsFit(i)'
      BY <3>7 DEF AwaitsNonce, ReceiptsFit, CallsOf
    <3>9. AwaitsPublish(i)'
      <4>1. \A e \in CallsOf("publish")' : e.id = i => e = d
        BY <3>1 DEF CallsOf, RequestTypes
      <4> QED
        BY <1>0, <2>1, <2>2, <2>3, <3>3, <4>1 DEF AwaitsPublish, SignatureOf
    <3>10. SentIsApproved(i)'
      BY <2>1, <2>3, <3>3, <3>7 DEF SentIsApproved, CallsOf
    <3> QED
      BY <3>4, <3>5, <3>6, <3>8, <3>9, <3>10 DEF Proper
  <2>8. \A e \in calls' : e.type \in {"gas", "nonce"} => e \in calls
    BY <2>2, <2>3
  <2>9. (\A j \in TxIds : Proper(j))'
    BY <2>6, <2>7
  <2> QED
    BY <2>3, <2>8, <2>9, RestKept DEF Orderly
<1>2. ASSUME NEW k \in Chains, NEW i \in TxIds, PageBroadcasts(k, i)
      PROVE  Orderly'
  <2> DEFINE h == txs[k][i].hash
  <2>1. /\ Listed(k, i)
        /\ txs[k][i].status = "Signed"
    BY <1>2 DEF PageBroadcasts, ByStatus, Listed
  <2>2. h = SignatureOf(i, txs[k][i], k) /\ CommandsOn(i) = {}
    BY <1>0, <2>1 DEF Proper, OutIsSealed, Out
  <2>3. h.id = i
    BY <2>2 DEF SignatureOf
  <2>4. /\ UNCHANGED <<chain, keyring, txs, calls, mined, reverted, intent,
                       dchecks>>
        /\ pool' = [pool EXCEPT ![k] = @ \cup {h}]
    BY <1>2 DEF PageBroadcasts
  <2> HIDE DEF h
  <2>5. \A l \in Chains : \A r \in Sent(l)' : r \in Sent(l) \/ r = h
    BY <1>0, <2>4 DEF Sent
  <2>6. ASSUME NEW j \in TxIds, j # i
        PROVE  Proper(j)'
    <3>1. LeavesAlone(j)
      BY <2>3, <2>4, <2>5, <2>6 DEF LeavesAlone
    <3> QED
      BY <1>0, <3>1, StaysProper
  <2>7. Proper(i)'
    <3>1. \A l \in Chains : Listed(l, i)' = Listed(l, i)
      BY <2>4 DEF Listed
    <3>2. /\ CommandsOn(i)' = CommandsOn(i)
          /\ \A t : CallsOf(t)' = CallsOf(t)
      BY <2>4 DEF CommandsOn, CallsOf
    <3>3. UnusedIsUnknown(i)' /\ ListedOnce(i)'
      BY <1>0, <2>1, <2>4, <3>1 DEF Proper, UnusedIsUnknown, ListedOnce
    <3>4. OutIsSealed(i)' /\ ConfirmedIsMined(i)' /\ ReceiptsFit(i)'
      BY <1>0, <2>4, <3>1, <3>2
      DEF Proper, OutIsSealed, ConfirmedIsMined, ReceiptsFit, SignatureOf
    <3>5. OneCommand(i)' /\ CommandsAreHere(i)'
      BY <2>2, <3>2 DEF OneCommand, CommandsAreHere
    <3>6. \A c \in calls : c.type \in {"nonce", "publish"} => c.id # i
      BY <2>2 DEF CommandsOn, CallsOf
    <3>7. AwaitsNonce(i)' /\ AwaitsPublish(i)'
      BY <2>4, <3>6 DEF AwaitsNonce, AwaitsPublish, CallsOf
    <3>8. SentIsApproved(i)'
      <4>1. \A l \in Chains : Listed(l, i) => l = k
        BY <1>0, <2>1 DEF Proper, ListedOnce
      <4> QED
        BY <2>1, <2>4, <3>1, <3>6, <4>1 DEF SentIsApproved, CallsOf
    <3> QED
      BY <3>3, <3>4, <3>5, <3>7, <3>8 DEF Proper
  <2>8. (\A j \in TxIds : Proper(j))'
    BY <2>6, <2>7
  <2> QED
    BY <2>4, <2>8, RestKept DEF Orderly
<1>3. ASSUME UNCHANGED <<chain, keyring, txs, calls, intent, dchecks>>,
             \A k \in Chains : /\ mined[k] \subseteq mined'[k]
                               /\ Sent(k)' \subseteq Sent(k)
      PROVE  Orderly'
  <2>1. ASSUME NEW j \in TxIds
        PROVE  Proper(j)'
    <3>1. LeavesAlone(j)
      BY <1>3 DEF LeavesAlone
    <3> QED
      BY <1>0, <3>1, StaysProper
  <2> QED
    BY <1>3, <2>1, RestKept DEF Orderly
<1>4. ASSUME NEW k \in Chains, NEW raw \in pool[k], Mine(k, raw)
      PROVE  Orderly'
  <2>1. pool' = [pool EXCEPT ![k] =
                   {r \in @ : r.from # raw.from
                                \/ r.nonce # netNonce[k][raw.from]}]
    BY <1>4 DEF Mine, UseNonce
  <2>2. \/ mined' = [mined EXCEPT ![k] = @ \cup {raw}] /\ reverted' = reverted
        \/ reverted' = [reverted EXCEPT ![k] = @ \cup {raw}] /\ mined' = mined
    BY <1>4 DEF Mine
  <2>3. \A l \in Chains : /\ mined[l] \subseteq mined'[l]
                          /\ Sent(l)' \subseteq Sent(l)
    BY <1>0, <2>1, <2>2 DEF Sent
  <2> QED
    BY <1>3, <1>4, <2>3 DEF Mine
<1>5. ASSUME NEW k \in Chains, NEW a \in Accounts, OutsideTx(k, a)
      PROVE  Orderly'
  <2>1. /\ pool' = [pool EXCEPT ![k] =
                      {r \in @ : r.from # a \/ r.nonce # netNonce[k][a]}]
        /\ UNCHANGED <<mined, reverted>>
    BY <1>5 DEF OutsideTx, UseNonce
  <2>2. \A l \in Chains : /\ mined[l] \subseteq mined'[l]
                          /\ Sent(l)' \subseteq Sent(l)
    BY <1>0, <2>1 DEF Sent
  <2> QED
    BY <1>3, <1>5, <2>2 DEF OutsideTx
<1> QED
  BY <1>1, <1>2, <1>4, <1>5 DEF NetworkStep

\* A fresh profile satisfies the invariant.
LEMMA OrderlyInit == Init => Orderly
<1> SUFFICES ASSUME Init PROVE Orderly
  OBVIOUS
<1>1. /\ calls = {} /\ dchecks = {}
      /\ \A k \in Chains : Sent(k) = {}
      /\ \A k \in Chains, i \in TxIds : ~Listed(k, i)
  BY DEF Init, Sent, Listed, EmptyStore
<1>2. ASSUME NEW i \in TxIds
      PROVE  Proper(i)
  BY <1>1 DEF Proper, UnusedIsUnknown, ListedOnce, OutIsSealed,
       ConfirmedIsMined, OneCommand, CommandsAreHere, AwaitsNonce,
       AwaitsPublish, ReceiptsFit, SentIsApproved, CommandsOn, CallsOf
<1> QED
  BY <1>1, <1>2 DEF Orderly, DraftsAreUnapproved, NoncesComeUnlocked,
                    AssertionsHold, CallsOf

\* With clients that wait, every step of anyone keeps the invariant.
LEMMA OrderlyStep ==
  ASSUME PatientClients
  PROVE  TypeOK /\ Orderly /\ [Next]_vars => Orderly'
<1>1. ASSUME TypeOK, Orderly, UNCHANGED vars
      PROVE  Orderly'
  <2>1. UNCHANGED <<chain, keyring, txs, calls, intent, dchecks, networkVars>>
    BY <1>1 DEF vars
  <2> QED
    BY <1>1, <2>1, QuietOrderly
<1> QED
  BY <1>1, UserStepOrderly, WalletStepOrderly, NetworkStepOrderly DEF Next

\* With clients that wait, the invariant holds in every reachable state.
LEMMA AlwaysOrderly ==
  ASSUME PatientClients
  PROVE  Spec => []Orderly
BY OrderlyInit, OrderlyStep, TypeCorrect, PTL DEF Spec

-----------------------------------------------------------------------------
(* What follows for the properties the runs check *)

\* Every assertion of the code holds for clients that wait: the keyring is
\* unlocked when a nonce arrives (eth_tx_manager.cc:551), the transaction of an
\* answered publish request is stored (eth_tx_manager.cc:597), and confirmed
\* and submitted transactions have a nonce (eth_nonce_tracker.cc:38).
THEOREM AssertionsAlwaysHold ==
  ASSUME PatientClients
  PROVE  Spec => []AssertionsHold
<1>1. Orderly => AssertionsHold
  BY DEF Orderly
<1> QED
  BY <1>1, AlwaysOrderly, PTL

\* A transaction shown as rejected is neither with a node nor in a publish
\* request, whatever restarts, resets and fails around it.  A panel that closes
\* may reject one whose nonce is asked for: that one is no longer shown as
\* rejected by the time it is sent.
THEOREM RejectedNeverSent ==
  ASSUME PatientClients
  PROVE  Spec => []RejectedIsNotSent
<1>1. ASSUME Orderly, NEW c \in Chains, NEW i \in ByStatus(txs, c, "Rejected")
      PROVE  ~SentOff(i)
  <2>1. i \in TxIds /\ Listed(c, i) /\ txs[c][i].status = "Rejected"
    BY DEF ByStatus, Listed
  <2>2. Proper(i)
    BY <1>1, <2>1 DEF Orderly
  <2>3. ASSUME NEW p \in CallsOf("publish"), p.id = i
        PROVE  FALSE
    <3>1. p \in CommandsOn(i)
      BY <2>3 DEF CommandsOn
    <3>2. c = chain
      BY <2>1, <2>2, <3>1 DEF Proper, CommandsAreHere
    <3> QED
      BY <2>1, <2>2, <2>3, <3>2 DEF Proper, AwaitsPublish
  <2>4. ASSUME NEW k \in Chains, NEW r \in Sent(k), r.id = i
        PROVE  FALSE
    BY <2>1, <2>2, <2>4 DEF Proper, SentIsApproved
  <2> QED
    BY <2>3, <2>4 DEF SentOff, Sent
<1>2. Orderly => RejectedIsNotSent
  BY <1>1 DEF RejectedIsNotSent
<1> QED
  BY <1>2, AlwaysOrderly, PTL

\* Confirmed means mined, on the network the transaction is listed under,
\* however late the receipt comes and whatever network is selected by then.
THEOREM ConfirmedAlwaysMined ==
  ASSUME PatientClients
  PROVE  Spec => []ConfirmedWasMined
<1>1. Orderly => ConfirmedWasMined
  BY DEF Orderly, Proper, ConfirmedIsMined, ConfirmedWasMined, ByStatus, Listed
<1> QED
  BY <1>1, AlwaysOrderly, PTL


-----------------------------------------------------------------------------
(* The life of a transaction *)

\* What may go from the list after it has come to a status could go before.
LEMMA GoingIsAnEdge ==
  ASSUME NEW a \in Lifecycle!States, NEW b \in Out \cup {"Rejected"},
         a = b \/ <<a, b>> \in Lifecycle!Edges
  PROVE  a = "absent" \/ <<a, "absent">> \in Lifecycle!Edges
BY DEF Lifecycle!States, Lifecycle!Edges, Out

\* What a status is listed as.
LEMMA ListedAs ==
  ASSUME TypeOK, NEW k \in Chains, NEW i \in TxIds
  PROVE  /\ listed[k][i] = IF txs[k][i] = None THEN "absent"
                                               ELSE txs[k][i].status
         /\ listed[k][i] \in Lifecycle!States
<1>1. txs[k][i] \in Meta \cup {None}
  BY DEF TypeOK, Stores
<1> QED
  BY <1>1 DEF listed, Lifecycle!States, Meta, Status

\* The nonce of transaction i is asked for.
Asks(i) == \E d \in CallsOf("nonce") : d.id = i

\* Nonces are asked for on the selected network.
LEMMA AwaitedHere ==
  ASSUME Orderly, NEW i \in TxIds, NEW k \in Chains
  PROVE  i \in awaited[k] <=> k = chain /\ Asks(i)
<1>1. \A d \in CallsOf("nonce") : d.id = i => d.chain = chain
  BY DEF Orderly, Proper, CommandsAreHere, CommandsOn
<1> QED
  BY <1>1 DEF awaited, Asks

LEMMA AwaitedHereNext ==
  ASSUME Orderly', NEW i \in TxIds, NEW k \in Chains
  PROVE  i \in awaited'[k] <=> k = chain' /\ Asks(i)'
<1>1. \A d \in CallsOf("nonce")' : d.id = i => d.chain = chain'
  BY DEF Orderly, Proper, CommandsAreHere, CommandsOn
<1> QED
  BY <1>1 DEF awaited, Asks

\* While its nonce is asked for, a transaction waits or has been rejected.
LEMMA AskedIsListed ==
  ASSUME TypeOK, Orderly, NEW i \in TxIds, Asks(i)
  PROVE  listed[chain][i] \in {"absent", "Unapproved", "Rejected"}
<1>1. chain \in Chains
  BY DEF TypeOK
<1>2. Listed(chain, i) => txs[chain][i].status \in {"Unapproved", "Rejected"}
  BY DEF Orderly, Proper, AwaitsNonce, Asks
<1> QED
  BY <1>1, <1>2, ListedAs DEF Listed

\* What a step may do to one transaction of the selected network.
TxMoves(i) ==
  \/ /\ ~Asks(i) /\ ~Asks(i)'
     /\ \/ listed'[chain][i] = listed[chain][i]
        \/ <<listed[chain][i], listed'[chain][i]>> \in Lifecycle!Edges
  \/ /\ Asks(i) /\ Asks(i)'
     /\ \/ listed'[chain][i] = listed[chain][i]
        \/ <<listed[chain][i], listed'[chain][i]>> \in Lifecycle!AskedEdges
  \/ /\ ~Asks(i) /\ Asks(i)'
     /\ listed[chain][i] = "Unapproved" /\ listed'[chain][i] = "Unapproved"
  \/ /\ Asks(i) /\ ~Asks(i)'
     /\ listed'[chain][i] \in Lifecycle!AfterAnswer

\* A step that does so to each, and leaves the other networks, is a move.
LEMMA StepMoves ==
  ASSUME TypeOK, Orderly, Orderly', chain' = chain,
         \A k \in Chains \ {chain}, j \in TxIds : txs'[k][j] = txs[k][j],
         \A j \in TxIds : TxMoves(j)
  PROVE  Lifecycle!Move(chain)
<1>1. chain \in Chains
  BY DEF TypeOK
<1>2. ASSUME NEW j \in TxIds
      PROVE  \/ /\ j \notin awaited[chain]
                /\ Lifecycle!Along(chain, j, Lifecycle!Edges)
             \/ /\ j \in awaited[chain]
                /\ Lifecycle!Along(chain, j, Lifecycle!AskedEdges)
             \/ Lifecycle!Ask(chain, j)
             \/ Lifecycle!Answer(chain, j)
  <2>1. /\ j \in awaited[chain] <=> Asks(j)
        /\ j \in awaited'[chain] <=> Asks(j)'
    BY <1>1, AwaitedHere, AwaitedHereNext
  <2>2. Asks(j) => listed[chain][j] \in Lifecycle!BeforeAnswer
    BY AskedIsListed DEF Lifecycle!BeforeAnswer
  <2> QED
    BY <2>1, <2>2
    DEF TxMoves, Lifecycle!Along, Lifecycle!Ask, Lifecycle!Answer
<1>3. ASSUME NEW k \in Chains \ {chain}
      PROVE  listed'[k] = listed[k] /\ awaited'[k] = awaited[k]
  <2>1. \A j \in TxIds : j \notin awaited[k] /\ j \notin awaited'[k]
    BY <1>3, AwaitedHere, AwaitedHereNext
  <2>2. awaited[k] \subseteq TxIds /\ awaited'[k] \subseteq TxIds
    BY <1>3 DEF awaited
  <2>3. awaited'[k] = awaited[k]
    BY <2>1, <2>2
  <2> QED
    BY <1>3, <2>3 DEF listed
<1> QED
  BY <1>2, <1>3 DEF Lifecycle!Move

\* A step that asks for the nonces it asked for, and no others, is quiet.
AsksAsBefore(j) == Asks(j)' <=> Asks(j)

\* A transaction that stays, or goes if it may.
LEMMA KeptMoves ==
  ASSUME TypeOK, Orderly, chain' = chain, NEW j \in TxIds, AsksAsBefore(j),
         \/ txs'[chain][j] = txs[chain][j]
         \/ MayGo(txs[chain][j]) /\ txs'[chain][j] = None
  PROVE  TxMoves(j)
<1>1. chain \in Chains
  BY DEF TypeOK
<1>2. listed[chain][j] = IF txs[chain][j] = None THEN "absent"
                                                 ELSE txs[chain][j].status
  BY <1>1, ListedAs
<1>3. listed'[chain][j] = IF txs'[chain][j] = None THEN "absent"
                                                   ELSE txs'[chain][j].status
  BY <1>1 DEF listed
<1>4. CASE txs'[chain][j] = txs[chain][j]
  BY <1>2, <1>3, <1>4 DEF TxMoves, AsksAsBefore
<1>5. CASE MayGo(txs[chain][j]) /\ txs'[chain][j] = None
  <2>1. /\ listed[chain][j] \in Out \cup {"Rejected"}
        /\ listed'[chain][j] = "absent"
    BY <1>2, <1>3, <1>5 DEF MayGo
  <2>2. Asks(j) => listed[chain][j] = "Rejected"
    BY <2>1, AskedIsListed DEF Out
  <2> QED
    BY <2>1, <2>2
    DEF TxMoves, AsksAsBefore, Out, Lifecycle!Edges, Lifecycle!AskedEdges
<1> QED
  BY <1>4, <1>5

\* Writing one transaction is a move if it is one for that transaction.
LEMMA WriteMoves ==
  ASSUME TypeOK, Orderly, Orderly', chain' = chain,
         NEW i \in TxIds, NEW m, Rewrites(i, m),
         \A j \in TxIds \ {i} : AsksAsBefore(j), TxMoves(i)
  PROVE  Lifecycle!Move(chain)
<1>1. chain \in Chains
  BY DEF TypeOK
<1>2. ASSUME NEW j \in TxIds \ {i}
      PROVE  TxMoves(j)
  <2>1. \/ txs'[chain][j] = txs[chain][j]
        \/ MayGo(txs[chain][j]) /\ txs'[chain][j] = None
    BY <1>1 DEF Rewrites, IsRewritten
  <2> QED
    BY <2>1, KeptMoves
<1>3. \A k \in Chains \ {chain}, j \in TxIds : txs'[k][j] = txs[k][j]
  BY DEF Rewrites, IsRewritten
<1> QED
  BY <1>2, <1>3, StepMoves

\* Writing a transaction whose nonce nobody asks for, along an edge.
LEMMA IdleMoves ==
  ASSUME TypeOK, chain' = chain, NEW i \in TxIds, NEW m \in Meta,
         Rewrites(i, m), ~Asks(i), ~Asks(i)',
         \/ listed[chain][i] = m.status
         \/ <<listed[chain][i], m.status>> \in Lifecycle!Edges
  PROVE  TxMoves(i)
<1>1. chain \in Chains /\ m # None
  BY NoMetaAssumption DEF TypeOK
<1>2. \/ txs'[chain][i] = m
      \/ MayGo(m) /\ txs'[chain][i] = None
  BY <1>1 DEF Rewrites, IsRewritten
<1>3. listed'[chain][i] = IF txs'[chain][i] = None THEN "absent"
                                                   ELSE txs'[chain][i].status
  BY <1>1 DEF listed
<1>4. CASE txs'[chain][i] = m
  BY <1>1, <1>3, <1>4 DEF TxMoves
<1>5. CASE MayGo(m) /\ txs'[chain][i] = None
  <2>1. listed[chain][i] \in Lifecycle!States
    BY <1>1, ListedAs
  <2>2. \/ listed[chain][i] = "absent"
        \/ <<listed[chain][i], "absent">> \in Lifecycle!Edges
    BY <1>5, <2>1, GoingIsAnEdge DEF MayGo
  <2> QED
    BY <1>3, <1>5, <2>2 DEF TxMoves
<1> QED
  BY <1>2, <1>4, <1>5

\* Writing a transaction with the answer to the request for its nonce.
LEMMA AnswerMoves ==
  ASSUME TypeOK, chain' = chain, NEW i \in TxIds, NEW m \in Meta,
         Rewrites(i, m), Asks(i), ~Asks(i)',
         m.status \in {"Approved", "Signed", "Error", "Unapproved"}
  PROVE  TxMoves(i)
<1>1. chain \in Chains /\ m # None
  BY NoMetaAssumption DEF TypeOK
<1>2. txs'[chain][i] = m \/ txs'[chain][i] = None
  BY <1>1 DEF Rewrites, IsRewritten
<1>3. listed'[chain][i] = IF txs'[chain][i] = None THEN "absent"
                                                   ELSE txs'[chain][i].status
  BY <1>1 DEF listed
<1> QED
  BY <1>1, <1>2, <1>3 DEF TxMoves, Lifecycle!AfterAnswer

\* A step that writes nothing, asks for no nonce and lets go only what may go
\* is a move.
LEMMA QuietMoves ==
  ASSUME TypeOK, Orderly, Orderly', chain' = chain,
         \A j \in TxIds : AsksAsBefore(j),
         \A k \in Chains, j \in TxIds :
           \/ txs'[k][j] = txs[k][j]
           \/ k = chain /\ MayGo(txs[k][j]) /\ txs'[k][j] = None
  PROVE  Lifecycle!Move(chain)
<1>1. chain \in Chains
  BY DEF TypeOK
<1>2. \A j \in TxIds : TxMoves(j)
  BY <1>1, KeptMoves
<1> QED
  BY <1>1, <1>2, StepMoves

\* A round of updates is a move.
LEMMA UpdateMoves ==
  ASSUME TypeOK, Orderly, Orderly', chain' = chain, NEW run,
         UpdatePendingTransactions(txs, calls, run)
  PROVE  Lifecycle!Move(chain)
<1>1. txs \in Stores
  BY DEF TypeOK
<1>2. \A j \in TxIds : AsksAsBefore(j)
  BY DEF AsksAsBefore, Asks, CallsOf, UpdatePendingTransactions
<1> QED
  BY <1>1, <1>2, UpdatePendingRows, QuietMoves DEF MayGo, Out

\* Adding a transaction is a move.
LEMMA AddMoves ==
  ASSUME TypeOK, Orderly, Orderly', chain' = chain,
         NEW m \in Meta, m.status = "Unapproved", NEW of,
         NEW cs, \A c \in calls : c.type = "nonce" <=> c \in cs /\ c.type = "nonce",
         cs \subseteq calls,
         ContinueAddUnapprovedTransaction(m, of, cs)
  PROVE  Lifecycle!Move(chain)
<1>0. chain \in Chains
  BY DEF TypeOK
<1>1. PICK i \in TxIds :
        intent[i] = 0 /\ SaveTx(i, [m EXCEPT !.chain = chain], cs)
  BY DEF ContinueAddUnapprovedTransaction
<1> DEFINE n == [m EXCEPT !.chain = chain]
<1>2. n \in Meta /\ n.status = "Unapproved"
  BY DEF TypeOK, Meta
<1>3. SaveTx(i, n, cs)
  BY <1>1
<1> HIDE DEF n
<1>4. Rewrites(i, n) /\ calls' = cs
  BY <1>2, <1>3, SaveTxRewrites DEF SaveTx
<1>5. ~Listed(chain, i) /\ \A c \in calls : c.type = "nonce" => c.id # i
  BY <1>0, <1>1 DEF Orderly, Proper, UnusedIsUnknown, RequestTypes
<1>6. \A j \in TxIds : AsksAsBefore(j)
  BY <1>4 DEF AsksAsBefore, Asks, CallsOf
<1>7. ~Asks(i) /\ ~Asks(i)'
  BY <1>5, <1>6 DEF AsksAsBefore, Asks, CallsOf
<1>8. <<listed[chain][i], n.status>> \in Lifecycle!Edges
  BY <1>0, <1>2, <1>5, ListedAs DEF Listed, Lifecycle!Edges
<1> QED
  BY <1>2, <1>4, <1>6, <1>7, <1>8, IdleMoves, WriteMoves

\* What signing leaves of the requests for nonces.
LEMMA SignKeepsNonces ==
  ASSUME NEW i, NEW m, NEW n, NEW cs, Sign(i, m, chain, n, cs)
  PROVE  \A c : c.type = "nonce" => (c \in calls' <=> c \in cs)
<1> DEFINE sig == IF keyring = "unlocked"
                    THEN [id |-> i, from |-> m.from, nonce |-> n,
                          chain |-> chain]
                    ELSE m.sig
           approved == [m EXCEPT !.status = "Approved", !.nonce = n,
                                 !.sig = sig]
           signed == [approved EXCEPT !.status = "Signed", !.hash = sig]
           call == [type |-> "publish", id |-> i, raw |-> sig,
                    chain |-> chain, accepted |-> FALSE]
<1>1. \/ SaveTx(i, approved, cs)
      \/ \E s \in AddOrUpdateTx(txs, chain, i, approved) :
           UpdatePendingTransactions(Put(s, chain, i, signed), cs, running)
      \/ SaveTx(i, approved, cs \cup {call})
  BY DEF Sign
<1>2. call.type = "publish"
  OBVIOUS
<1> HIDE DEF approved, signed, call
<1>3. CASE SaveTx(i, approved, cs) \/ SaveTx(i, approved, cs \cup {call})
  BY <1>2, <1>3 DEF SaveTx
<1>4. ASSUME NEW s, UpdatePendingTransactions(s, cs, running)
      PROVE  \A c : c.type = "nonce" => (c \in calls' <=> c \in cs)
  BY <1>4 DEF UpdatePendingTransactions
<1> QED
  BY <1>1, <1>3, <1>4

\* Signing is a move, of a transaction that waits for the user or of one whose
\* nonce has come.
LEMMA SignMoves ==
  ASSUME TypeOK, Orderly, Orderly', chain' = chain,
         NEW i \in TxIds, NEW m \in Meta, NEW n \in Nonces, NEW cs,
         Sign(i, m, chain, n, cs), keyring = "unlocked",
         \A j \in TxIds \ {i} : AsksAsBefore(j), ~Asks(i)',
         Asks(i) \/ listed[chain][i] = "Unapproved"
  PROVE  Lifecycle!Move(chain)
<1>1. PICK w \in Meta : Rewrites(i, w) /\ w.status \in {"Approved", "Signed"}
  BY SignEffect
<1>2. CASE Asks(i)
  BY <1>1, <1>2, AnswerMoves, WriteMoves
<1>3. CASE ~Asks(i)
  <2>1. <<listed[chain][i], w.status>> \in Lifecycle!Edges
    BY <1>1, <1>3 DEF Lifecycle!Edges
  <2> QED
    BY <1>1, <1>3, <2>1, IdleMoves, WriteMoves
<1> QED
  BY <1>2, <1>3

\* Saving what waits for the user, as edited or rejected, is a move whatever is
\* asked for.
LEMMA RedraftMoves ==
  ASSUME TypeOK, Orderly, Orderly', chain' = chain, NEW i \in TxIds,
         Listed(chain, i), txs[chain][i].status = "Unapproved",
         NEW m \in Meta, m.status \in {"Unapproved", "Rejected"},
         SaveTx(i, m, calls)
  PROVE  Lifecycle!Move(chain)
<1>1. chain \in Chains /\ m # None
  BY NoMetaAssumption DEF TypeOK
<1>2. calls' = calls /\ txs'[chain][i] = m
  BY <1>1, SaveListed
<1>3. \A j \in TxIds : AsksAsBefore(j)
  BY <1>2 DEF AsksAsBefore, Asks, CallsOf
<1>4. listed[chain][i] = "Unapproved" /\ listed'[chain][i] = m.status
  BY <1>1, <1>2, ListedAs DEF listed, Listed
<1>5. TxMoves(i)
  BY <1>3, <1>4
  DEF TxMoves, AsksAsBefore, Lifecycle!Edges, Lifecycle!AskedEdges
<1> QED
  BY <1>3, <1>5, SaveTxRewrites, WriteMoves

\* Saving what the user has confirmed on a device is a move.
LEMMA SaveMoves ==
  ASSUME TypeOK, Orderly, Orderly', PatientClients, chain' = chain,
         NEW i \in TxIds, ClientMayConfirm(i),
         NEW m \in Meta, m.status \in {"Approved", "Error"},
         NEW cs, \A c : c.type = "nonce" => (c \in cs <=> c \in calls),
         SaveTx(i, m, cs)
  PROVE  Lifecycle!Move(chain)
<1>1. chain \in Chains /\ Proper(i)
  BY DEF TypeOK, Orderly
<1>2. listed[chain][i] = "Unapproved"
  BY <1>1, CommandOnListed, ListedAs DEF Listed
<1>3. Rewrites(i, m) /\ calls' = cs
  BY SaveTxRewrites DEF SaveTx
<1>4. \A j \in TxIds : AsksAsBefore(j)
  BY <1>3 DEF AsksAsBefore, Asks, CallsOf
<1>5. ~Asks(i) /\ ~Asks(i)'
  BY <1>1, <1>4, ConfirmOnIdle DEF AsksAsBefore, Asks, CallsOf, RequestTypes
<1>6. <<listed[chain][i], m.status>> \in Lifecycle!Edges
  BY <1>2 DEF Lifecycle!Edges
<1> QED
  BY <1>3, <1>4, <1>5, <1>6, IdleMoves, WriteMoves

\* Asking for a nonce is a move.
LEMMA AskMoves ==
  ASSUME TypeOK, Orderly, Orderly', PatientClients, chain' = chain,
         NEW i \in TxIds, ClientMayConfirm(i),
         NEW p, p.type = "nonce", p.id = i, calls' = calls \cup {p}, txs' = txs
  PROVE  Lifecycle!Move(chain)
<1>1. chain \in Chains /\ Proper(i)
  BY DEF TypeOK, Orderly
<1>2. listed[chain][i] = "Unapproved" /\ listed' = listed
  BY <1>1, CommandOnListed, ListedAs DEF Listed, listed
<1>3. \A j \in TxIds \ {i} : AsksAsBefore(j)
  BY DEF AsksAsBefore, Asks, CallsOf
<1>4. ~Asks(i)
  BY <1>1, ConfirmOnIdle DEF Asks, CallsOf, RequestTypes
<1>5. Asks(i)'
  BY DEF Asks, CallsOf
<1>6. \A j \in TxIds : TxMoves(j)
  <2>1. TxMoves(i)
    BY <1>2, <1>4, <1>5 DEF TxMoves
  <2> QED
    BY <1>3, <2>1, KeptMoves
<1> QED
  BY <1>6, StepMoves

\* Requests for nonces that stay the same are awaited as before.
LEMMA SameAwaited ==
  ASSUME CallsOf("nonce")' = CallsOf("nonce")
  PROVE  awaited' = awaited
BY DEF awaited

\* The commands of the user are moves, or the wallet is wiped, or forgets.
LEMMA UserMoves ==
  ASSUME TypeOK, Orderly, Orderly', PatientClients, UserStep
  PROVE  Lifecycle!Next \/ UNCHANGED <<listed, awaited>>
<1>0. /\ chain \in Chains
      /\ Lifecycle!Move(chain) => Lifecycle!Next
      /\ \A j \in TxIds : Proper(j)
  BY DEF TypeOK, Orderly, Lifecycle!Next
<1>1. ASSUME NEW a \in Accounts, NEW signOnly \in BOOLEAN,
             AddUnapprovedTransaction(a, signOnly)
      PROVE  Lifecycle!Move(chain) \/ UNCHANGED <<listed, awaited>>
  <2> DEFINE m == [status |-> "Unapproved", from |-> a, nonce |-> None,
                   sig |-> None, hash |-> None, signOnly |-> signOnly,
                   chain |-> chain]
             call == [type |-> "gas", meta |-> m, intent |-> 0]
  <2>1. m \in Meta /\ m.status = "Unapproved" /\ call.type # "nonce"
    BY DEF TypeOK, Meta, Status, Signatures
  <2>2. /\ chain' = chain
        /\ \/ ContinueAddUnapprovedTransaction(m, 0, calls)
           \/ txs' = txs /\ calls' = calls \cup {call}
    BY <1>1 DEF AddUnapprovedTransaction
  <2> HIDE DEF m, call
  <2>3. CASE ContinueAddUnapprovedTransaction(m, 0, calls)
    BY <2>1, <2>2, <2>3, AddMoves
  <2>4. CASE txs' = txs /\ calls' = calls \cup {call}
    BY <2>1, <2>4, SameAwaited DEF listed, CallsOf
  <2> QED
    BY <2>2, <2>3, <2>4
<1>2. ASSUME NEW i \in TxIds, RetryTransaction(i)
      PROVE  Lifecycle!Move(chain)
  <2> DEFINE m == [Tx(i) EXCEPT !.status = "Unapproved", !.hash = None,
                                !.signOnly = FALSE]
  <2>1. Tx(i) \in Meta
    BY <1>2, TxType DEF RetryTransaction
  <2>2. m \in Meta /\ m.status = "Unapproved"
    BY <2>1 DEF Meta, Status, Signatures
  <2>3. /\ ContinueAddUnapprovedTransaction(m, IntentOfCopy(i), calls)
        /\ chain' = chain
    BY <1>2 DEF RetryTransaction
  <2> HIDE DEF m
  <2> QED
    BY <2>2, <2>3, AddMoves
<1>3. ASSUME NEW i \in TxIds, ClientMayCommand(i) \/ ClientMayConfirm(i)
      PROVE  /\ Tx(i) \in Meta /\ Tx(i).status = "Unapproved"
             /\ Listed(chain, i) /\ txs[chain][i].status = "Unapproved"
             /\ listed[chain][i] = "Unapproved"
             /\ keyring = "unlocked"
  BY <1>0, <1>3, CommandOnListed, ListedAs DEF Listed
<1>4. ASSUME NEW i \in TxIds, NEW n \in Nonces \cup {None},
             \/ SetGasOrDataForUnapprovedTransaction(i)
             \/ SetNonceForUnapprovedTransaction(i, n)
      PROVE  Lifecycle!Move(chain)
  <2>1. ClientMayCommand(i) /\ chain' = chain
    BY <1>4 DEF SetGasOrDataForUnapprovedTransaction,
                SetNonceForUnapprovedTransaction
  <2>2. \/ SaveTx(i, Edited(Tx(i)), calls)
        \/ SaveTx(i, [Edited(Tx(i)) EXCEPT !.nonce = n], calls)
    BY <1>4 DEF SetGasOrDataForUnapprovedTransaction,
                SetNonceForUnapprovedTransaction
  <2>3. /\ Edited(Tx(i)) \in Meta /\ Edited(Tx(i)).status = "Unapproved"
        /\ [Edited(Tx(i)) EXCEPT !.nonce = n] \in Meta
        /\ [Edited(Tx(i)) EXCEPT !.nonce = n].status = "Unapproved"
    BY <1>3, <2>1 DEF Edited, Meta, Signatures
  <2> QED
    BY <1>3, <2>1, <2>2, <2>3, RedraftMoves
<1>5. ASSUME NEW i \in TxIds, RejectTransaction(i)
      PROVE  Lifecycle!Move(chain)
  <2> DEFINE m == [Tx(i) EXCEPT !.status = "Rejected"]
  <2>1. ClientMayConfirm(i) /\ SaveTx(i, m, calls) /\ chain' = chain
    BY <1>5 DEF RejectTransaction
  <2>2. m \in Meta /\ m.status = "Rejected"
    BY <1>3, <2>1 DEF Meta, Status
  <2> HIDE DEF m
  <2> QED
    BY <1>3, <2>1, <2>2, RedraftMoves
<1>6. ASSUME NEW i \in TxIds, ApproveTransaction(i)
      PROVE  Lifecycle!Move(chain)
  <2>1. ClientMayConfirm(i) /\ chain' = chain
    BY <1>6 DEF ApproveTransaction
  <2>2. CASE Tx(i).nonce = None
    <3> DEFINE p == [type |-> "nonce", id |-> i, meta |-> Tx(i),
                     chain |-> chain, hardware |-> FALSE,
                     again |-> CommandsOn(i) # {}]
    <3>1. p.type = "nonce" /\ p.id = i
      OBVIOUS
    <3>2. calls' = calls \cup {p} /\ txs' = txs
      BY <1>6, <2>2 DEF ApproveTransaction
    <3> HIDE DEF p
    <3> QED
      BY <2>1, <3>1, <3>2, AskMoves
  <2>3. CASE Tx(i).nonce # None
    <3>1. Tx(i).nonce \in Nonces
      BY <1>3, <2>1, <2>3 DEF Meta
    <3>2. Sign(i, Tx(i), chain, Tx(i).nonce, calls)
      BY <1>6, <2>3 DEF ApproveTransaction
    <3>3. \A j \in TxIds : AsksAsBefore(j)
      BY <3>2, SignKeepsNonces DEF AsksAsBefore, Asks, CallsOf
    <3>4. ~Asks(i)
      BY <1>0, <2>1, ConfirmOnIdle DEF Asks, CallsOf, RequestTypes
    <3> QED
      BY <1>3, <2>1, <3>1, <3>2, <3>3, <3>4, SignMoves DEF AsksAsBefore
  <2> QED
    BY <2>2, <2>3
<1>7. ASSUME NEW i \in TxIds, GetNonceForHardwareTransaction(i)
      PROVE  Lifecycle!Move(chain)
  <2>1. ClientMayConfirm(i) /\ chain' = chain
    BY <1>7 DEF GetNonceForHardwareTransaction
  <2>2. CASE Tx(i).nonce = None
    <3> DEFINE p == [type |-> "nonce", id |-> i, meta |-> Tx(i),
                     chain |-> chain, hardware |-> TRUE,
                     again |-> CommandsOn(i) # {}]
    <3>1. p.type = "nonce" /\ p.id = i
      OBVIOUS
    <3>2. calls' = calls \cup {p} /\ txs' = txs
      BY <1>7, <2>2 DEF GetNonceForHardwareTransaction
    <3> HIDE DEF p
    <3> QED
      BY <2>1, <3>1, <3>2, AskMoves
  <2>3. CASE Tx(i).nonce # None
    <3>1. SaveTx(i, Tx(i), calls)
      BY <1>7, <2>3 DEF GetNonceForHardwareTransaction
    <3> QED
      BY <1>3, <2>1, <3>1, RedraftMoves
  <2> QED
    BY <2>2, <2>3
<1>8. ASSUME NEW i \in TxIds, NEW k \in Chains, ProcessHardwareSignature(i, k)
      PROVE  Lifecycle!Move(chain)
  <2> DEFINE sig == [id |-> i, from |-> Tx(i).from, nonce |-> Tx(i).nonce,
                     chain |-> k]
             m == [Tx(i) EXCEPT !.status = "Approved", !.sig = sig]
             failed == [Tx(i) EXCEPT !.status = "Error"]
             call == [type |-> "publish", id |-> i, raw |-> sig,
                      chain |-> chain, accepted |-> FALSE]
  <2>1. ClientMayConfirm(i) /\ Tx(i).nonce # None /\ chain' = chain
    BY <1>8 DEF ProcessHardwareSignature
  <2>2. sig \in Signatures
    BY <1>3, <2>1 DEF Meta, Signatures, SignedTx
  <2>3. /\ m \in Meta /\ m.status = "Approved"
        /\ failed \in Meta /\ failed.status = "Error"
        /\ call.type = "publish"
    BY <1>3, <2>1, <2>2 DEF Meta, Status
  <2>4. SaveTx(i, m, calls \cup {call}) \/ SaveTx(i, failed, calls)
    BY <1>8 DEF ProcessHardwareSignature
  <2> HIDE DEF m, failed, call
  <2>5. \A c : c.type = "nonce" => (c \in calls \cup {call} <=> c \in calls)
    BY <2>3
  <2> QED
    BY <2>1, <2>3, <2>4, <2>5, SaveMoves
<1>9. CASE RejectAllTransactions
  <2>1. UNCHANGED <<chain, calls>> /\ txs \in Stores
    BY <1>9 DEF RejectAllTransactions, TypeOK
  <2>2. \A k \in Chains, j \in TxIds :
          txs'[k][j] = IF k = chain /\ Listed(k, j)
                            /\ txs[k][j].status = "Unapproved"
                         THEN [txs[k][j] EXCEPT !.status = "Rejected"]
                         ELSE txs[k][j]
    BY <1>0, <1>9, <2>1
    DEF RejectAllTransactions, Queue, Stores, ByStatus, Listed
  <2>3. \A j \in TxIds : AsksAsBefore(j)
    BY <2>1 DEF AsksAsBefore, Asks, CallsOf
  <2>4. ASSUME NEW j \in TxIds
        PROVE  TxMoves(j)
    <3>1. CASE ~(Listed(chain, j) /\ txs[chain][j].status = "Unapproved")
      BY <1>0, <2>1, <2>2, <2>3, <3>1, KeptMoves
    <3>2. CASE Listed(chain, j) /\ txs[chain][j].status = "Unapproved"
      <4>1. txs[chain][j] \in Meta
        BY <1>0, <3>2, ListedType
      <4>2. /\ txs'[chain][j] # None
            /\ txs'[chain][j].status = "Rejected"
        <5>1. [txs[chain][j] EXCEPT !.status = "Rejected"] \in Meta
          BY <4>1 DEF Meta, Status
        <5> QED
          BY <1>0, <2>2, <3>2, <4>1, <5>1, NoMetaAssumption DEF Meta
      <4>3. listed[chain][j] = "Unapproved" /\ listed'[chain][j] = "Rejected"
        BY <1>0, <2>1, <3>2, <4>2 DEF listed, Listed
      <4> QED
        BY <2>3, <4>3
        DEF TxMoves, AsksAsBefore, Lifecycle!Edges, Lifecycle!AskedEdges
    <3> QED
      BY <3>1, <3>2
  <2>5. \A k \in Chains \ {chain}, j \in TxIds : txs'[k][j] = txs[k][j]
    BY <2>2
  <2>6. Lifecycle!Move(chain)
    BY <2>1, <2>4, <2>5, StepMoves
  <2> QED
    BY <1>0, <2>6
<1>10. CASE Reset
  <2>1. listed' = Lifecycle!Absent /\ UNCHANGED calls
    BY <1>10 DEF Reset, listed, EmptyStore, Lifecycle!Absent
  <2>2. CallsOf("nonce") = {}
    BY <1>10 DEF Reset, NoCommandRuns, Does, PatientClients
  <2>3. awaited = Lifecycle!Unasked
    BY <2>2 DEF awaited, Lifecycle!Unasked
  <2>4. awaited' = awaited
    BY <2>1, SameAwaited DEF CallsOf
  <2> QED
    BY <2>1, <2>3, <2>4 DEF Lifecycle!Next, Lifecycle!Wipe
<1>11. CASE Restart
  <2>1. listed' = listed /\ calls' = {}
    BY <1>11 DEF Restart, listed
  <2>2. awaited' = Lifecycle!Unasked
    BY <2>1 DEF awaited, CallsOf, Lifecycle!Unasked
  <2> QED
    BY <2>1, <2>2 DEF Lifecycle!Next, Lifecycle!Forget
<1>12. ASSUME NEW i \in TxIds, SpeedupOrCancelTransaction(i)
       PROVE  UNCHANGED <<listed, awaited>>
  <2>1. txs' = txs /\ CallsOf("nonce")' = CallsOf("nonce")
    BY <1>12 DEF SpeedupOrCancelTransaction, CallsOf
  <2> QED
    BY <2>1, SameAwaited DEF listed
<1>13. CASE \/ CreateWallet \/ Lock \/ Unlock
            \/ \E c \in Chains : SetNetwork(c)
  <2>1. UNCHANGED <<txs, calls>>
    BY <1>13 DEF CreateWallet, Lock, Unlock, SetNetwork
  <2> QED
    BY <2>1, SameAwaited DEF listed, CallsOf
<1> QED
  BY <1>0, <1>1, <1>2, <1>4, <1>5, <1>6, <1>7, <1>8, <1>9, <1>10, <1>11,
     <1>12, <1>13
  DEF UserStep

\* The callbacks are moves.
LEMMA WalletMoves ==
  ASSUME TypeOK, Orderly, Orderly', WalletStep
  PROVE  Lifecycle!Next \/ UNCHANGED <<listed, awaited>>
<1>0. /\ chain \in Chains /\ txs \in Stores
      /\ Lifecycle!Move(chain) => Lifecycle!Next
  BY DEF TypeOK, Lifecycle!Next
<1>1. ASSUME NEW c \in CallsOf("gas"), OnGetGas(c)
      PROVE  Lifecycle!Move(chain) \/ UNCHANGED <<listed, awaited>>
  <2>1. c.meta \in Meta
    BY CallKinds DEF TypeOK, CallsOf, GasCalls
  <2>2. c.type # "nonce" /\ c.meta.status = "Unapproved"
    BY DEF Orderly, DraftsAreUnapproved, CallsOf
  <2>3. /\ chain' = chain
        /\ \/ ContinueAddUnapprovedTransaction(c.meta, c.intent, calls \ {c})
           \/ txs' = txs /\ calls' = calls \ {c}
    BY <1>1 DEF OnGetGas
  <2>4. CASE ContinueAddUnapprovedTransaction(c.meta, c.intent, calls \ {c})
    <3>1. \A d \in calls : d.type = "nonce"
                             <=> d \in calls \ {c} /\ d.type = "nonce"
      BY <2>2
    <3> QED
      BY <2>1, <2>2, <2>3, <2>4, <3>1, AddMoves
  <2>5. CASE txs' = txs /\ calls' = calls \ {c}
    BY <2>2, <2>5, SameAwaited DEF listed, CallsOf
  <2> QED
    BY <2>3, <2>4, <2>5
<1>2. ASSUME NEW c \in CallsOf("nonce"), chain' = chain,
             \A d : d.type = "nonce" => (d \in calls' <=> d \in calls \ {c})
      PROVE  /\ c.id \in TxIds /\ c.meta \in Meta /\ c.chain = chain
             /\ keyring = "unlocked" /\ c.meta.status = "Unapproved"
             /\ Asks(c.id) /\ ~Asks(c.id)'
             /\ \A j \in TxIds \ {c.id} : AsksAsBefore(j)
  <2>1. /\ c.id \in TxIds /\ c.meta \in Meta /\ c.chain = chain
        /\ keyring = "unlocked"
        /\ \A d \in calls \ {c} : d.type \in RequestTypes => d.id # c.id
    BY NonceAnswered
  <2>2. c.meta.status = "Unapproved"
    BY <2>1 DEF Orderly, Proper, AwaitsNonce
  <2>3. Asks(c.id)
    BY DEF Asks
  <2>4. ~Asks(c.id)'
    BY <1>2, <2>1 DEF Asks, CallsOf, RequestTypes
  <2>5. \A j \in TxIds \ {c.id} : AsksAsBefore(j)
    BY <1>2 DEF AsksAsBefore, Asks, CallsOf
  <2> QED
    BY <2>1, <2>2, <2>3, <2>4, <2>5
<1>3. ASSUME NEW c \in CallsOf("nonce"), OnGetNextNonce(c)
      PROVE  Lifecycle!Move(chain)
  <2>0. c.chain = chain /\ chain' = chain
    BY <1>3, NonceAnswered DEF OnGetNextNonce
  <2>1. PICK n \in Nonces : Sign(c.id, c.meta, chain, n, calls \ {c})
    BY <1>3, <2>0 DEF OnGetNextNonce
  <2>2. \A d : d.type = "nonce" => (d \in calls' <=> d \in calls \ {c})
    BY <2>1, SignKeepsNonces
  <2> QED
    BY <1>2, <2>0, <2>1, <2>2, SignMoves
<1>4. ASSUME NEW c \in CallsOf("nonce"), NEW m \in Meta, chain' = chain,
             m.status \in {"Unapproved", "Error"},
             SaveTx(c.id, m, calls \ {c})
      PROVE  Lifecycle!Move(chain)
  <2>1. calls' = calls \ {c}
    BY <1>4 DEF SaveTx
  <2>2. /\ c.id \in TxIds /\ Asks(c.id) /\ ~Asks(c.id)'
        /\ \A j \in TxIds \ {c.id} : AsksAsBefore(j)
    BY <1>2, <1>4, <2>1
  <2>3. Rewrites(c.id, m)
    BY <1>4, <2>2, SaveTxRewrites
  <2> QED
    BY <1>4, <2>2, <2>3, AnswerMoves, WriteMoves
<1>5. ASSUME NEW c \in CallsOf("nonce"),
             OnGetNextNonceForHardware(c) \/ OnGetNextNonceFailed(c)
      PROVE  Lifecycle!Move(chain)
  <2>1. c.meta \in Meta /\ c.meta.status = "Unapproved" /\ chain' = chain
    <3>1. c.id \in TxIds /\ c.meta \in Meta
      BY NonceAnswered
    <3> QED
      BY <1>5, <3>1 DEF Orderly, Proper, AwaitsNonce,
                        OnGetNextNonceForHardware, OnGetNextNonceFailed
  <2>2. PICK m : /\ SaveTx(c.id, m, calls \ {c})
                 /\ \/ m = [c.meta EXCEPT !.status = "Error"]
                    \/ \E n \in Nonces : m = [c.meta EXCEPT !.nonce = n]
    BY <1>5 DEF OnGetNextNonceForHardware, OnGetNextNonceFailed
  <2>3. m \in Meta /\ m.status \in {"Unapproved", "Error"}
    BY <2>1, <2>2 DEF Meta, Status
  <2> QED
    BY <1>4, <2>1, <2>2, <2>3
<1>6. ASSUME \A d : d.type = "nonce" => (d \in calls' <=> d \in calls)
      PROVE  \A j \in TxIds : AsksAsBefore(j)
  BY <1>6 DEF AsksAsBefore, Asks, CallsOf
<1>7. ASSUME NEW c \in CallsOf("publish"), OnPublishTransaction(c)
      PROVE  Lifecycle!Move(chain)
  <2> DEFINE i == c.id
             m == txs[chain][i]
             sent == [m EXCEPT !.status = "Submitted", !.hash = c.raw]
             failed == [m EXCEPT !.status = "Error"]
  <2>1. /\ i \in TxIds /\ m # None /\ m \in Meta
        /\ m.status = "Approved"
        /\ chain' = chain
    BY <1>7, PublishAnswered DEF Listed, OnPublishTransaction
  <2>2. c.raw \in Signatures /\ c.type = "publish"
    BY CallKinds DEF TypeOK, CallsOf, PublishCalls
  <2>3. /\ sent \in Meta /\ sent.status = "Submitted"
        /\ failed \in Meta /\ failed.status = "Error"
    BY <2>1, <2>2 DEF Meta, Status
  <2>4. Tx(i) = m
    BY DEF Tx, GetTx
  <2>5. \/ \E s \in AddOrUpdateTx(txs, chain, i, sent) :
             UpdatePendingTransactions(s, calls \ {c}, running)
        \/ SaveTx(i, failed, calls \ {c})
    BY <1>7, <2>1, <2>4 DEF OnPublishTransaction, PublishFailed
  <2>6. /\ <<"Approved", "Submitted">> \in Lifecycle!Edges
        /\ <<"Approved", "Error">> \in Lifecycle!Edges
    BY DEF Lifecycle!Edges
  <2>7. listed[chain][i] = "Approved"
    BY <1>0, <2>1, ListedAs
  <2>8. ~Asks(i)
    BY <2>1, <2>7, AskedIsListed
  <2> HIDE DEF i, m, sent, failed
  <2>9. CASE SaveTx(i, failed, calls \ {c})
    <3>1. Rewrites(i, failed)
      BY <2>1, <2>3, <2>9, SaveTxRewrites
    <3>2. \A j \in TxIds : AsksAsBefore(j)
      BY <1>6, <2>2, <2>9 DEF SaveTx
    <3> QED
      BY <2>1, <2>3, <2>6, <2>7, <2>8, <3>1, <3>2, IdleMoves, WriteMoves
      DEF AsksAsBefore
  <2>10. ASSUME NEW s \in AddOrUpdateTx(txs, chain, i, sent),
                UpdatePendingTransactions(s, calls \ {c}, running)
         PROVE  Lifecycle!Move(chain)
    <3>1. s \in Stores
      BY <1>0, <2>1, <2>3, AddOrUpdateType
    <3>2. IsRewritten(txs, s, chain, i, sent)
      BY <1>0, <2>1, <2>3, AddOrUpdateRewrites
    <3>3. Rewrites(i, sent)
      BY <2>1, <2>10, <3>1, <3>2, UpdateAfterWrite
    <3>4. \A j \in TxIds : AsksAsBefore(j)
      BY <1>6, <2>2, <2>10 DEF UpdatePendingTransactions
    <3> QED
      BY <2>1, <2>3, <2>6, <2>7, <2>8, <3>3, <3>4, IdleMoves, WriteMoves
      DEF AsksAsBefore
  <2> QED
    BY <2>5, <2>9, <2>10
<1>8. ASSUME NEW c \in CallsOf("receipt"), OnGetTxReceipt(c)
      PROVE  Lifecycle!Move(chain)
  <2> DEFINE i == c.id
             m == txs[chain][i]
             sure == [m EXCEPT !.status = "Confirmed"]
  <2>1. c \in calls /\ c.type = "receipt" /\ i \in TxIds /\ chain' = chain
    BY <1>8, CallKinds DEF TypeOK, CallsOf, ReceiptCalls, OnGetTxReceipt
  <2>2. Tx(i) = m /\ m # None
    BY <1>8 DEF OnGetTxReceipt, Tx, GetTx
  <2>3. m \in Meta
    BY <1>0, <2>1, <2>2 DEF Stores
  <2>4. m.status \in Out
    BY <1>0, <2>1, <2>2 DEF Orderly, Proper, ReceiptsFit, Listed
  <2>5. sure \in Meta /\ sure.status = "Confirmed"
    BY <2>3 DEF Meta, Status
  <2>6. \/ SaveTx(i, sure, calls \ {c})
        \/ ShouldTxDropped(i, m, calls \ {c})
    BY <1>8, <2>2 DEF OnGetTxReceipt
  <2>7. listed[chain][i] = m.status
    BY <1>0, <2>1, <2>2, ListedAs
  <2>8. ~Asks(i)
    BY <2>1, <2>4, <2>7, AskedIsListed DEF Out
  <2> HIDE DEF i, sure
  <2>9. CASE SaveTx(i, sure, calls \ {c})
    <3>1. Rewrites(i, sure)
      BY <2>1, <2>5, <2>9, SaveTxRewrites
    <3>2. \/ m.status = "Confirmed"
          \/ <<m.status, "Confirmed">> \in Lifecycle!Edges
      BY <2>4 DEF Out, Lifecycle!Edges
    <3>3. \A j \in TxIds : AsksAsBefore(j)
      BY <1>6, <2>1, <2>9 DEF SaveTx
    <3> QED
      BY <2>1, <2>5, <2>7, <2>8, <3>1, <3>2, <3>3, IdleMoves, WriteMoves
      DEF AsksAsBefore
  <2>10. CASE ShouldTxDropped(i, m, calls \ {c})
    <3>1. txs' = txs \/ txs' = DeleteTx(txs, chain, i)
      BY <2>10 DEF ShouldTxDropped
    <3>2. MayGo(m)
      BY <2>2, <2>4 DEF MayGo
    <3>3. txs' = DeleteTx(txs, chain, i) =>
            \A k \in Chains, j \in TxIds :
              txs'[k][j] = IF k = chain /\ j = i THEN None ELSE txs[k][j]
      BY <1>0, <2>1, PutRows DEF DeleteTx
    <3>4. \A k \in Chains, j \in TxIds :
            \/ txs'[k][j] = txs[k][j]
            \/ k = chain /\ MayGo(txs[k][j]) /\ txs'[k][j] = None
      BY <3>1, <3>2, <3>3
    <3>5. \A d : d.type = "nonce" => (d \in calls' <=> d \in calls)
      BY <2>1, <2>10 DEF ShouldTxDropped
    <3> QED
      BY <1>6, <2>1, <3>4, <3>5, QuietMoves
  <2> QED
    BY <2>6, <2>9, <2>10
<1>9. CASE \/ \E c \in CallsOf("receipt") : OnNoTxReceipt(c)
           \/ \E c \in CallsOf("count") : OnGetNetworkNonce(c)
           \/ GetBlockNumber
           \/ OnNoNewBlock
  <2>1. txs' = txs /\ CallsOf("nonce")' = CallsOf("nonce")
    BY <1>9 DEF OnNoTxReceipt, OnGetNetworkNonce, GetBlockNumber,
                OnNoNewBlock, CallsOf
  <2> QED
    BY <2>1, SameAwaited DEF listed
<1>10. CASE OnNewBlock
  BY <1>0, <1>10, UpdateMoves DEF OnNewBlock
<1>11. CASE OnKeyringNotice
  <2>1. /\ chain' = chain
        /\ \/ UNCHANGED <<txs, calls>>
           \/ \E run : UpdatePendingTransactions(txs, calls, run)
    BY <1>11 DEF OnKeyringNotice
  <2>2. UNCHANGED <<txs, calls>> => UNCHANGED <<listed, awaited>>
    BY SameAwaited DEF listed, CallsOf
  <2> QED
    BY <1>0, <2>1, <2>2, UpdateMoves
<1> QED
  BY <1>0, <1>1, <1>3, <1>5, <1>7, <1>8, <1>9, <1>10, <1>11
  DEF WalletStep

\* The nodes move nothing.
LEMMA NetworkMoves ==
  ASSUME NetworkStep, TypeOK
  PROVE  UNCHANGED <<listed, awaited>>
<1>1. txs' = txs
  BY DEF NetworkStep, NodeAccepts, PageBroadcasts, Mine, OutsideTx
<1>2. CallsOf("nonce")' = CallsOf("nonce")
  <2>1. ASSUME NEW c \in CallsOf("publish"), NodeAccepts(c)
        PROVE  CallsOf("nonce")' = CallsOf("nonce")
    <3>1. c \in PublishCalls
      BY <2>1 DEF TypeOK, CallsOf, Calls, GasCalls, NonceCalls, PublishCalls,
                  ReceiptCalls, CountCalls
    <3>2. /\ c.type = "publish"
          /\ [c EXCEPT !.accepted = TRUE].type = "publish"
      BY <3>1 DEF PublishCalls
    <3>3. calls' = (calls \ {c}) \cup {[c EXCEPT !.accepted = TRUE]}
      BY <2>1 DEF NodeAccepts
    <3> QED
      BY <3>2, <3>3 DEF CallsOf
  <2>2. calls' = calls => CallsOf("nonce")' = CallsOf("nonce")
    BY DEF CallsOf
  <2> QED
    BY <2>1, <2>2 DEF NetworkStep, PageBroadcasts, Mine, OutsideTx
<1> QED
  BY <1>1, <1>2, SameAwaited DEF listed

\* With clients that neither command a transaction again before the answer
\* nor lock, switch or reset under a command, every step moves transactions of
\* one network along the edges of TxLifecycle, wipes them, or forgets what was
\* asked.  The clients may edit meanwhile, reject all that is queued and close
\* the panel: a rejection that meets a request for the nonce is then
\* overridden by its answer, every other rejection is final.
THEOREM LifecycleImplemented ==
  ASSUME PatientClients
  PROVE  Spec => ImplementsLifecycle
<1>1. Init => Lifecycle!Init
  <2>1. Init => listed = Lifecycle!Absent
    BY DEF Init, EmptyStore, listed, Lifecycle!Absent
  <2>2. Init => awaited = Lifecycle!Unasked
    BY DEF Init, awaited, CallsOf, Lifecycle!Unasked
  <2> QED
    BY <2>1, <2>2 DEF Lifecycle!Init
<1>2. UNCHANGED vars => UNCHANGED <<listed, awaited>>
  BY DEF vars, listed, awaited, CallsOf
<1>3. TypeOK /\ Orderly /\ Orderly' /\ [Next]_vars
        => [Lifecycle!Next]_(Lifecycle!lifecycleVars)
  <2>1. ASSUME TypeOK, Orderly, Orderly', [Next]_vars
        PROVE  Lifecycle!Next \/ UNCHANGED <<listed, awaited>>
    BY <1>2, <2>1, UserMoves, WalletMoves, NetworkMoves DEF Next
  <2> QED
    BY <2>1 DEF Lifecycle!lifecycleVars
<1> QED
  BY <1>1, <1>3, TypeCorrect, AlwaysOrderly, PTL
  DEF Spec, ImplementsLifecycle, Lifecycle!Spec
=============================================================================
