-------------------------- MODULE EthNonceTracker --------------------------
(***************************************************************************)
(* How the wallet picks the nonce of a transaction that has none           *)
(* (nonce_tracker.cc, eth_nonce_tracker.cc): from the transaction count    *)
(* the node reports and from the Confirmed and Submitted transactions of   *)
(* the account on the selected network.                                    *)
(***************************************************************************)
EXTENDS EthTxStore

Larger(m, n) == IF m >= n THEN m ELSE n

NoncesOf(s, c, ids) == {s[c][i].nonce : i \in ids} \ {None}

\* The DCHECKs of the two helpers below: "Not supposed to happen for a
\* confirmed tx" and "... for a submitted tx".
NoncesAreSet(s, c, a) ==
  \A i \in ByStatusFrom(s, c, "Confirmed", a)
             \cup ByStatusFrom(s, c, "Submitted", a) : s[c][i].nonce # None

\* One more than the highest nonce of the confirmed transactions, or 0.
GetHighestLocallyConfirmed(s, c, a) ==
  LET next == {n + 1 : n \in NoncesOf(s, c, ByStatusFrom(s, c, "Confirmed", a))}
  IN  CHOOSE h \in next \cup {0} : \A n \in next : h >= n

\* FAULT: the submitted transactions are counted.
CountPendingFrom(s, c, a, start) ==
  start + Cardinality(ByStatusFrom(s, c, "Submitted", a))

\* A single pass over the submitted transactions, in the order of their ids:
\* pass[k] is the value of "highest" after the ids up to k.
GetHighestContinuousFrom(s, c, a, start) ==
  LET pending == ByStatusFrom(s, c, "Submitted", a)
      pass[k \in 0 .. NumTxs] ==
        IF k = 0 THEN start
        ELSE IF k \in pending /\ s[c][k].nonce = pass[k - 1]
               THEN pass[k - 1] + 1
               ELSE pass[k - 1]
  IN  pass[NumTxs]

GetFinalNonce(s, c, a, networkNonce) ==
  LET confirmed == Larger(networkNonce, GetHighestLocallyConfirmed(s, c, a))
  IN  Larger(networkNonce, GetHighestContinuousFrom(s, c, a, confirmed))
=============================================================================
