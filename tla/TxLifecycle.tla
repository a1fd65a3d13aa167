---------------------------- MODULE TxLifecycle ----------------------------
(***************************************************************************)
(* What the wallet promises about a listed transaction while its clients   *)
(* give the commands: the statuses it goes through, and when a rejection   *)
(* is final.  EthTxManager implements it for clients that wait for the     *)
(* answer to a confirmation before they confirm again, lock, select        *)
(* another network or reset.                                               *)
(***************************************************************************)

CONSTANTS Networks, Ids

VARIABLES
  status,   \* status[n][i]: how transaction i is listed under network n
  asked     \* asked[n]: the transactions whose approval waits for its nonce

lifecycleVars == <<status, asked>>

States == {"absent", "Unapproved", "Approved", "Rejected", "Submitted",
           "Confirmed", "Error", "Signed"}

\* A transaction is listed as unapproved first.  The user rejects it, or
\* approves it, and then it is sent, handed signed to the page, or fails.
\* Once it is out only the chain decides.
Edges ==
  {<<"absent", "Unapproved">>,
   <<"Unapproved", "Rejected">>, <<"Unapproved", "Approved">>,
   <<"Unapproved", "Signed">>,   <<"Unapproved", "Error">>,
   <<"Approved", "Submitted">>,  <<"Approved", "Error">>,
   <<"Submitted", "Confirmed">>, <<"Signed", "Confirmed">>,
   \* dropped, as soon as it is out if its nonce is known to be spent
   <<"Submitted", "absent">>,    <<"Signed", "absent">>,
   <<"Unapproved", "absent">>,   <<"Approved", "absent">>,
   \* retired from the list
   <<"Confirmed", "absent">>,    <<"Rejected", "absent">>}

\* What can happen to a transaction while its nonce is asked for.
AskedEdges == {<<"Unapproved", "Rejected">>, <<"Rejected", "absent">>}

\* The answer restores what was captured when the user confirmed: a rejection
\* in between does not hold.
BeforeAnswer == {"Unapproved", "Rejected", "absent"}
AfterAnswer  == {"Approved", "Signed", "Error", "Unapproved", "absent"}

Absent  == [n \in Networks |-> [i \in Ids |-> "absent"]]
Unasked == [n \in Networks |-> {}]

Init == status = Absent /\ asked = Unasked

Along(n, i, edges) ==
  /\ i \in asked'[n] <=> i \in asked[n]
  /\ \/ status'[n][i] = status[n][i]
     \/ <<status[n][i], status'[n][i]>> \in edges

Ask(n, i) ==
  /\ i \notin asked[n] /\ i \in asked'[n]
  /\ status[n][i] = "Unapproved" /\ status'[n][i] = "Unapproved"

Answer(n, i) ==
  /\ i \in asked[n] /\ i \notin asked'[n]
  /\ status[n][i] \in BeforeAnswer /\ status'[n][i] \in AfterAnswer

\* Transactions of one network move.
Move(n) ==
  /\ \A i \in Ids :
       \/ i \notin asked[n] /\ Along(n, i, Edges)
       \/ i \in asked[n] /\ Along(n, i, AskedEdges)
       \/ Ask(n, i)
       \/ Answer(n, i)
  /\ \A k \in Networks \ {n} :
       status'[k] = status[k] /\ asked'[k] = asked[k]

\* The wallet is reset, with no approval under way.
Wipe == asked = Unasked /\ status' = Absent /\ UNCHANGED asked

\* The session ends: what was asked for gets no answer any more.
Forget == asked' = Unasked /\ UNCHANGED status

Next == (\E n \in Networks : Move(n)) \/ Wipe \/ Forget

Spec == Init /\ [][Next]_lifecycleVars
=============================================================================
