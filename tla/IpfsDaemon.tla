----------------------------- MODULE IpfsDaemon -----------------------------
(***************************************************************************)
(* IpfsService as the pin services use it: starting and stopping the local *)
(* IPFS node, the callbacks that wait for it to start, and the pins the    *)
(* node holds.  The node itself is outside the repository; only the set of *)
(* pins it answers about is kept.                                          *)
(*                                                                         *)
(* The operators are the functions of IpfsService; the modules that extend *)
(* this one make them steps.                                               *)
(***************************************************************************)
EXTENDS Naturals, FiniteSets, Sequences

CONSTANT Cids   \* content identifiers

Modes == {"recursive", "direct"}

\* A pin of the node, and of the record the browser keeps of its own pins.
Pins == Cids \X Modes

CidsOf(pins) == {p[1] : p \in pins}

VARIABLES
  installed,  \* kIPFSBinaryPath names an executable
  bound,      \* ipfs_service_ is bound: the utility process was asked to run
  up,         \* ipfs_pid_ > 0
  pending,    \* whose callbacks are in pending_launch_callbacks_
  present     \* the pins the node holds; they outlive the node's process

daemonVars == <<installed, bound, up, pending, present>>

\* "pins": at least one callback is the pin queue's; "others": there are
\* callbacks, none of them the pin queue's.
Waiters == {"none", "others", "pins"}

DaemonTypeOK ==
  /\ installed \in BOOLEAN
  /\ bound \in BOOLEAN
  /\ up \in BOOLEAN
  /\ pending \in Waiters
  /\ present \subseteq Pins

DaemonInit ==
  /\ installed = FALSE
  /\ bound = FALSE
  /\ up = FALSE
  /\ pending = "none"
  /\ present = {}

\* LaunchDaemon with a callback of "pins" or "others", or with none, of a node
\* that is not up.  A callback that is already waiting is taken for a launch
\* under way, whether or not there is one.
LaunchDaemon(whose) ==
  /\ pending' = IF whose = "pins" \/ (whose = "others" /\ pending = "none")
                THEN whose ELSE pending
  /\ bound' = (bound \/ (pending = "none" /\ installed))

\* Shutdown: the process is let go; the callbacks that wait for it stay.
Shutdown ==
  /\ bound' = FALSE
  /\ up' = FALSE

\* ShutdownDaemon without its observers: a node that is still starting goes on.
ShutdownDaemon ==
  /\ bound' = (bound /\ ~up)
  /\ up' = FALSE

=============================================================================
