-------------------------- MODULE ReliableDelivery ---------------------------
(***************************************************************************)
(* What LLMessageSystem::sendReliable promises the caller, with no word    *)
(* about packets: a message is pending until its callback runs, the        *)
(* callback runs once, and it reports success only for a message the peer  *)
(* has handled.  A failure says nothing: the peer may have handled the     *)
(* message before or may handle it later.                                  *)
(***************************************************************************)
CONSTANT Messages   \* the messages that may be sent

VARIABLES status,   \* message -> unsent, pending, or what its callback was given
          handled   \* the messages the peer has handled

vars == <<status, handled>>

Failure == {"LL_ERR_TCP_TIMEOUT", "LL_ERR_CIRCUIT_GONE"}
Status == {"unsent", "pending", "LL_ERR_NOERR"} \cup Failure

Init ==
    /\ status = [m \in Messages |-> "unsent"]
    /\ handled = {}

\* sendReliable
Sent(m) == status[m] = "unsent" /\ status'[m] = "pending"

\* The callback is told of success, or of failure.
Succeeded(m) == /\ status[m] = "pending" /\ status'[m] = "LL_ERR_NOERR"
                /\ m \in handled
Failed(m) == status[m] = "pending" /\ status'[m] \in Failure

\* One packet, or one frame, may move several messages at once, each on its own
\* way; the peer handles nothing that was not sent before.
Next ==
    /\ status' \in [Messages -> Status]
    /\ \A m \in Messages :
            \/ status'[m] = status[m]
            \/ Sent(m) \/ Succeeded(m) \/ Failed(m)
    /\ handled \subseteq handled'
    /\ \A m \in handled' \ handled : m \in Messages /\ status[m] # "unsent"

Spec == Init /\ [][Next]_vars
=============================================================================
